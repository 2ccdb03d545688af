----------------------------- MODULE AclProofs -----------------------------
(***************************************************************************)
(* Theorems about Acl: for every set of users, members, codes, objects,    *)
(* roles and request slots, with or without a replica, and for all time    *)
(* frames that are longer than a write and its replication take.           *)
(***************************************************************************)
EXTENDS Acl, FiniteSetTheorems, SequenceTheorems, TLAPS

-----------------------------------------------------------------------------
\* Lemmas about the log

LEMMA LogEntryType ==
  ASSUME NEW s \in Stores, NEW change \in {"put", "delete"}, NEW u \in Users,
         NEW t, t \in (IF s = "openfga" THEN Stored ELSE {None})
  PROVE  [change |-> change, tuple |-> t, by |-> u, age |-> 0] \in LogEntry(s)
<1>1. 0 \in 0..Lag[s]
  BY AclAssumption DEF Stores
<1> QED
  BY <1>1 DEF LogEntry

\* Logging a write leaves a well-formed log well formed.
LEMMA LogType ==
  ASSUME TypeOK, NEW s \in Stores, NEW change \in {"put", "delete"}, NEW u \in Users,
         NEW t, t \in (IF s = "openfga" THEN Stored ELSE {None}),
         Log(s, change, t, u)
  PROVE  DOMAIN wal' = Stores /\ \A x \in Stores : wal'[x] \in Seq(LogEntry(x))
<1> DEFINE e == [change |-> change, tuple |-> t, by |-> u, age |-> 0]
<1>1. e \in LogEntry(s)
  BY LogEntryType
<1>2. DOMAIN wal = Stores /\ \A x \in Stores : wal[x] \in Seq(LogEntry(x))
  BY DEF TypeOK
<1>3. Append(wal[s], e) \in Seq(LogEntry(s))
  BY <1>1, <1>2
<1>4. wal' = IF HasReplica THEN [wal EXCEPT ![s] = Append(@, e)] ELSE wal
  BY DEF Log
<1> HIDE DEF e
<1> QED
  BY <1>2, <1>3, <1>4

\* A record of the log that grows older keeps its place and its user.
LEMMA OlderType ==
  ASSUME NEW s \in Stores, NEW log \in Seq(LogEntry(s)),
         \A i \in DOMAIN log : log[i].age < Lag[s]
  PROVE  Older(log) \in Seq(LogEntry(s))
<1>1. Lag[s] \in Nat
  BY AclAssumption
<1>2. \A i \in 1..Len(log) : log[i] \in LogEntry(s)
  OBVIOUS
<1>3. \A i \in 1..Len(log) : [log[i] EXCEPT !.age = @ + 1] \in LogEntry(s)
  <2> TAKE i \in 1..Len(log)
  <2>1. log[i] \in LogEntry(s) /\ log[i].age < Lag[s]
    BY <1>2
  <2>2. log[i].age \in 0..Lag[s]
    BY <2>1 DEF LogEntry
  <2>3. log[i].age + 1 \in 0..Lag[s]
    BY <1>1, <2>1, <2>2
  <2> QED
    BY <2>1, <2>3 DEF LogEntry
<1>4. Older(log) \in [1..Len(log) -> LogEntry(s)]
  BY <1>3 DEF Older
<1> QED
  BY <1>4, SeqDef

-----------------------------------------------------------------------------
\* Type correctness

\* What a request that goes on at a label has in hand: who asks, and the
\* membership it is to change.
Hand(label, q) ==
  /\ label \in {"mark", "execute"} => q.op \in SetOps \cup {"database"}
  /\ label = "read" => q.op \in ReadOps /\ q.ctx \in Users
  /\ q.op \in SetOps \cup {"database"} => q.ctx \in Users
  /\ q.op \in SetOps => q.member \in Members /\ q.org \in Orgs
  /\ q.op = "Set" => q.role \in RoleNames

InHand == \A r \in Requests : Hand(pc[r], req[r])

TypeInv == TypeOK /\ InHand

LEMMA RolesLength == Len(Roles) \in Nat
  BY AclAssumption

LEMMA NoReqType == NoReq \in Request
<1>1. 1 \in 1..(Len(Roles) + 1) /\ 0 \in 0..Latency
  BY RolesLength, AclAssumption
<1> QED
  BY <1>1 DEF NoReq, Request

LEMMA InitTypeInv == Init => TypeInv
<1> SUFFICES ASSUME Init PROVE TypeInv
  OBVIOUS
<1>1. Cardinality(Grant) \in Nat
  BY AclAssumption, FS_CardinalityType
<1>2. primary \subseteq Stored
  <2>1. PICK first \in [Grant -> RoleNames \cup {None}],
             order \in [Grant -> 1..Cardinality(Grant)] :
          primary = {[member |-> mo[1], org |-> mo[2],
                      role |-> first[mo], id |-> order[mo]] :
                       mo \in {x \in Grant : first[x] # None}}
    BY DEF Init
  <2>2. ASSUME NEW mo \in Grant, first[mo] # None
        PROVE  [member |-> mo[1], org |-> mo[2],
                role |-> first[mo], id |-> order[mo]] \in Stored
    <3>1. mo[1] \in Subjects /\ mo[2] \in Orgs
      BY DEF Grant
    <3>2. first[mo] \in RoleNames /\ order[mo] \in Nat
      BY <1>1, <2>2
    <3> QED
      BY <3>1, <3>2 DEF Stored
  <2> QED
    BY <2>1, <2>2
<1>3. req \in [Requests -> Request]
  BY NoReqType DEF Init
<1>4. \A s \in Stores : wal[s] \in Seq(LogEntry(s))
  BY DEF Init
<1>5. changes \in 0..MaxChanges
  BY AclAssumption DEF Init
<1>6. InHand
  BY DEF InHand, Hand, Init, NoReq, SetOps, ReadOps
<1> QED
  BY <1>1, <1>2, <1>3, <1>4, <1>5, <1>6 DEF TypeInv, TypeOK, Init, PC, DonePC

\* A step that gives one request a label and a well-formed record.
LEMMA BecomeType ==
  ASSUME TypeInv, NEW r \in Requests, NEW label \in PC, NEW record \in Request,
         Become(r, label, record), Hand(label, record)
  PROVE  /\ pc' \in [Requests -> PC] /\ req' \in [Requests -> Request] /\ InHand'
<1>1. pc' = [pc EXCEPT ![r] = label] /\ req' = [req EXCEPT ![r] = record]
  BY DEF Become, Goto
<1>2. pc \in [Requests -> PC] /\ req \in [Requests -> Request]
  BY DEF TypeInv, TypeOK
<1>3. \A s \in Requests : Hand(pc'[s], req'[s])
  BY <1>1, <1>2 DEF TypeInv, InHand
<1> QED
  BY <1>1, <1>2, <1>3 DEF InHand

\* A write to a membership changes its own request, and marks some others.
LEMMA TouchedType ==
  ASSUME TypeInv, NEW r \in Requests, NEW label \in PC, NEW next \in Request,
         Goto(r, label), Touched(r, next), Hand(label, next)
  PROVE  /\ pc' \in [Requests -> PC] /\ req' \in [Requests -> Request] /\ InHand'
<1>1. pc' = [pc EXCEPT ![r] = label]
  BY DEF Goto
<1>2. pc \in [Requests -> PC] /\ req \in [Requests -> Request]
  BY DEF TypeInv, TypeOK
<1>3. \A s \in Requests : \/ s = r /\ req'[s] = next
                          \/ s # r /\ req'[s] = req[s]
                          \/ s # r /\ req'[s] = [req[s] EXCEPT !.alone = FALSE]
  BY DEF Touched
<1>4. ASSUME NEW s \in Requests PROVE req'[s] \in Request
  <2>1. req[s] \in Request /\ [req[s] EXCEPT !.alone = FALSE] \in Request
    BY <1>2 DEF Request
  <2> QED
    BY <1>3, <2>1
<1>5. ASSUME NEW s \in Requests PROVE Hand(pc'[s], req'[s])
  <2>1. CASE s = r
    BY <1>1, <1>2, <1>3, <2>1
  <2>2. CASE s # r
    <3>1. pc'[s] = pc[s] /\ Hand(pc[s], req[s]) /\ req[s] \in Request
      BY <1>1, <1>2, <2>2 DEF TypeInv, InHand
    <3>2. /\ req'[s].op = req[s].op /\ req'[s].ctx = req[s].ctx
          /\ req'[s].member = req[s].member /\ req'[s].org = req[s].org
          /\ req'[s].role = req[s].role
      BY <1>3, <2>2, <3>1 DEF Request
    <3> QED
      BY <3>1, <3>2 DEF Hand
  <2> QED
    BY <2>1, <2>2
<1> QED
  BY <1>1, <1>2, <1>4, <1>5 DEF Touched, InHand

LEMMA GetClientType ==
  ASSUME TypeOK, NEW u
  PROVE  GetClient(u) \subseteq Stored
  BY DEF TypeOK, GetClient

LEMMA HoldsType ==
  ASSUME NEW q, NEW store PROVE Holds(q, store) \in BOOLEAN
<1>1. CASE q.op = "Get"
  BY <1>1 DEF Holds
<1>2. CASE q.op # "Get"
  BY <1>2 DEF Holds
<1> QED
  BY <1>1, <1>2

\* A record of an entry in the log, from which a replica takes the tuple.
LEMMA ReplicateType ==
  ASSUME TypeOK, NEW s \in Stores, Replicate(s)
  PROVE  /\ replica' \subseteq Stored
         /\ DOMAIN wal' = Stores /\ \A x \in Stores : wal'[x] \in Seq(LogEntry(x))
<1>1. DOMAIN wal = Stores /\ \A x \in Stores : wal[x] \in Seq(LogEntry(x))
  BY DEF TypeOK
<1>2. wal[s] # <<>> /\ wal' = [wal EXCEPT ![s] = Tail(wal[s])]
  BY DEF Replicate
<1>3. Head(wal[s]) \in LogEntry(s) /\ Tail(wal[s]) \in Seq(LogEntry(s))
  BY <1>1, <1>2
<1>4. CASE s = "database"
  BY <1>4 DEF Replicate, TypeOK
<1>5. CASE s = "openfga"
  <2>1. Head(wal[s]).tuple \in Stored
    BY <1>3, <1>5 DEF LogEntry
  <2> QED
    BY <1>5, <2>1 DEF Replicate, TypeOK
<1>6. replica' \subseteq Stored
  BY <1>4, <1>5 DEF Stores
<1> QED
  BY <1>1, <1>2, <1>3, <1>6

LEMMA TypeInvStep == TypeInv /\ [Next]_vars => TypeInv'
<1> SUFFICES ASSUME TypeInv, [Next]_vars PROVE TypeInv'
  OBVIOUS
<1> USE DEF TypeInv
<1>0. 0 \in 0..Latency /\ 1 \in 1..(Len(Roles) + 1) /\ Len(Roles) \in Nat
  BY RolesLength, AclAssumption
<1>1. ASSUME NEW r \in Requests, Change(r) PROVE TypeInv'
  <2>1. PICK op \in SetOps \cup {"database"}, u \in Users, mo \in Membership,
             role \in RoleNames :
          /\ changes < MaxChanges
          /\ changes' = changes + 1
          /\ Become(r, "mark",
                    IF op = "database" THEN [NoReq EXCEPT !.op = op, !.ctx = u]
                    ELSE [NoReq EXCEPT !.op = op, !.ctx = u, !.member = mo[1],
                                       !.org = mo[2], !.role = role])
          /\ lost' = IF op = "Delete" THEN lost \cup {mo} ELSE lost
          /\ UNCHANGED <<stores, ttl>>
    BY <1>1 DEF Change
  <2> DEFINE q == IF op = "database" THEN [NoReq EXCEPT !.op = op, !.ctx = u]
                  ELSE [NoReq EXCEPT !.op = op, !.ctx = u, !.member = mo[1],
                                     !.org = mo[2], !.role = role]
  <2>2. mo[1] \in Members /\ mo[2] \in Orgs
    BY DEF Membership
  <2>3. q \in Request
    BY NoReqType, <2>2 DEF Request, SetOps, Subjects
  <2>4. Hand("mark", q)
    <3>1. CASE op = "database"
      BY <3>1 DEF Hand, NoReq, SetOps
    <3>2. CASE op # "database"
      BY <2>2, <3>2 DEF Hand, NoReq, SetOps
    <3> QED
      BY <3>1, <3>2
  <2>5. /\ pc' \in [Requests -> PC] /\ req' \in [Requests -> Request] /\ InHand'
    <3>1. Become(r, "mark", q) /\ "mark" \in PC
      BY <2>1 DEF PC
    <3> HIDE DEF q
    <3> QED
      BY <2>3, <2>4, <3>1, BecomeType
  <2>6. changes' \in 0..MaxChanges /\ lost' \subseteq Membership
    BY <2>1, AclAssumption DEF TypeOK
  <2> QED
    BY <2>1, <2>5, <2>6 DEF TypeOK, stores
<1>2. ASSUME NEW r \in Requests, Mark(r) PROVE TypeInv'
  <2>1. req[r] \in Request /\ Hand("mark", req[r])
    BY <1>2 DEF Mark, TypeOK, InHand
  <2> DEFINE q == [req[r] EXCEPT !.age = 0]
  <2>2. q \in Request
    BY <1>0, <2>1 DEF Request
  <2>3. Hand("execute", q)
    BY <2>1 DEF Hand, Request
  <2>4. /\ pc' \in [Requests -> PC] /\ req' \in [Requests -> Request] /\ InHand'
    <3>1. Become(r, "execute", q) /\ "execute" \in PC
      BY <1>2 DEF Mark, PC
    <3> HIDE DEF q
    <3> QED
      BY <2>2, <2>3, <3>1, BecomeType
  <2>5. ttl' \in [Users -> Nat]
    BY <1>2, AclAssumption DEF Mark, PinFrame, Stores, TypeOK
  <2> QED
    BY <1>2, <2>4, <2>5 DEF Mark, TypeOK, stores
<1>3. ASSUME NEW r \in Requests, DatabaseWrite(r) PROVE TypeInv'
  <2>1. Hand("execute", req[r]) /\ req[r].op = "database"
    BY <1>3 DEF DatabaseWrite, InHand
  <2>2. req[r].ctx \in Users
    BY <2>1 DEF Hand
  <2>3. DOMAIN wal' = Stores /\ \A x \in Stores : wal'[x] \in Seq(LogEntry(x))
    BY <1>3, <2>2, LogType DEF DatabaseWrite, Stores
  <2>4. pc' \in [Requests -> PC]
    BY <1>3 DEF DatabaseWrite, Goto, TypeOK, PC, DonePC
  <2>5. InHand'
    <3>1. \A s \in Requests : pc'[s] = pc[s] \/ pc'[s] = "done"
      BY <1>3 DEF DatabaseWrite, Goto, TypeOK
    <3> QED
      BY <1>3, <3>1 DEF DatabaseWrite, InHand, Hand
  <2> QED
    BY <1>3, <2>3, <2>4, <2>5 DEF DatabaseWrite, TypeOK
<1>4. ASSUME NEW r \in Requests, DeleteRole(r) PROVE TypeInv'
  <2> DEFINE q     == req[r]
             old   == {t \in primary : Key(t) = Key(q) /\ t.role = Roles[q.i]}
             next  == [q EXCEPT !.i = q.i + 1, !.age = 0]
             label == IF q.op = "Delete" /\ LoopEnds(q.i + 1) THEN "done" ELSE "mark"
  <2>1. q \in Request /\ Hand("execute", q) /\ q.op \in SetOps /\ q.i <= Len(Roles)
    <3>1. q \in Request /\ Hand("execute", q) /\ q.op \in SetOps /\ ~LoopEnds(q.i)
      BY <1>4 DEF DeleteRole, TypeOK, InHand
    <3>2. q.i \in 1..(Len(Roles) + 1)
      BY <3>1 DEF Request
    <3> QED
      BY <1>0, <3>1, <3>2 DEF LoopEnds
  <2>2. next \in Request /\ [next EXCEPT !.alone = FALSE] \in Request
    <3>1. q.i + 1 \in 1..(Len(Roles) + 1)
      <4>1. q.i \in 1..(Len(Roles) + 1)
        BY <2>1 DEF Request
      <4> QED
        BY <1>0, <2>1, <4>1
    <3>2. next \in Request
      <4> HIDE DEF q
      <4> QED
        BY <1>0, <2>1, <3>1 DEF Request
    <3> HIDE DEF next
    <3> QED
      BY <3>2 DEF Request
  <2>3. /\ next.op = q.op /\ next.ctx = q.ctx /\ next.member = q.member
        /\ next.org = q.org /\ next.role = q.role
    BY <2>1 DEF Request
  <2>4. label \in PC /\ Hand(label, next) /\ Hand(label, [next EXCEPT !.alone = FALSE])
    BY <2>1, <2>2, <2>3 DEF Hand, PC, DonePC, Request
  <2>5. /\ Goto(r, label)
        /\ \/ Touched(r, next) /\ UNCHANGED stores
           \/ \E t \in old : /\ primary' = primary \ {t}
                             /\ Log("openfga", "delete", t, q.ctx)
                             /\ Touched(r, next)
                             /\ UNCHANGED <<replica, ids>>
           \/ Touched(r, [next EXCEPT !.alone = FALSE]) /\ UNCHANGED stores
        /\ UNCHANGED <<ttl, changes, lost>>
    BY <1>4 DEF DeleteRole
  <2>6. q.ctx \in Users
    BY <2>1 DEF Hand
  <2>7. old \subseteq Stored
    BY DEF TypeOK
  <2> HIDE DEF q, old, next, label
  <2>8. CASE Touched(r, next) /\ UNCHANGED stores
    <3>1. /\ pc' \in [Requests -> PC] /\ req' \in [Requests -> Request] /\ InHand'
      BY <2>2, <2>4, <2>5, <2>8, TouchedType
    <3> QED
      BY <2>5, <2>8, <3>1 DEF TypeOK, stores
  <2>9. CASE Touched(r, [next EXCEPT !.alone = FALSE]) /\ UNCHANGED stores
    <3>1. /\ pc' \in [Requests -> PC] /\ req' \in [Requests -> Request] /\ InHand'
      BY <2>2, <2>4, <2>5, <2>9, TouchedType
    <3> QED
      BY <2>5, <2>9, <3>1 DEF TypeOK, stores
  <2>10. ASSUME NEW t \in old,
                primary' = primary \ {t},
                Log("openfga", "delete", t, q.ctx),
                Touched(r, next),
                UNCHANGED <<replica, ids>>
         PROVE  TypeInv'
    <3>1. /\ pc' \in [Requests -> PC] /\ req' \in [Requests -> Request] /\ InHand'
      BY <2>2, <2>4, <2>5, <2>10, TouchedType
    <3>2. DOMAIN wal' = Stores /\ \A x \in Stores : wal'[x] \in Seq(LogEntry(x))
      BY <2>6, <2>7, <2>10, LogType DEF Stores
    <3> QED
      BY <2>5, <2>10, <3>1, <3>2 DEF TypeOK
  <2> QED
    BY <2>5, <2>8, <2>9, <2>10
<1>5. ASSUME NEW r \in Requests, WriteRole(r) PROVE TypeInv'
  <2> DEFINE q    == req[r]
             new  == NewTuple(q)
             next == [q EXCEPT !.age = 0]
  <2>1. q \in Request /\ Hand("execute", q) /\ q.op = "Set"
    BY <1>5 DEF WriteRole, TypeOK, InHand
  <2>2. /\ q.ctx \in Users /\ q.member \in Members /\ q.org \in Orgs
        /\ q.role \in RoleNames
    BY <2>1 DEF Hand, SetOps
  <2>3. new \in Stored
    BY <2>2 DEF NewTuple, Stored, Subjects, TypeOK
  <2>4. next \in Request /\ Hand("done", next)
    BY <1>0, <2>1 DEF Request, Hand
  <2>5. NoReq \in Request /\ Hand("failed", NoReq) /\ {"done", "failed"} \subseteq PC
    BY NoReqType DEF Hand, NoReq, SetOps, PC, DonePC
  <2>6. Key(q) \in Membership
    BY <2>2 DEF Key, Membership
  <2>7. /\ \/ /\ primary' = primary \cup {new}
              /\ ids' = ids + 1
              /\ Log("openfga", "put", new, q.ctx)
              /\ Goto(r, "done")
              /\ Touched(r, next)
              /\ lost' \subseteq lost
              /\ UNCHANGED replica
           \/ /\ Become(r, "failed", NoReq)
              /\ lost' \subseteq lost \cup {Key(q)}
              /\ UNCHANGED stores
        /\ UNCHANGED <<ttl, changes>>
    BY <1>5 DEF WriteRole
  <2> HIDE DEF q, new, next
  <2>8. CASE /\ primary' = primary \cup {new}
             /\ ids' = ids + 1
             /\ Log("openfga", "put", new, q.ctx)
             /\ Goto(r, "done")
             /\ Touched(r, next)
             /\ lost' \subseteq lost
             /\ UNCHANGED replica
    <3>1. /\ pc' \in [Requests -> PC] /\ req' \in [Requests -> Request] /\ InHand'
      BY <2>4, <2>5, <2>8, TouchedType
    <3>2. DOMAIN wal' = Stores /\ \A x \in Stores : wal'[x] \in Seq(LogEntry(x))
      BY <2>2, <2>3, <2>8, LogType DEF Stores
    <3> QED
      BY <2>3, <2>7, <2>8, <3>1, <3>2 DEF TypeOK
  <2>9. CASE /\ Become(r, "failed", NoReq)
             /\ lost' \subseteq lost \cup {Key(q)}
             /\ UNCHANGED stores
    <3>1. /\ pc' \in [Requests -> PC] /\ req' \in [Requests -> Request] /\ InHand'
      BY <2>5, <2>9, BecomeType
    <3> QED
      BY <2>6, <2>7, <2>9, <3>1 DEF TypeOK, stores
  <2> QED
    BY <2>7, <2>8, <2>9
<1>6. ASSUME NEW r \in Requests, Ask(r) PROVE TypeInv'
  <2>1. PICK op \in ReadOps, u \in Users, mo \in Membership, role \in RoleNames,
             code \in Codes \cup {None} :
          /\ Become(r, "read",
                    [NoReq EXCEPT !.op = op, !.ctx = u, !.member = mo[1],
                                  !.org = mo[2], !.role = role, !.code = code])
          /\ UNCHANGED <<stores, ttl, changes, lost>>
    BY <1>6 DEF Ask
  <2> DEFINE q == [NoReq EXCEPT !.op = op, !.ctx = u, !.member = mo[1],
                                !.org = mo[2], !.role = role, !.code = code]
  <2>2. mo[1] \in Members /\ mo[2] \in Orgs
    BY DEF Membership
  <2>3. q \in Request
    BY NoReqType, <2>2 DEF Request, Subjects
  <2>4. Hand("read", q)
    BY <2>2 DEF Hand, NoReq, SetOps, ReadOps
  <2>5. /\ pc' \in [Requests -> PC] /\ req' \in [Requests -> Request] /\ InHand'
    <3>1. Become(r, "read", q) /\ "read" \in PC
      BY <2>1 DEF PC
    <3> HIDE DEF q
    <3> QED
      BY <2>3, <2>4, <3>1, BecomeType
  <2> QED
    BY <2>1, <2>5 DEF TypeOK, stores
<1>7. ASSUME NEW r \in Requests, Read(r) PROVE TypeInv'
  <2> DEFINE q     == req[r]
             holds == Holds(q, GetClient(q.ctx))
             again == [q EXCEPT !.member = q.code, !.code = None]
             done  == [q EXCEPT !.answer = holds]
  <2>1. q \in Request /\ q.op \in ReadOps /\ q.ctx \in Users
    BY <1>7 DEF Read, TypeOK, InHand, Hand
  <2>2. holds \in BOOLEAN
    BY HoldsType
  <2>3. done \in Request /\ done.op \in ReadOps
    BY <2>1, <2>2 DEF Request
  <2>4. ASSUME q.code # None PROVE again \in Request /\ again.op \in ReadOps /\ again.ctx \in Users
    BY <2>1, <2>4 DEF Request, Subjects
  <2>5. Hand("done", done) /\ (q.code # None => Hand("read", again))
    BY <2>3, <2>4 DEF Hand, ReadOps, SetOps
  <2>6. /\ \/ q.code # None /\ Become(r, "read", again)
           \/ Become(r, "done", done)
        /\ UNCHANGED <<stores, ttl, changes, lost>>
    BY <1>7 DEF Read
  <2>7. {"read", "done"} \subseteq PC
    BY DEF PC, DonePC
  <2> HIDE DEF q, holds, again, done
  <2>8. /\ pc' \in [Requests -> PC] /\ req' \in [Requests -> Request] /\ InHand'
    <3>1. CASE q.code # None /\ Become(r, "read", again)
      BY <2>4, <2>5, <2>7, <3>1, BecomeType
    <3>2. CASE Become(r, "done", done)
      BY <2>3, <2>5, <2>7, <3>2, BecomeType
    <3> QED
      BY <2>6, <3>1, <3>2
  <2> QED
    BY <2>6, <2>8 DEF TypeOK, stores
<1>8. ASSUME NEW r \in Requests, List(r) PROVE TypeInv'
  <2>1. PICK op \in ListOps, u \in Users, mo \in Membership :
          /\ LET q == IF op = "GetUsers"
                      THEN [NoReq EXCEPT !.op = op, !.ctx = u, !.org = mo[2]]
                      ELSE [NoReq EXCEPT !.op = op, !.ctx = u, !.member = mo[1]]
             IN  Become(r, "page", [q EXCEPT !.steady = Selected(q, primary \cap replica)])
          /\ UNCHANGED <<stores, ttl, changes, lost>>
    BY <1>8 DEF List
  <2> DEFINE q == IF op = "GetUsers"
                  THEN [NoReq EXCEPT !.op = op, !.ctx = u, !.org = mo[2]]
                  ELSE [NoReq EXCEPT !.op = op, !.ctx = u, !.member = mo[1]]
             p == [q EXCEPT !.steady = Selected(q, primary \cap replica)]
  <2>2. mo[1] \in Members /\ mo[2] \in Orgs
    BY DEF Membership
  <2>3. q \in Request /\ q.op \in ListOps
    BY NoReqType, <2>2 DEF Request, Subjects
  <2>4. Selected(q, primary \cap replica) \subseteq Stored
    BY DEF Selected, TypeOK
  <2>5. p \in Request /\ p.op \in ListOps
    BY <2>3, <2>4 DEF Request
  <2>6. Become(r, "page", p)
    BY <2>1
  <2> HIDE DEF q, p
  <2>7. Hand("page", p) /\ "page" \in PC
    BY <2>5 DEF Hand, ListOps, SetOps, PC
  <2>8. /\ pc' \in [Requests -> PC] /\ req' \in [Requests -> Request] /\ InHand'
    BY <2>5, <2>6, <2>7, BecomeType
  <2> QED
    BY <2>1, <2>8 DEF TypeOK, stores
<1>9. ASSUME NEW r \in Requests, ReadPage(r) PROVE TypeInv'
  <2> DEFINE q    == req[r]
             rest == Rest(q, GetClient(q.ctx))
  <2>1. q \in Request
    BY DEF TypeOK
  <2>2. rest \subseteq Stored
    BY GetClientType DEF Rest, Selected
  <2>3. \A label \in {"page", "done"} : label \in PC
    BY DEF PC, DonePC
  <2>4. Hand("page", q) /\ Hand("done", q)
    BY <1>9 DEF ReadPage, InHand, Hand
  <2>5. UNCHANGED <<stores, ttl, changes, lost>>
    BY <1>9 DEF ReadPage
  <2>6. ASSUME NEW t \in rest
        PROVE  /\ [q EXCEPT !.got = Append(q.got, t)] \in Request
               /\ Hand("done", [q EXCEPT !.got = Append(q.got, t)])
    <3>1. Append(q.got, t) \in Seq(Stored)
      BY <2>1, <2>2 DEF Request
    <3> QED
      BY <2>1, <2>4, <3>1 DEF Request, Hand
  <2>7. ASSUME NEW t \in rest, NEW next \in rest
        PROVE  /\ [q EXCEPT !.got = Append(q.got, t), !.token = next.id] \in Request
               /\ Hand("page", [q EXCEPT !.got = Append(q.got, t), !.token = next.id])
    <3>1. Append(q.got, t) \in Seq(Stored) /\ next.id \in Nat
      BY <2>1, <2>2 DEF Request, Stored
    <3> QED
      BY <2>1, <2>4, <3>1 DEF Request, Hand
  <2>8. \/ Become(r, "done", q)
        \/ \E t \in rest : Become(r, "done", [q EXCEPT !.got = Append(q.got, t)])
        \/ \E t \in rest : \E next \in rest :
             Become(r, "page", [q EXCEPT !.got = Append(q.got, t), !.token = next.id])
    BY <1>9 DEF ReadPage
  <2> HIDE DEF q, rest
  <2>9. /\ pc' \in [Requests -> PC] /\ req' \in [Requests -> Request] /\ InHand'
    <3>1. CASE Become(r, "done", q)
      BY <2>1, <2>3, <2>4, <3>1, BecomeType
    <3>2. CASE \E t \in rest : Become(r, "done", [q EXCEPT !.got = Append(q.got, t)])
      BY <2>3, <2>6, <3>2, BecomeType
    <3>3. CASE \E t \in rest : \E next \in rest :
                 Become(r, "page", [q EXCEPT !.got = Append(q.got, t), !.token = next.id])
      BY <2>3, <2>7, <3>3, BecomeType
    <3> QED
      BY <2>8, <3>1, <3>2, <3>3
  <2> QED
    BY <2>5, <2>9 DEF TypeOK, stores
<1>10. ASSUME NEW r \in Requests, Finish(r) \/ Abort(r) PROVE TypeInv'
  <2>1. /\ Become(r, "idle", NoReq)
        /\ UNCHANGED <<stores, ttl, changes>>
    BY <1>10 DEF Finish, Abort
  <2>2. Hand("idle", NoReq) /\ "idle" \in PC
    BY DEF Hand, NoReq, SetOps, PC
  <2>3. /\ pc' \in [Requests -> PC] /\ req' \in [Requests -> Request] /\ InHand'
    BY <2>1, <2>2, NoReqType, BecomeType
  <2>4. lost' \subseteq Membership
    <3>1. CASE Finish(r)
      BY <3>1 DEF Finish, TypeOK
    <3>2. CASE Abort(r)
      <4>1. req[r].op = "Set" => Key(req[r]) \in Membership
        BY DEF InHand, Hand, SetOps, Key, Membership
      <4> QED
        BY <3>2, <4>1 DEF Abort, TypeOK
    <3> QED
      BY <1>10, <3>1, <3>2
  <2> QED
    BY <2>1, <2>3, <2>4 DEF TypeOK, stores
<1>11. ASSUME NEW s \in Stores, Replicate(s) PROVE TypeInv'
  <2>1. /\ replica' \subseteq Stored
        /\ DOMAIN wal' = Stores /\ \A x \in Stores : wal'[x] \in Seq(LogEntry(x))
    BY <1>11, ReplicateType
  <2>2. InHand'
    BY <1>11 DEF Replicate, reqVars, InHand
  <2> QED
    BY <1>11, <2>1, <2>2 DEF Replicate, TypeOK, reqVars
<1>12. ASSUME Tick PROVE TypeInv'
  <2>1. DOMAIN wal' = Stores /\ \A x \in Stores : wal'[x] \in Seq(LogEntry(x))
    <3>1. ASSUME NEW s \in Stores PROVE Older(wal[s]) \in Seq(LogEntry(s))
      BY <1>12, OlderType DEF Tick, TypeOK
    <3>2. wal' = [s \in Stores |-> Older(wal[s])]
      BY <1>12 DEF Tick
    <3> QED
      BY <3>1, <3>2
  <2>2. ttl' \in [Users -> Nat]
    <3>1. \A u \in Users : (IF ttl[u] = 0 THEN 0 ELSE ttl[u] - 1) \in Nat
      BY DEF TypeOK
    <3> QED
      BY <1>12, <3>1 DEF Tick
  <2>3. ASSUME NEW r \in Requests
        PROVE  /\ req'[r] \in Request
               /\ Hand(pc[r], req'[r])
    <3>1. req[r] \in Request /\ Hand(pc[r], req[r])
      BY DEF TypeOK, InHand
    <3>2. CASE pc[r] = "execute"
      <4>1. req[r].age \in 0..Latency /\ req[r].age < Latency /\ Latency \in Nat
        BY <1>12, <3>1, <3>2, AclAssumption DEF Tick, Request
      <4>2. req[r].age + 1 \in 0..Latency
        BY <4>1
      <4>3. req'[r] = [req[r] EXCEPT !.age = @ + 1]
        BY <1>12, <3>2 DEF Tick
      <4> QED
        BY <3>1, <4>2, <4>3 DEF Request, Hand
    <3>3. CASE pc[r] # "execute"
      BY <1>12, <3>1, <3>3 DEF Tick
    <3> QED
      BY <3>2, <3>3
  <2>4. req' \in [Requests -> Request]
    BY <1>12, <2>3 DEF Tick
  <2>5. InHand'
    BY <1>12, <2>3 DEF Tick, InHand
  <2> QED
    BY <1>12, <2>1, <2>2, <2>4, <2>5 DEF Tick, TypeOK
<1>13. ASSUME UNCHANGED vars PROVE TypeInv'
  BY <1>13 DEF vars, stores, reqVars, TypeOK, InHand
<1> QED
  BY <1>1, <1>2, <1>3, <1>4, <1>5, <1>6, <1>7, <1>8, <1>9, <1>10, <1>11, <1>12,
     <1>13 DEF Next

\* TypeOK, of every variable of Acl: a request never carries what its
\* operation does not take, no write and no replica is older than it may be.
THEOREM TypeCorrect == Spec => []TypeOK
<1>1. Init => TypeInv
  BY InitTypeInv
<1>2. TypeInv /\ [Next]_vars => TypeInv'
  BY TypeInvStep
<1>3. TypeInv => TypeOK
  BY DEF TypeInv
<1> QED
  BY <1>1, <1>2, <1>3, PTL DEF Spec

-----------------------------------------------------------------------------
\* Marks outlive writes

\* The mark of a write under way lives longer than the write and either
\* replica still may take, that of a logged write longer than its replica
\* still may take.
PinExecuting ==
  \A r \in Requests : pc[r] = "execute" =>
    \A s \in Stores : ttl[req[r].ctx] + req[r].age > Latency + Lag[s]

PinLogged ==
  \A s \in Stores : \A i \in DOMAIN wal[s] :
    ttl[wal[s][i].by] + wal[s][i].age > Lag[s]

PinInv == PinExecuting /\ PinLogged

\* The requests at "execute" after a step were there before it.
Kept ==
  \A s \in Requests : pc'[s] = "execute" =>
    /\ pc[s] = "execute"
    /\ req'[s].ctx = req[s].ctx
    /\ req'[s].age = req[s].age

LEMMA KeptPins ==
  ASSUME PinInv, Kept, UNCHANGED ttl PROVE PinExecuting'
  BY DEF PinInv, PinExecuting, Kept

LEMMA BecomeKeeps ==
  ASSUME TypeOK, NEW r \in Requests, NEW label, label # "execute",
         NEW record, Become(r, label, record)
  PROVE  Kept
  BY DEF Become, Goto, TypeOK, Kept

LEMMA TouchedKeeps ==
  ASSUME TypeOK, NEW r \in Requests, NEW label, label # "execute",
         NEW next, Goto(r, label), Touched(r, next)
  PROVE  Kept
<1>1. pc' = [pc EXCEPT ![r] = label] /\ pc \in [Requests -> PC]
  BY DEF Goto, TypeOK
<1>2. ASSUME NEW s \in Requests, pc'[s] = "execute"
      PROVE  /\ pc[s] = "execute"
             /\ req'[s].ctx = req[s].ctx
             /\ req'[s].age = req[s].age
  <2>1. s # r /\ pc[s] = "execute"
    BY <1>1, <1>2
  <2>2. req[s] \in Request
    BY DEF TypeOK
  <2>3. req'[s] = req[s] \/ req'[s] = [req[s] EXCEPT !.alone = FALSE]
    BY <2>1 DEF Touched
  <2> QED
    BY <2>1, <2>2, <2>3 DEF Request
<1> QED
  BY <1>2 DEF Kept

\* The user of a write under way has a mark that outlives its replication.
LEMMA WriterPinned ==
  ASSUME TypeInv, PinInv, NEW r \in Requests, pc[r] = "execute", NEW s \in Stores
  PROVE  req[r].ctx \in Users /\ ttl[req[r].ctx] > Lag[s]
<1>1. req[r] \in Request /\ Hand("execute", req[r])
  BY DEF TypeInv, TypeOK, InHand
<1>2. req[r].ctx \in Users
  BY <1>1 DEF Hand
<1>3. req[r].age \in 0..Latency
  BY <1>1 DEF Request
<1>4. ttl[req[r].ctx] \in Nat /\ Latency \in Nat /\ Lag[s] \in Nat
  BY <1>2, AclAssumption DEF TypeInv, TypeOK
<1>5. ttl[req[r].ctx] + req[r].age > Latency + Lag[s]
  BY DEF PinInv, PinExecuting
<1> QED
  BY <1>2, <1>3, <1>4, <1>5

LEMMA LogPins ==
  ASSUME TypeOK, PinInv, UNCHANGED ttl, NEW s \in Stores, NEW change, NEW t,
         NEW u \in Users, ttl[u] > Lag[s], Log(s, change, t, u)
  PROVE  PinLogged'
<1> DEFINE e == [change |-> change, tuple |-> t, by |-> u, age |-> 0]
<1>1. DOMAIN wal = Stores /\ \A x \in Stores : wal[x] \in Seq(LogEntry(x))
  BY DEF TypeOK
<1>2. wal' = IF HasReplica THEN [wal EXCEPT ![s] = Append(wal[s], e)] ELSE wal
  BY DEF Log
<1>3. ASSUME NEW x \in Stores, NEW i \in DOMAIN wal'[x]
      PROVE  ttl[wal'[x][i].by] + wal'[x][i].age > Lag[x]
  <2>1. CASE x = s /\ HasReplica
    <3>1. wal'[x] = Append(wal[x], e)
      BY <1>1, <1>2, <2>1
    <3>2. CASE i = Len(wal[x]) + 1
      <4>1. wal'[x][i] = e
        BY <1>1, <3>1, <3>2
      <4>2. e.by = u /\ e.age = 0
        OBVIOUS
      <4> HIDE DEF e
      <4> QED
        BY <2>1, <4>1, <4>2, AclAssumption DEF TypeOK
    <3>3. CASE i # Len(wal[x]) + 1
      <4>1. i \in DOMAIN wal[x] /\ wal'[x][i] = wal[x][i]
        BY <1>1, <3>1, <3>3
      <4> QED
        BY <4>1 DEF PinInv, PinLogged
    <3> QED
      BY <3>2, <3>3
  <2>2. CASE ~(x = s /\ HasReplica)
    <3>1. wal'[x] = wal[x]
      BY <1>1, <1>2, <2>2
    <3> QED
      BY <3>1 DEF PinInv, PinLogged
  <2> QED
    BY <2>1, <2>2
<1> QED
  BY <1>3 DEF PinLogged

LEMMA PinStep == TypeInv /\ PinInv /\ [Next]_vars => PinInv'
<1> SUFFICES ASSUME TypeInv, PinInv, [Next]_vars PROVE PinInv'
  OBVIOUS
<1>0. TypeOK
  BY DEF TypeInv
<1>1. ASSUME Kept, UNCHANGED <<ttl, wal>> PROVE PinInv'
  BY <1>1, KeptPins DEF PinInv, PinLogged
<1>2. ASSUME NEW r \in Requests, NEW label, label # "execute", NEW record,
             Become(r, label, record), UNCHANGED <<ttl, wal>>
      PROVE  PinInv'
  BY <1>0, <1>1, <1>2, BecomeKeeps
<1>3. ASSUME NEW r \in Requests, Mark(r) PROVE PinInv'
  <2>1. PICK s \in Stores : ttl' = [ttl EXCEPT ![req[r].ctx] = Frame[s]]
    BY <1>3 DEF Mark, PinFrame, Stores
  <2>2. ASSUME NEW u \in Users PROVE ttl'[u] = Frame[s] \/ ttl'[u] = ttl[u]
    BY <1>0, <2>1 DEF TypeOK
  <2>3. \A t \in Stores : /\ Frame[s] > Latency + Lag[t]
                          /\ Frame[s] \in Nat /\ Lag[t] \in Nat /\ Latency \in Nat
    BY AclAssumption
  <2>4. req' = [req EXCEPT ![r] = [req[r] EXCEPT !.age = 0]]
    BY <1>3 DEF Mark, Become
  <2>5. pc' = [pc EXCEPT ![r] = "execute"]
    BY <1>3 DEF Mark, Become, Goto
  <2>6. PinExecuting'
    <3>1. ASSUME NEW x \in Requests, pc'[x] = "execute", NEW t \in Stores
          PROVE  ttl'[req'[x].ctx] + req'[x].age > Latency + Lag[t]
      <4>1. req[x] \in Request /\ Hand(pc[x], req[x])
        BY DEF TypeInv, TypeOK, InHand
      <4>2. CASE x = r
        <5>1. req'[x].ctx = req[r].ctx /\ req'[x].age = 0
          BY <1>0, <2>4, <4>1, <4>2 DEF TypeOK, Request
        <5>2. req[r].ctx \in Users
          BY <1>3, <4>1, <4>2 DEF Mark, Hand
        <5>3. ttl'[req[r].ctx] = Frame[s]
          BY <1>0, <2>1, <5>2 DEF TypeOK
        <5> QED
          BY <2>3, <5>1, <5>3
      <4>3. CASE x # r
        <5>1. pc[x] = "execute" /\ req'[x] = req[x]
          BY <1>0, <2>4, <2>5, <3>1, <4>3 DEF TypeOK
        <5>2. req[x].ctx \in Users /\ req[x].age \in Nat
          BY <4>1, <5>1 DEF Hand, Request
        <5>3. ttl[req[x].ctx] + req[x].age > Latency + Lag[t]
          BY <5>1 DEF PinInv, PinExecuting
        <5> QED
          BY <2>2, <2>3, <5>1, <5>2, <5>3
      <4> QED
        BY <4>2, <4>3
    <3> QED
      BY <3>1 DEF PinExecuting
  <2>7. PinLogged'
    <3>1. wal' = wal
      BY <1>3 DEF Mark, stores
    <3>2. ASSUME NEW t \in Stores, NEW i \in DOMAIN wal[t]
          PROVE  ttl'[wal[t][i].by] + wal[t][i].age > Lag[t]
      <4>1. wal[t][i] \in LogEntry(t)
        BY <1>0 DEF TypeOK
      <4>2. wal[t][i].by \in Users /\ wal[t][i].age \in Nat
        BY <4>1 DEF LogEntry
      <4>3. ttl[wal[t][i].by] + wal[t][i].age > Lag[t]
        BY DEF PinInv, PinLogged
      <4> QED
        BY <2>2, <2>3, <4>2, <4>3
    <3> QED
      BY <3>1, <3>2 DEF PinLogged
  <2> QED
    BY <2>6, <2>7 DEF PinInv
<1>4. ASSUME NEW r \in Requests, DatabaseWrite(r) PROVE PinInv'
  <2>1. Kept
    BY <1>0, <1>4 DEF DatabaseWrite, Goto, TypeOK, Kept
  <2>2. "database" \in Stores /\ pc[r] = "execute" /\ UNCHANGED ttl
    BY <1>4 DEF DatabaseWrite, Stores
  <2>3. PinLogged'
    BY <1>0, <1>4, <2>2, WriterPinned, LogPins DEF DatabaseWrite
  <2> QED
    BY <2>1, <2>2, <2>3, KeptPins DEF PinInv
<1>5. ASSUME NEW r \in Requests, DeleteRole(r) PROVE PinInv'
  <2> DEFINE q     == req[r]
             label == IF q.op = "Delete" /\ LoopEnds(q.i + 1) THEN "done" ELSE "mark"
  <2>1. /\ Goto(r, label) /\ label # "execute" /\ pc[r] = "execute"
        /\ \E next : Touched(r, next)
        /\ \/ UNCHANGED stores
           \/ \E t : Log("openfga", "delete", t, q.ctx)
        /\ UNCHANGED ttl
    BY <1>5 DEF DeleteRole
  <2> HIDE DEF label
  <2>2. Kept
    BY <1>0, <2>1, TouchedKeeps
  <2>3. CASE UNCHANGED stores
    BY <1>1, <2>1, <2>2, <2>3 DEF stores
  <2>4. CASE \E t : Log("openfga", "delete", t, q.ctx)
    <3>1. PinLogged'
      BY <1>0, <2>1, <2>4, WriterPinned, LogPins DEF Stores
    <3> QED
      BY <2>1, <2>2, <3>1, KeptPins DEF PinInv
  <2> QED
    BY <2>1, <2>3, <2>4
<1>6. ASSUME NEW r \in Requests, WriteRole(r) PROVE PinInv'
  <2>1. /\ pc[r] = "execute"
        /\ \/ /\ \E t : Log("openfga", "put", t, req[r].ctx)
              /\ Goto(r, "done")
              /\ \E next : Touched(r, next)
           \/ Become(r, "failed", NoReq) /\ UNCHANGED stores
        /\ UNCHANGED ttl
    BY <1>6 DEF WriteRole
  <2>2. CASE Become(r, "failed", NoReq) /\ UNCHANGED stores
    BY <1>2, <2>1, <2>2 DEF stores
  <2>3. CASE /\ \E t : Log("openfga", "put", t, req[r].ctx)
             /\ Goto(r, "done")
             /\ \E next : Touched(r, next)
    <3>1. Kept
      BY <1>0, <2>3, TouchedKeeps
    <3>2. PinLogged'
      BY <1>0, <2>1, <2>3, WriterPinned, LogPins DEF Stores
    <3> QED
      BY <2>1, <3>1, <3>2, KeptPins DEF PinInv
  <2> QED
    BY <2>1, <2>2, <2>3
<1>7. ASSUME NEW r \in Requests,
             Change(r) \/ Ask(r) \/ List(r) \/ Finish(r) \/ Abort(r)
      PROVE  PinInv'
  <2>1. /\ \E record : \E label \in {"mark", "read", "page", "idle"} :
             Become(r, label, record)
        /\ UNCHANGED <<ttl, wal>>
    <3>1. CASE Change(r)
      BY <3>1 DEF Change, stores
    <3>2. CASE Ask(r)
      BY <3>2 DEF Ask, stores
    <3>3. CASE List(r)
      BY <3>3 DEF List, stores
    <3>4. CASE Finish(r) \/ Abort(r)
      BY <3>4 DEF Finish, Abort, stores
    <3> QED
      BY <1>7, <3>1, <3>2, <3>3, <3>4
  <2> QED
    BY <1>2, <2>1
<1>8. ASSUME NEW r \in Requests, Read(r) \/ ReadPage(r) PROVE PinInv'
  <2>1. /\ \E record : \E label \in {"read", "page", "done"} :
             Become(r, label, record)
        /\ UNCHANGED <<ttl, wal>>
    <3>1. CASE Read(r)
      BY <3>1 DEF Read, stores
    <3>2. CASE ReadPage(r)
      BY <3>2 DEF ReadPage, stores
    <3> QED
      BY <1>8, <3>1, <3>2
  <2> QED
    BY <1>2, <2>1
<1>9. ASSUME NEW s \in Stores, Replicate(s) PROVE PinInv'
  <2>1. Kept /\ UNCHANGED ttl
    BY <1>9 DEF Replicate, reqVars, Kept
  <2>2. wal' = [wal EXCEPT ![s] = Tail(wal[s])] /\ wal[s] # <<>>
    BY <1>9 DEF Replicate
  <2>3. DOMAIN wal = Stores /\ \A x \in Stores : wal[x] \in Seq(LogEntry(x))
    BY <1>0 DEF TypeOK
  <2>4. ASSUME NEW x \in Stores, NEW i \in DOMAIN wal'[x]
        PROVE  ttl[wal'[x][i].by] + wal'[x][i].age > Lag[x]
    <3>1. \E j \in DOMAIN wal[x] : wal'[x][i] = wal[x][j]
      <4>1. CASE x = s
        <5>1. wal'[x] = Tail(wal[x]) /\ wal[x] # <<>>
          BY <2>2, <2>3, <4>1
        <5>2. i + 1 \in DOMAIN wal[x] /\ wal'[x][i] = wal[x][i + 1]
          BY <2>3, <5>1
        <5> QED
          BY <5>2
      <4>2. CASE x # s
        BY <2>2, <2>3, <4>2
      <4> QED
        BY <4>1, <4>2
    <3> QED
      BY <3>1 DEF PinInv, PinLogged
  <2>5. PinLogged'
    BY <2>1, <2>4 DEF PinLogged
  <2> QED
    BY <2>1, <2>5, KeptPins DEF PinInv
<1>10. ASSUME Tick PROVE PinInv'
  <2>1. \A u \in Users : /\ ttl[u] \in Nat
                         /\ ttl'[u] = IF ttl[u] = 0 THEN 0 ELSE ttl[u] - 1
    BY <1>0, <1>10 DEF Tick, TypeOK
  <2>2. ASSUME NEW r \in Requests, pc'[r] = "execute", NEW s \in Stores
        PROVE  ttl'[req'[r].ctx] + req'[r].age > Latency + Lag[s]
    <3>1. pc[r] = "execute" /\ req[r].age < Latency /\ req[r] \in Request
      BY <1>0, <1>10, <2>2 DEF Tick, TypeOK
    <3>2. req'[r].ctx = req[r].ctx /\ req'[r].age = req[r].age + 1
      BY <1>10, <3>1 DEF Tick, Request
    <3>3. req[r].ctx \in Users /\ req[r].age \in Nat
      BY <3>1, WriterPinned DEF Request
    <3>4. ttl[req[r].ctx] + req[r].age > Latency + Lag[s]
      BY <3>1 DEF PinInv, PinExecuting
    <3>5. Latency \in Nat /\ Lag[s] \in Nat
      BY AclAssumption
    <3> QED
      BY <2>1, <3>1, <3>2, <3>3, <3>4, <3>5
  <2>3. ASSUME NEW s \in Stores, NEW i \in DOMAIN wal'[s]
        PROVE  ttl'[wal'[s][i].by] + wal'[s][i].age > Lag[s]
    <3>1. wal'[s] = Older(wal[s])
      BY <1>10 DEF Tick
    <3>2. i \in DOMAIN wal[s] /\ wal'[s][i] = [wal[s][i] EXCEPT !.age = @ + 1]
      BY <3>1 DEF Older
    <3>3. wal[s][i] \in LogEntry(s)
      BY <1>0, <3>2 DEF TypeOK
    <3>4. wal'[s][i].by = wal[s][i].by /\ wal'[s][i].age = wal[s][i].age + 1
      BY <3>2, <3>3 DEF LogEntry
    <3>5. wal[s][i].by \in Users /\ wal[s][i].age \in Nat
      BY <3>3 DEF LogEntry
    <3>6. ttl[wal[s][i].by] + wal[s][i].age > Lag[s] /\ wal[s][i].age < Lag[s]
      BY <1>10, <3>2 DEF Tick, PinInv, PinLogged
    <3>7. Lag[s] \in Nat
      BY AclAssumption
    <3> QED
      BY <2>1, <3>4, <3>5, <3>6, <3>7
  <2> QED
    BY <2>2, <2>3 DEF PinInv, PinExecuting, PinLogged
<1>11. ASSUME UNCHANGED vars PROVE PinInv'
  BY <1>11 DEF vars, stores, reqVars, PinInv, PinExecuting, PinLogged
<1> QED
  BY <1>3, <1>4, <1>5, <1>6, <1>7, <1>8, <1>9, <1>10, <1>11 DEF Next

\* Only the passing of time ends a mark: a write sets it anew.
LEMMA MarkEnds ==
  ASSUME TypeInv, PinInv, [Next]_vars, NEW u \in Users, ttl[u] > 0, ttl'[u] = 0
  PROVE  Tick
<1>1. ASSUME NEW r \in Requests, Mark(r) PROVE FALSE
  <2>1. PICK s \in Stores : ttl' = [ttl EXCEPT ![req[r].ctx] = Frame[s]]
    BY <1>1 DEF Mark, PinFrame, Stores
  <2>2. Frame[s] \in Nat /\ Frame[s] > 0
    BY AclAssumption
  <2> QED
    BY <2>1, <2>2 DEF TypeInv, TypeOK
<1>2. ttl' # ttl
  OBVIOUS
<1>3. ASSUME NEW r \in Requests,
             \/ Change(r) \/ DatabaseWrite(r) \/ DeleteRole(r) \/ WriteRole(r)
             \/ Ask(r) \/ Read(r) \/ List(r) \/ ReadPage(r) \/ Finish(r) \/ Abort(r)
      PROVE  ttl' = ttl
  BY <1>3 DEF Change, DatabaseWrite, DeleteRole, WriteRole, Ask, Read, List,
              ReadPage, Finish, Abort
<1>4. ASSUME NEW s \in Stores, Replicate(s) PROVE ttl' = ttl
  BY <1>4 DEF Replicate
<1>5. vars' = vars => ttl' = ttl
  BY DEF vars
<1> QED
  BY <1>1, <1>2, <1>3, <1>4, <1>5 DEF Next

LEMMA MarksOutliveStep ==
  ASSUME TypeInv, PinInv, [Next]_vars, NEW u \in Users, ttl[u] > 0, ttl'[u] = 0
  PROVE  /\ ~Writing(u)
         /\ \A s \in Stores : \A i \in DOMAIN wal[s] : wal[s][i].by # u
<1>1. Tick
  BY MarkEnds
<1>2. ttl[u] = 1
  BY <1>1 DEF Tick, TypeInv, TypeOK
<1>3. ASSUME NEW r \in Requests, pc[r] = "execute", req[r].ctx = u PROVE FALSE
  <2>1. req[r].age \in Nat /\ req[r].age < Latency /\ Latency \in Nat
    BY <1>1, <1>3, AclAssumption DEF Tick, TypeInv, TypeOK, Request
  <2>2. "database" \in Stores /\ Lag["database"] \in Nat
    BY AclAssumption DEF Stores
  <2>3. ttl[u] + req[r].age > Latency + Lag["database"]
    BY <1>3, <2>2 DEF PinInv, PinExecuting
  <2> QED
    BY <1>2, <2>1, <2>2, <2>3
<1>4. ASSUME NEW s \in Stores, NEW i \in DOMAIN wal[s], wal[s][i].by = u PROVE FALSE
  <2>1. wal[s][i] \in LogEntry(s) /\ wal[s][i].age < Lag[s] /\ Lag[s] \in Nat
    BY <1>1, AclAssumption DEF Tick, TypeInv, TypeOK
  <2>2. wal[s][i].age \in Nat
    BY <2>1 DEF LogEntry
  <2>3. ttl[u] + wal[s][i].age > Lag[s]
    BY <1>4 DEF PinInv, PinLogged
  <2> QED
    BY <1>2, <2>1, <2>2, <2>3
<1> QED
  BY <1>3, <1>4 DEF Writing

\* MarksOutliveWrites, of getClient and PinUser: for any two time frames that
\* are longer than a write and either replication take, a user whose mark
\* expires has no write under way and none that a replica has not applied.
THEOREM MarksOutlive == Spec => MarksOutliveWrites
<1>1. Init => TypeInv /\ PinInv
  <2>1. Init => PinInv
    BY DEF Init, PinInv, PinExecuting, PinLogged
  <2> QED
    BY <2>1, InitTypeInv
<1>2. TypeInv /\ PinInv /\ [Next]_vars => TypeInv' /\ PinInv'
  BY TypeInvStep, PinStep
<1>3. TypeInv /\ PinInv /\ [Next]_vars
        => [\A u \in Users :
              ttl[u] > 0 /\ ttl'[u] = 0 =>
                /\ ~Writing(u)
                /\ \A s \in Stores : \A i \in DOMAIN wal[s] : wal[s][i].by # u]_vars
  BY MarksOutliveStep
<1> QED
  BY <1>1, <1>2, <1>3, PTL DEF Spec, MarksOutliveWrites
-----------------------------------------------------------------------------
\* What each step does

\* A request that another request, or time, leaves as it is but for its age
\* and the note that it was alone.
SameBut(q, p) ==
  /\ q.op = p.op /\ q.ctx = p.ctx /\ q.member = p.member /\ q.org = p.org
  /\ q.role = p.role /\ q.code = p.code /\ q.i = p.i
  /\ q.token = p.token /\ q.got = p.got /\ q.steady = p.steady
  /\ q.alone => p.alone

\* A step of request r leaves it at label with q in hand.
Moves(r, label, q) ==
  /\ pc'[r] = label /\ req'[r] = q
  /\ \A s \in Requests \ {r} : pc'[s] = pc[s] /\ SameBut(req'[s], req[s])

LEMMA Becomes ==
  ASSUME TypeInv, NEW r \in Requests, NEW label, NEW q, Become(r, label, q)
  PROVE  Moves(r, label, q)
  BY DEF Become, Goto, Moves, SameBut, TypeInv, TypeOK

\* A write to a membership is noted by every other request that sets it.
LEMMA Touches ==
  ASSUME TypeInv, NEW r \in Requests, NEW label, NEW q, Goto(r, label), Touched(r, q)
  PROVE  /\ Moves(r, label, q)
         /\ \A s \in Requests \ {r} :
              req[s].op = "Set" /\ Key(req[s]) = Key(req[r]) => ~req'[s].alone
<1>1. pc'[r] = label /\ req'[r] = q
  BY DEF Goto, Touched, TypeInv, TypeOK
<1>2. ASSUME NEW s \in Requests \ {r}
      PROVE  /\ pc'[s] = pc[s] /\ SameBut(req'[s], req[s])
             /\ req[s].op = "Set" /\ Key(req[s]) = Key(req[r]) => ~req'[s].alone
  <2>1. pc'[s] = pc[s] /\ req[s] \in Request
    BY <1>2 DEF Goto, TypeInv, TypeOK
  <2>2. CASE req[s].op = "Set" /\ Key(req[s]) = Key(req[r])
    <3>1. req'[s] = [req[s] EXCEPT !.alone = FALSE]
      BY <1>2, <2>2 DEF Touched
    <3>2. SameBut(req'[s], req[s]) /\ ~req'[s].alone
      BY <2>1, <3>1 DEF SameBut, Request
    <3> QED
      BY <2>1, <3>2
  <2>3. CASE ~(req[s].op = "Set" /\ Key(req[s]) = Key(req[r]))
    BY <1>2, <2>1, <2>3 DEF Touched, SameBut
  <2> QED
    BY <2>2, <2>3
<1> QED
  BY <1>1, <1>2 DEF Moves

LEMMA ReqType ==
  ASSUME TypeInv, NEW r \in Requests
  PROVE  /\ req[r] \in Request /\ pc[r] \in PC /\ Hand(pc[r], req[r])
         /\ req[r].i \in 1..(Len(Roles) + 1) /\ req[r].i \in Nat
         /\ req[r].alone \in BOOLEAN
<1>1. req[r] \in Request /\ pc[r] \in PC /\ Hand(pc[r], req[r])
  BY DEF TypeInv, TypeOK, InHand
<1> QED
  BY <1>1, RolesLength DEF Request

LEMMA ChangeMoves ==
  ASSUME TypeInv, NEW r \in Requests, Change(r)
  PROVE  /\ UNCHANGED <<stores, ttl>> /\ pc[r] = "idle"
         /\ \E q : /\ Moves(r, "mark", q) /\ q.op \in SetOps \cup {"database"}
                   /\ q.i = 1
                   /\ lost \subseteq lost' /\ (q.op = "Delete" => Key(q) \in lost')
<1>1. PICK op \in SetOps \cup {"database"}, u \in Users, mo \in Membership,
           role \in RoleNames :
        /\ Become(r, "mark",
                  IF op = "database" THEN [NoReq EXCEPT !.op = op, !.ctx = u]
                  ELSE [NoReq EXCEPT !.op = op, !.ctx = u, !.member = mo[1],
                                     !.org = mo[2], !.role = role])
        /\ lost' = IF op = "Delete" THEN lost \cup {mo} ELSE lost
  BY DEF Change
<1> DEFINE q == IF op = "database" THEN [NoReq EXCEPT !.op = op, !.ctx = u]
                ELSE [NoReq EXCEPT !.op = op, !.ctx = u, !.member = mo[1],
                                   !.org = mo[2], !.role = role]
<1>2. q.op = op /\ q.i = 1
  BY DEF NoReq
<1>3. op = "Delete" => Key(q) = mo
  BY DEF NoReq, Key, Membership
<1>4. Become(r, "mark", q)
  BY <1>1
<1> HIDE DEF q
<1>5. UNCHANGED <<stores, ttl>> /\ pc[r] = "idle"
  BY DEF Change
<1> QED
  BY <1>1, <1>2, <1>3, <1>4, <1>5, Becomes

LEMMA MarkMoves ==
  ASSUME TypeInv, NEW r \in Requests, Mark(r)
  PROVE  /\ UNCHANGED <<stores, lost>> /\ pc[r] = "mark"
         /\ \E q : Moves(r, "execute", q) /\ SameBut(q, req[r])
<1> DEFINE q == [req[r] EXCEPT !.age = 0]
<1>1. SameBut(q, req[r])
  BY ReqType DEF SameBut, Request
<1>2. Become(r, "execute", q) /\ UNCHANGED <<stores, lost>> /\ pc[r] = "mark"
  BY DEF Mark
<1> HIDE DEF q
<1> QED
  BY <1>1, <1>2, Becomes

\* A write to the database: OpenFGA does not notice.
LEMMA DatabaseWriteMoves ==
  ASSUME TypeInv, NEW r \in Requests, DatabaseWrite(r)
  PROVE  /\ UNCHANGED <<primary, replica, ids, lost>>
         /\ wal'["openfga"] = wal["openfga"]
         /\ pc[r] = "execute" /\ req[r].op = "database"
         /\ Moves(r, "done", req[r])
<1>1. wal'["openfga"] = wal["openfga"]
  BY DEF DatabaseWrite, Log, TypeInv, TypeOK, Stores
<1>2. Moves(r, "done", req[r])
  BY DEF DatabaseWrite, Goto, Moves, SameBut, TypeInv, TypeOK
<1> QED
  BY <1>1, <1>2 DEF DatabaseWrite

\* One role of the loop: no tuple of it was there, or one is deleted, or the
\* call has failed.
LEMMA DeleteRoleMoves ==
  ASSUME TypeInv, NEW r \in Requests, DeleteRole(r)
  PROVE  /\ UNCHANGED <<replica, ids, lost>>
         /\ pc[r] = "execute" /\ req[r].op \in SetOps
         /\ \E label \in {"mark", "done"} : \E q :
              /\ Moves(r, label, q) /\ (label = "done" => req[r].op = "Delete")
              /\ q.op = req[r].op /\ Key(q) = Key(req[r]) /\ q.role = req[r].role
              /\ q.i = req[r].i + 1 /\ (q.alone => req[r].alone)
              /\ \A s \in Requests \ {r} :
                   req[s].op = "Set" /\ Key(req[s]) = Key(req[r]) => ~req'[s].alone
              /\ \/ /\ UNCHANGED stores
                    /\ q.alone => \A t \in primary :
                                    Key(t) = Key(q) => t.role # Roles[req[r].i]
                 \/ \E t \in primary :
                      /\ Key(t) = Key(q) /\ t.role = Roles[req[r].i]
                      /\ primary' = primary \ {t}
                      /\ Log("openfga", "delete", t, req[r].ctx)
<1> DEFINE p     == req[r]
           old   == {t \in primary : Key(t) = Key(p) /\ t.role = Roles[p.i]}
           next  == [p EXCEPT !.i = p.i + 1, !.age = 0]
           apart == [next EXCEPT !.alone = FALSE]
           label == IF p.op = "Delete" /\ LoopEnds(p.i + 1) THEN "done" ELSE "mark"
<1>1. p \in Request
  BY ReqType
<1>2. /\ next.op = p.op /\ Key(next) = Key(p) /\ next.role = p.role
      /\ next.i = p.i + 1 /\ next.alone = p.alone
  BY <1>1 DEF Request, Key
<1>3. /\ apart.op = p.op /\ Key(apart) = Key(p) /\ apart.role = p.role
      /\ apart.i = p.i + 1 /\ ~apart.alone
  BY <1>1 DEF Request, Key
<1>4. label \in {"mark", "done"} /\ (label = "done" => p.op = "Delete")
  OBVIOUS
<1>5. /\ pc[r] = "execute" /\ p.op \in SetOps /\ UNCHANGED <<replica, ids, lost>>
      /\ Goto(r, label)
      /\ \/ old = {} /\ Touched(r, next) /\ UNCHANGED stores
         \/ \E t \in old : /\ primary' = primary \ {t}
                           /\ Log("openfga", "delete", t, p.ctx)
                           /\ Touched(r, next)
         \/ Touched(r, apart) /\ UNCHANGED stores
  BY DEF DeleteRole, stores
<1>6. \A t : t \in old <=> t \in primary /\ Key(t) = Key(p) /\ t.role = Roles[p.i]
  OBVIOUS
<1> HIDE DEF p, old, next, apart, label
<1>7. CASE old = {} /\ Touched(r, next) /\ UNCHANGED stores
  <2>1. Moves(r, label, next) /\ \A s \in Requests \ {r} :
          req[s].op = "Set" /\ Key(req[s]) = Key(req[r]) => ~req'[s].alone
    BY <1>5, <1>7, Touches
  <2> QED
    BY <1>2, <1>4, <1>5, <1>6, <1>7, <2>1 DEF p
<1>8. CASE \E t \in old : /\ primary' = primary \ {t}
                          /\ Log("openfga", "delete", t, p.ctx)
                          /\ Touched(r, next)
  <2>1. Moves(r, label, next) /\ \A s \in Requests \ {r} :
          req[s].op = "Set" /\ Key(req[s]) = Key(req[r]) => ~req'[s].alone
    BY <1>5, <1>8, Touches
  <2> QED
    BY <1>2, <1>4, <1>5, <1>6, <1>8, <2>1 DEF p
<1>9. CASE Touched(r, apart) /\ UNCHANGED stores
  <2>1. Moves(r, label, apart) /\ \A s \in Requests \ {r} :
          req[s].op = "Set" /\ Key(req[s]) = Key(req[r]) => ~req'[s].alone
    BY <1>5, <1>9, Touches
  <2> QED
    BY <1>3, <1>4, <1>5, <1>9, <2>1 DEF p
<1> QED
  BY <1>5, <1>7, <1>8, <1>9
LEMMA WriteRoleMoves ==
  ASSUME TypeInv, NEW r \in Requests, WriteRole(r)
  PROVE  /\ replica' = replica
         /\ pc[r] = "execute" /\ req[r].op = "Set" /\ LoopEnds(req[r].i)
         /\ \/ \E new \in Stored, q \in Request :
                 /\ Key(new) = Key(req[r]) /\ new.role = req[r].role /\ new.id = ids + 1
                 /\ Writable(req[r])
                 /\ primary' = primary \cup {new} /\ ids' = ids + 1
                 /\ Log("openfga", "put", new, req[r].ctx)
                 /\ Moves(r, "done", q)
                 /\ q.op = "Set" /\ Key(q) = Key(req[r]) /\ q.role = req[r].role
                 /\ q.alone => req[r].alone
                 /\ \A s \in Requests \ {r} :
                      req[s].op = "Set" /\ Key(req[s]) = Key(req[r]) => ~req'[s].alone
                 /\ lost' = IF \E s \in Requests : /\ pc[s] \in {"mark", "execute"}
                                                   /\ req[s].op = "Delete"
                                                   /\ Key(req[s]) = Key(req[r])
                            THEN lost ELSE lost \ {Key(req[r])}
            \/ /\ UNCHANGED stores /\ Moves(r, "failed", NoReq)
               /\ lost \subseteq lost'
               /\ \/ Key(req[r]) \in lost'
                  \/ RolesOf(Key(req[r]), primary) # {}
<1> DEFINE p    == req[r]
           new  == NewTuple(p)
           next == [p EXCEPT !.age = 0]
<1>1. /\ p \in Request /\ p.member \in Subjects /\ p.org \in Orgs
      /\ p.role \in RoleNames
  BY ReqType DEF WriteRole, Hand, SetOps, Subjects
<1>2. /\ Key(new) = Key(p) /\ new.role = p.role /\ new.id = ids + 1 /\ new \in Stored
  BY <1>1 DEF NewTuple, Key, Stored, TypeInv, TypeOK
<1>3. /\ next.op = p.op /\ Key(next) = Key(p) /\ next.role = p.role
      /\ next.alone = p.alone /\ next \in Request
  <2>1. 0 \in 0..Latency
    BY AclAssumption
  <2> HIDE DEF p
  <2> QED
    BY <1>1, <2>1 DEF Request, Key
<1>4. /\ replica' = replica /\ pc[r] = "execute" /\ p.op = "Set" /\ LoopEnds(p.i)
      /\ \/ /\ Writable(p) /\ primary' = primary \cup {new} /\ ids' = ids + 1
            /\ Log("openfga", "put", new, p.ctx)
            /\ Goto(r, "done") /\ Touched(r, next)
            /\ lost' = IF \E s \in Requests : /\ pc[s] \in {"mark", "execute"}
                                              /\ req[s].op = "Delete"
                                              /\ Key(req[s]) = Key(p)
                       THEN lost ELSE lost \ {Key(p)}
         \/ /\ UNCHANGED stores /\ Become(r, "failed", NoReq)
            /\ \/ ~Writable(p) /\ lost' = lost
               \/ lost' = lost \cup {Key(p)}
  BY DEF WriteRole, stores
<1>5. ~Writable(p) => RolesOf(Key(p), primary) # {}
  BY DEF Writable
<1> HIDE DEF p, new, next
<1>6. CASE /\ Goto(r, "done") /\ Touched(r, next)
  <2>1. Moves(r, "done", next) /\ \A s \in Requests \ {r} :
          req[s].op = "Set" /\ Key(req[s]) = Key(req[r]) => ~req'[s].alone
    BY <1>6, Touches
  <2>2. ~Become(r, "failed", NoReq)
    BY <1>6 DEF Become, Goto, TypeInv, TypeOK
  <2>3. /\ Writable(p) /\ primary' = primary \cup {new} /\ ids' = ids + 1
        /\ Log("openfga", "put", new, p.ctx)
        /\ lost' = IF \E s \in Requests : /\ pc[s] \in {"mark", "execute"}
                                          /\ req[s].op = "Delete"
                                          /\ Key(req[s]) = Key(p)
                   THEN lost ELSE lost \ {Key(p)}
    BY <1>4, <2>2
  <2>4. next.op = "Set" /\ (next.alone => p.alone)
    BY <1>3, <1>4
  <2> USE DEF p
  <2>5. \E q \in Request :
          /\ Moves(r, "done", q)
          /\ q.op = "Set" /\ Key(q) = Key(req[r]) /\ q.role = req[r].role
          /\ q.alone => req[r].alone
    BY <1>3, <2>1, <2>4
  <2> QED
    BY <1>2, <1>4, <2>1, <2>3, <2>5
<1>7. CASE Become(r, "failed", NoReq)
  <2>1. Moves(r, "failed", NoReq)
    BY <1>7, Becomes
  <2>2. ~Goto(r, "done")
    BY <1>7 DEF Become, Goto, TypeInv, TypeOK
  <2> QED
    BY <1>4, <1>5, <2>1, <2>2 DEF p
<1> QED
  BY <1>4, <1>6, <1>7

LEMMA AskMoves ==
  ASSUME TypeInv, NEW r \in Requests, Ask(r)
  PROVE  /\ UNCHANGED <<stores, lost>> /\ pc[r] = "idle"
         /\ \E q : Moves(r, "read", q) /\ q.op \in ReadOps
<1>1. PICK op \in ReadOps, u \in Users, mo \in Membership, role \in RoleNames,
           code \in Codes \cup {None} :
        Become(r, "read", [NoReq EXCEPT !.op = op, !.ctx = u, !.member = mo[1],
                                        !.org = mo[2], !.role = role, !.code = code])
  BY DEF Ask
<1> DEFINE q == [NoReq EXCEPT !.op = op, !.ctx = u, !.member = mo[1],
                              !.org = mo[2], !.role = role, !.code = code]
<1>2. q.op = op /\ Become(r, "read", q)
  BY <1>1 DEF NoReq
<1> HIDE DEF q
<1> QED
  BY <1>2, Becomes DEF Ask

LEMMA ReadMoves ==
  ASSUME TypeInv, NEW r \in Requests, Read(r)
  PROVE  /\ UNCHANGED <<stores, lost>> /\ pc[r] = "read" /\ req[r].op \in ReadOps
         /\ \E label \in {"read", "done"} : \E q :
              /\ Moves(r, label, q) /\ q.op = req[r].op
              /\ label = "done" =>
                   /\ Key(q) = Key(req[r]) /\ q.role = req[r].role
                   /\ q.answer = Holds(req[r], GetClient(req[r].ctx))
<1> DEFINE p     == req[r]
           holds == Holds(p, GetClient(p.ctx))
           again == [p EXCEPT !.member = p.code, !.code = None]
           done  == [p EXCEPT !.answer = holds]
<1>1. p \in Request /\ p.op \in ReadOps
  BY ReqType DEF Read, Hand
<1>2. /\ again.op = p.op
      /\ done.op = p.op /\ Key(done) = Key(p) /\ done.role = p.role /\ done.answer = holds
  BY <1>1 DEF Request, Key
<1>3. /\ UNCHANGED <<stores, lost>> /\ pc[r] = "read"
      /\ Become(r, "read", again) \/ Become(r, "done", done)
  BY DEF Read
<1> HIDE DEF again, done
<1> QED
  BY <1>1, <1>2, <1>3, Becomes

\* A listing begins: nothing got yet, and what both stores have is to be got.
LEMMA ListMoves ==
  ASSUME TypeInv, NEW r \in Requests, List(r)
  PROVE  /\ UNCHANGED <<stores, lost>> /\ pc[r] = "idle"
         /\ \E q : /\ Moves(r, "page", q) /\ q \in Request /\ q.op \in ListOps
                   /\ q.got = <<>> /\ q.token = 0
                   /\ q.steady = Selected(q, primary \cap replica)
<1>1. PICK op \in ListOps, u \in Users, mo \in Membership :
        LET q == IF op = "GetUsers"
                 THEN [NoReq EXCEPT !.op = op, !.ctx = u, !.org = mo[2]]
                 ELSE [NoReq EXCEPT !.op = op, !.ctx = u, !.member = mo[1]]
        IN  Become(r, "page", [q EXCEPT !.steady = Selected(q, primary \cap replica)])
  BY DEF List
<1> DEFINE q == IF op = "GetUsers"
                THEN [NoReq EXCEPT !.op = op, !.ctx = u, !.org = mo[2]]
                ELSE [NoReq EXCEPT !.op = op, !.ctx = u, !.member = mo[1]]
           both == Selected(q, primary \cap replica)
           p == [q EXCEPT !.steady = both]
<1>2. mo[1] \in Members /\ mo[2] \in Orgs
  BY DEF Membership
<1>3. q \in Request /\ q.op \in ListOps /\ q.got = <<>> /\ q.token = 0
  BY NoReqType, <1>2 DEF Request, Subjects, NoReq
<1>4. both \subseteq Stored
  BY DEF Selected, TypeInv, TypeOK
<1>5. Become(r, "page", p)
  BY <1>1
<1> HIDE DEF q
<1>6. /\ p \in Request /\ p.op = q.op /\ p.got = q.got /\ p.token = q.token
      /\ p.org = q.org /\ p.member = q.member /\ p.steady = both
  BY <1>3, <1>4 DEF Request
<1> HIDE DEF p
<1>7. p.steady = Selected(p, primary \cap replica)
  BY <1>6 DEF Selected
<1>8. UNCHANGED <<stores, lost>> /\ pc[r] = "idle"
  BY DEF List
<1> QED
  BY <1>3, <1>5, <1>6, <1>7, <1>8, Becomes

\* The listing q is p with the tuple t more.
Pages(q, p, t) ==
  /\ q.op = p.op /\ q.org = p.org /\ q.member = p.member /\ q.steady = p.steady
  /\ q.got = Append(p.got, t)

LEMMA ReadPageMoves ==
  ASSUME TypeInv, NEW r \in Requests, ReadPage(r)
  PROVE  /\ UNCHANGED <<stores, lost>> /\ pc[r] = "page"
         /\ LET rest == Rest(req[r], GetClient(req[r].ctx))
            IN  \/ rest = {} /\ Moves(r, "done", req[r])
                \/ \E t, q : rest = {t} /\ Moves(r, "done", q) /\ Pages(q, req[r], t)
                \/ \E t, next, q :
                     /\ next # t /\ IsFirst(t, rest) /\ IsFirst(next, rest \ {t})
                     /\ Moves(r, "page", q) /\ Pages(q, req[r], t)
                     /\ q.token = next.id
<1> DEFINE p    == req[r]
           rest == Rest(p, GetClient(p.ctx))
           last(t)       == [p EXCEPT !.got = Append(p.got, t)]
           page(t, next) == [p EXCEPT !.got = Append(p.got, t), !.token = next.id]
<1>1. p \in Request
  BY ReqType
<1>2. /\ UNCHANGED <<stores, lost>> /\ pc[r] = "page"
      /\ \/ rest = {} /\ Become(r, "done", p)
         \/ \E t \in rest : rest = {t} /\ Become(r, "done", last(t))
         \/ \E t \in rest : \E next \in rest \ {t} :
              /\ IsFirst(t, rest) /\ IsFirst(next, rest \ {t})
              /\ Become(r, "page", page(t, next))
  BY DEF ReadPage
<1>3. ASSUME NEW t PROVE Pages(last(t), p, t)
  BY <1>1 DEF Pages, Request
<1>4. ASSUME NEW t, NEW next
      PROVE  Pages(page(t, next), p, t) /\ page(t, next).token = next.id
  BY <1>1 DEF Pages, Request
<1>5. \A label, q : Become(r, label, q) => Moves(r, label, q)
  BY Becomes
<1> HIDE DEF rest, last, page
<1>6. CASE rest = {} /\ Become(r, "done", p)
  BY <1>2, <1>5, <1>6 DEF rest
<1>7. CASE \E t \in rest : rest = {t} /\ Become(r, "done", last(t))
  BY <1>2, <1>3, <1>5, <1>7 DEF rest
<1>8. ASSUME NEW t \in rest, NEW next \in rest \ {t},
             IsFirst(t, rest), IsFirst(next, rest \ {t}),
             Become(r, "page", page(t, next))
      PROVE  \E q : /\ Moves(r, "page", q) /\ Pages(q, p, t)
                    /\ q.token = next.id
  BY <1>4, <1>5, <1>8
<1> QED
  BY <1>2, <1>6, <1>7, <1>8 DEF rest

LEMMA EndsMoves ==
  ASSUME TypeInv, NEW r \in Requests, Finish(r) \/ Abort(r)
  PROVE  /\ UNCHANGED stores /\ Moves(r, "idle", NoReq)
         /\ lost \subseteq lost'
         /\ InProgress(r) /\ req[r].op = "Set" => Key(req[r]) \in lost'
  BY Becomes DEF Finish, Abort, InProgress

\* A replica and time change no tuple in the primary, and no request.
LEMMA OthersMove ==
  ASSUME TypeInv, (\E s \in Stores : Replicate(s)) \/ Tick
  PROVE  /\ UNCHANGED <<primary, ids, lost, pc>>
         /\ \A r \in Requests : SameBut(req'[r], req[r])
<1>1. CASE \E s \in Stores : Replicate(s)
  BY <1>1 DEF Replicate, reqVars, SameBut
<1>2. CASE Tick
  <2>1. ASSUME NEW r \in Requests PROVE SameBut(req'[r], req[r])
    <3>1. req'[r] = req[r] \/ req'[r] = [req[r] EXCEPT !.age = @ + 1]
      BY <1>2 DEF Tick
    <3> QED
      BY <3>1, ReqType DEF SameBut, Request
  <2> QED
    BY <1>2, <2>1 DEF Tick
<1> QED
  BY <1>1, <1>2
-----------------------------------------------------------------------------
\* Changes of a membership

\* At most one tuple says that a user has a role in an organization.
OneTuple == \A t, x \in primary : Key(t) = Key(x) /\ t.role = x.role => t = x

Setting(r, mo) == req[r].op = "Set" /\ Key(req[r]) = mo /\ InProgress(r)

NotLost ==
  \A mo \in Membership \ lost :
    RolesOf(mo, primary) # {} \/ \E r \in Requests : Setting(r, mo)

\* A deletion counts as one until it is done; a change that has been alone has
\* deleted the roles its loop has passed.
ChangingAt(label, q) ==
  /\ label = "page" => q.op \in ListOps
  /\ (label \in {"mark", "execute"} /\ q.op = "Delete") => Key(q) \in lost
  /\ (label \in {"mark", "execute"} /\ q.op = "Set" /\ q.alone) =>
       \A t \in primary :
         Key(t) = Key(q) => \A j \in 1..(q.i - 1) : t.role # Roles[j]
  /\ (label = "done" /\ q.op = "Set" /\ q.alone) =>
       RolesOf(Key(q), primary) = {q.role}

RolesInv == OneTuple /\ NotLost /\ \A r \in Requests : ChangingAt(pc[r], req[r])

\* A request that another's step has not bothered, nor changed the tuples of
\* its membership, is as before.
LEMMA ChangingKept ==
  ASSUME NEW r \in Requests, ChangingAt(pc[r], req[r]), pc'[r] = pc[r],
         SameBut(req'[r], req[r]),
         pc[r] \in {"mark", "execute"} /\ req[r].op = "Delete" => Key(req[r]) \in lost',
         req[r].op = "Set" /\ req'[r].alone =>
           \A t : Key(t) = Key(req[r]) => (t \in primary' <=> t \in primary)
  PROVE  ChangingAt(pc[r], req[r])'
<1>1. Key(req'[r]) = Key(req[r])
  BY DEF SameBut, Key
<1>2. ASSUME req[r].op = "Set", req'[r].alone
      PROVE  RolesOf(Key(req[r]), primary)' = RolesOf(Key(req[r]), primary)
  BY <1>1, <1>2 DEF RolesOf
<1> QED
  BY <1>1, <1>2 DEF ChangingAt, SameBut

\* A step of a request that leaves the tuples alone.
LEMMA QuietRoles ==
  ASSUME RolesInv, UNCHANGED primary, lost \subseteq lost',
         NEW r \in Requests, NEW label, NEW q, Moves(r, label, q),
         ChangingAt(pc[r], req[r])',
         \A mo \in Membership \ lost' :
           Setting(r, mo) => Setting(r, mo)' \/ RolesOf(mo, primary) # {}
  PROVE  RolesInv'
<1>1. OneTuple'
  BY DEF RolesInv, OneTuple
<1>2. ASSUME NEW s \in Requests, s # r
      PROVE  /\ ChangingAt(pc[s], req[s])'
             /\ \A mo : Setting(s, mo) => Setting(s, mo)'
  <2>1. /\ pc'[s] = pc[s] /\ SameBut(req'[s], req[s]) /\ ChangingAt(pc[s], req[s])
    BY <1>2 DEF Moves, RolesInv
  <2>2. pc[s] \in {"mark", "execute"} /\ req[s].op = "Delete" => Key(req[s]) \in lost'
    BY <2>1 DEF ChangingAt
  <2>3. ChangingAt(pc[s], req[s])'
    BY <2>1, <2>2, ChangingKept
  <2> QED
    BY <2>1, <2>3 DEF Setting, SameBut, Key, InProgress
<1>3. NotLost'
  BY <1>2 DEF RolesInv, NotLost, RolesOf
<1> QED
  BY <1>1, <1>2, <1>3 DEF RolesInv

LEMMA DeleteRoleRoles ==
  ASSUME TypeInv, RolesInv, NEW r \in Requests, DeleteRole(r)
  PROVE  RolesInv'
<1> DEFINE p == req[r]
<1>1. PICK label \in {"mark", "done"} : \E q :
         /\ Moves(r, label, q) /\ (label = "done" => p.op = "Delete")
         /\ q.op = p.op /\ Key(q) = Key(p) /\ q.role = p.role
         /\ q.i = p.i + 1 /\ (q.alone => p.alone)
         /\ \A s \in Requests \ {r} :
              req[s].op = "Set" /\ Key(req[s]) = Key(p) => ~req'[s].alone
         /\ \/ /\ UNCHANGED primary
               /\ q.alone => \A t \in primary : Key(t) = Key(q) => t.role # Roles[p.i]
            \/ \E t \in primary : /\ Key(t) = Key(q) /\ t.role = Roles[p.i]
                                  /\ primary' = primary \ {t}
  BY DeleteRoleMoves DEF stores
<1>2. PICK q :
         /\ Moves(r, label, q) /\ (label = "done" => p.op = "Delete")
         /\ q.op = p.op /\ Key(q) = Key(p) /\ q.role = p.role
         /\ q.i = p.i + 1 /\ (q.alone => p.alone)
         /\ \A s \in Requests \ {r} :
              req[s].op = "Set" /\ Key(req[s]) = Key(p) => ~req'[s].alone
         /\ \/ /\ UNCHANGED primary
               /\ q.alone => \A t \in primary : Key(t) = Key(q) => t.role # Roles[p.i]
            \/ \E t \in primary : /\ Key(t) = Key(q) /\ t.role = Roles[p.i]
                                  /\ primary' = primary \ {t}
  BY <1>1
<1>3. /\ pc[r] = "execute" /\ p.op \in SetOps /\ lost' = lost /\ p.i \in Nat
      /\ ChangingAt("execute", p)
  BY DeleteRoleMoves, ReqType DEF RolesInv
<1>4. /\ primary' \subseteq primary
      /\ \A t : Key(t) # Key(p) => (t \in primary' <=> t \in primary)
  BY <1>2
<1>5. OneTuple'
  BY <1>4 DEF RolesInv, OneTuple
<1>6. pc'[r] = label /\ req'[r] = q
  BY <1>2 DEF Moves
<1>7. ChangingAt(pc[r], req[r])'
  <2>1. CASE p.op = "Delete"
    BY <1>2, <1>3, <1>6, <2>1 DEF ChangingAt
  <2>2. CASE p.op = "Set"
    <3>1. label = "mark"
      BY <1>2, <2>2
    <3>2. ASSUME q.alone, NEW t \in primary', Key(t) = Key(q), NEW j \in 1..(q.i - 1)
          PROVE  t.role # Roles[j]
      <4>1. CASE j \in 1..(p.i - 1)
        BY <1>2, <1>3, <1>4, <2>2, <3>2, <4>1 DEF ChangingAt
      <4>2. CASE j = p.i
        BY <1>2, <1>4, <3>2, <4>2 DEF RolesInv, OneTuple
      <4> QED
        BY <1>2, <1>3, <4>1, <4>2
    <3> QED
      BY <1>2, <1>6, <2>2, <3>1, <3>2 DEF ChangingAt
  <2> QED
    BY <1>3, <2>1, <2>2 DEF SetOps
<1>8. ASSUME NEW s \in Requests, s # r
      PROVE  /\ ChangingAt(pc[s], req[s])'
             /\ \A mo : Setting(s, mo) => Setting(s, mo)'
  <2>1. pc'[s] = pc[s] /\ SameBut(req'[s], req[s]) /\ ChangingAt(pc[s], req[s])
    BY <1>2, <1>8 DEF Moves, RolesInv
  <2>2. pc[s] \in {"mark", "execute"} /\ req[s].op = "Delete" => Key(req[s]) \in lost'
    BY <1>3, <2>1 DEF ChangingAt
  <2>3. req[s].op = "Set" /\ req'[s].alone =>
          \A t : Key(t) = Key(req[s]) => (t \in primary' <=> t \in primary)
    BY <1>2, <1>4, <1>8
  <2>4. ChangingAt(pc[s], req[s])'
    BY <2>1, <2>2, <2>3, ChangingKept
  <2> QED
    BY <2>1, <2>4 DEF Setting, SameBut, Key, InProgress
<1>9. NotLost'
  <2> SUFFICES ASSUME NEW mo \in Membership \ lost
               PROVE  RolesOf(mo, primary)' # {} \/ \E s \in Requests : Setting(s, mo)'
    BY <1>3 DEF NotLost
  <2>1. CASE mo = Key(p)
    <3>1. p.op = "Set"
      BY <1>3, <2>1 DEF ChangingAt, SetOps
    <3>2. Setting(r, mo)'
      BY <1>2, <1>6, <2>1, <3>1 DEF Setting, InProgress, DonePC
    <3> QED
      BY <3>2
  <2>2. CASE mo # Key(p)
    <3>1. RolesOf(mo, primary)' = RolesOf(mo, primary)
      BY <1>4, <2>2 DEF RolesOf
    <3>2. \A s \in Requests : Setting(s, mo) => s # r
      BY <2>2 DEF Setting
    <3> QED
      BY <1>8, <3>1, <3>2 DEF RolesInv, NotLost
  <2> QED
    BY <2>1, <2>2
<1> QED
  BY <1>5, <1>7, <1>8, <1>9 DEF RolesInv
LEMMA WriteRoleRoles ==
  ASSUME TypeInv, RolesInv, NEW r \in Requests, WriteRole(r)
  PROVE  RolesInv'
<1> DEFINE p == req[r]
<1>1. /\ pc[r] = "execute" /\ p.op = "Set" /\ LoopEnds(p.i) /\ p.i \in Nat
      /\ p.role \in RoleNames /\ ChangingAt("execute", p)
  BY WriteRoleMoves, ReqType DEF RolesInv, Hand
<1>2. CASE /\ UNCHANGED stores /\ Moves(r, "failed", NoReq) /\ lost \subseteq lost'
           /\ \/ Key(p) \in lost'
              \/ RolesOf(Key(p), primary) # {}
  <2>1. UNCHANGED primary
    BY <1>2 DEF stores
  <2>2. ChangingAt(pc[r], req[r])'
    BY <1>2 DEF Moves, ChangingAt
  <2>3. \A mo \in Membership \ lost' : Setting(r, mo) => RolesOf(mo, primary) # {}
    BY <1>2 DEF Setting
  <2> QED
    BY <1>2, <2>1, <2>2, <2>3, QuietRoles
<1>3. ASSUME NEW new, NEW q,
             /\ Key(new) = Key(p) /\ new.role = p.role
             /\ Writable(p)
             /\ primary' = primary \cup {new}
             /\ Moves(r, "done", q)
             /\ q.op = "Set" /\ Key(q) = Key(p) /\ q.role = p.role
             /\ q.alone => p.alone
             /\ \A s \in Requests \ {r} :
                  req[s].op = "Set" /\ Key(req[s]) = Key(p) => ~req'[s].alone
             /\ lost' = IF \E s \in Requests : /\ pc[s] \in {"mark", "execute"}
                                               /\ req[s].op = "Delete"
                                               /\ Key(req[s]) = Key(p)
                        THEN lost ELSE lost \ {Key(p)}
      PROVE  RolesInv'
  <2>1. /\ pc'[r] = "done" /\ req'[r] = q
        /\ \A t : Key(t) # Key(p) => (t \in primary' <=> t \in primary)
    BY <1>3 DEF Moves
  <2>2. ASSUME NEW t \in primary, Key(t) = Key(p) PROVE t.role # p.role
    BY <1>3, <2>2 DEF Writable, RolesOf
  <2>3. OneTuple'
    BY <1>3, <2>2 DEF RolesInv, OneTuple
  <2>4. ASSUME q.alone PROVE RolesOf(Key(p), primary') = {p.role}
    <3>1. ASSUME NEW t \in primary, Key(t) = Key(p) PROVE FALSE
      <4>1. t.role \in RoleNames
        BY DEF TypeInv, TypeOK, Stored
      <4>2. PICK j \in DOMAIN Roles : t.role = Roles[j]
        BY <4>1 DEF RoleNames
      <4>3. j \in 1..(p.i - 1)
        BY <1>1, RolesLength, AclAssumption DEF LoopEnds
      <4> QED
        BY <1>1, <1>3, <2>4, <3>1, <4>2, <4>3 DEF ChangingAt
    <3>2. \A t : t \in primary' /\ Key(t) = Key(p) <=> t = new
      BY <1>3, <3>1
    <3> QED
      BY <1>3, <3>2 DEF RolesOf
  <2>5. ChangingAt(pc[r], req[r])'
    <3>1. q.alone => RolesOf(Key(q), primary') = {q.role}
      BY <1>3, <2>4
    <3> QED
      BY <2>1, <3>1 DEF ChangingAt
  <2>6. ASSUME NEW s \in Requests, s # r
        PROVE  /\ ChangingAt(pc[s], req[s])'
               /\ \A mo : Setting(s, mo) => Setting(s, mo)'
    <3>1. pc'[s] = pc[s] /\ SameBut(req'[s], req[s]) /\ ChangingAt(pc[s], req[s])
      BY <1>3, <2>6 DEF Moves, RolesInv
    <3>2. pc[s] \in {"mark", "execute"} /\ req[s].op = "Delete" => Key(req[s]) \in lost'
      BY <1>3, <3>1 DEF ChangingAt
    <3>3. req[s].op = "Set" /\ req'[s].alone =>
            \A t : Key(t) = Key(req[s]) => (t \in primary' <=> t \in primary)
      BY <1>3, <2>1, <2>6
    <3>4. ChangingAt(pc[s], req[s])'
      BY <3>1, <3>2, <3>3, ChangingKept
    <3> QED
      BY <3>1, <3>4 DEF Setting, SameBut, Key, InProgress
  <2>7. NotLost'
    <3> SUFFICES ASSUME NEW mo \in Membership \ lost'
                 PROVE  RolesOf(mo, primary)' # {} \/ \E s \in Requests : Setting(s, mo)'
      BY DEF NotLost
    <3>1. CASE mo = Key(p)
      BY <1>3, <3>1 DEF RolesOf
    <3>2. CASE mo # Key(p)
      <4>1. RolesOf(mo, primary)' = RolesOf(mo, primary)
        BY <2>1, <3>2 DEF RolesOf
      <4>2. \A s \in Requests : Setting(s, mo) => s # r
        BY <3>2 DEF Setting
      <4>3. mo \in Membership \ lost
        BY <1>3, <3>2
      <4> QED
        BY <2>6, <4>1, <4>2, <4>3 DEF RolesInv, NotLost
    <3> QED
      BY <3>1, <3>2
  <2> QED
    BY <2>3, <2>5, <2>6, <2>7 DEF RolesInv
<1> QED
  BY <1>2, <1>3, WriteRoleMoves

LEMMA RolesStep == TypeInv /\ RolesInv /\ [Next]_vars => RolesInv'
<1> SUFFICES ASSUME TypeInv, RolesInv, [Next]_vars PROVE RolesInv'
  OBVIOUS
<1>1. ASSUME UNCHANGED <<primary, lost, pc>>, \A r \in Requests : SameBut(req'[r], req[r])
      PROVE  RolesInv'
  <2>1. ASSUME NEW r \in Requests
        PROVE  /\ ChangingAt(pc[r], req[r])'
               /\ \A mo : Setting(r, mo) => Setting(r, mo)'
    <3>1. /\ pc'[r] = pc[r] /\ SameBut(req'[r], req[r]) /\ ChangingAt(pc[r], req[r])
      BY <1>1 DEF RolesInv
    <3>2. pc[r] \in {"mark", "execute"} /\ req[r].op = "Delete" => Key(req[r]) \in lost'
      BY <1>1, <3>1 DEF ChangingAt
    <3>3. ChangingAt(pc[r], req[r])'
      BY <1>1, <3>1, <3>2, ChangingKept
    <3> QED
      BY <3>1, <3>3 DEF Setting, SameBut, Key, InProgress
  <2>2. OneTuple' /\ NotLost'
    BY <1>1, <2>1 DEF RolesInv, OneTuple, NotLost, RolesOf
  <2> QED
    BY <2>1, <2>2 DEF RolesInv
<1>2. CASE UNCHANGED vars
  BY <1>1, <1>2 DEF vars, stores, reqVars, SameBut
<1>3. CASE (\E s \in Stores : Replicate(s)) \/ Tick
  BY <1>1, <1>3, OthersMove
<1>4. ASSUME NEW r \in Requests, Change(r) PROVE RolesInv'
  <2>1. UNCHANGED primary /\ pc[r] = "idle"
    BY <1>4, ChangeMoves DEF stores
  <2>2. PICK q : /\ Moves(r, "mark", q) /\ q.i = 1
                 /\ lost \subseteq lost' /\ (q.op = "Delete" => Key(q) \in lost')
    BY <1>4, ChangeMoves
  <2>3. pc'[r] = "mark" /\ req'[r] = q
    BY <2>2 DEF Moves
  <2>4. ChangingAt(pc[r], req[r])'
    BY <2>2, <2>3 DEF ChangingAt
  <2>5. \A mo : ~Setting(r, mo)
    BY <2>1 DEF Setting, InProgress
  <2> QED
    BY <2>1, <2>2, <2>4, <2>5, QuietRoles
<1>5. ASSUME NEW r \in Requests, Mark(r) PROVE RolesInv'
  <2>1. UNCHANGED <<primary, lost>> /\ pc[r] = "mark" /\ ChangingAt(pc[r], req[r])
    BY <1>5, MarkMoves DEF stores, RolesInv
  <2>2. PICK q : Moves(r, "execute", q) /\ SameBut(q, req[r])
    BY <1>5, MarkMoves
  <2>3. pc'[r] = "execute" /\ req'[r] = q
    BY <2>2 DEF Moves
  <2>4. Key(q) = Key(req[r])
    BY <2>2 DEF SameBut, Key
  <2>5. ChangingAt(pc[r], req[r])'
    BY <2>1, <2>2, <2>3, <2>4 DEF ChangingAt, SameBut
  <2>6. \A mo : Setting(r, mo) => Setting(r, mo)'
    BY <2>2, <2>3, <2>4 DEF Setting, SameBut, InProgress, DonePC
  <2> QED
    BY <2>1, <2>2, <2>5, <2>6, QuietRoles
<1>6. ASSUME NEW r \in Requests, DatabaseWrite(r) PROVE RolesInv'
  <2>1. /\ UNCHANGED <<primary, lost>> /\ req[r].op = "database"
        /\ Moves(r, "done", req[r])
    BY <1>6, DatabaseWriteMoves
  <2>2. ChangingAt(pc[r], req[r])'
    BY <2>1 DEF Moves, ChangingAt
  <2>3. \A mo : ~Setting(r, mo)
    BY <2>1 DEF Setting
  <2> QED
    BY <2>1, <2>2, <2>3, QuietRoles
<1>7. ASSUME NEW r \in Requests, Ask(r) \/ List(r) PROVE RolesInv'
  <2>1. UNCHANGED <<primary, lost>> /\ pc[r] = "idle"
    BY <1>7, AskMoves, ListMoves DEF stores
  <2>2. PICK label \in {"read", "page"} : \E q :
          Moves(r, label, q) /\ (label = "page" => q.op \in ListOps)
    BY <1>7, AskMoves, ListMoves
  <2>3. ChangingAt(pc[r], req[r])'
    BY <2>2 DEF Moves, ChangingAt
  <2>4. \A mo : ~Setting(r, mo)
    BY <2>1 DEF Setting, InProgress
  <2> QED
    BY <2>1, <2>2, <2>3, <2>4, QuietRoles
<1>8. ASSUME NEW r \in Requests, Read(r) PROVE RolesInv'
  <2>1. UNCHANGED <<primary, lost>> /\ req[r].op \in ReadOps
    BY <1>8, ReadMoves DEF stores
  <2>2. PICK label \in {"read", "done"} : \E q : Moves(r, label, q) /\ q.op = req[r].op
    BY <1>8, ReadMoves
  <2>3. ChangingAt(pc[r], req[r])'
    BY <2>1, <2>2 DEF Moves, ChangingAt, ReadOps
  <2>4. \A mo : ~Setting(r, mo)
    BY <2>1 DEF Setting, ReadOps
  <2> QED
    BY <2>1, <2>2, <2>3, <2>4, QuietRoles
<1>9. ASSUME NEW r \in Requests, ReadPage(r) PROVE RolesInv'
  <2>1. /\ UNCHANGED <<primary, lost>> /\ req[r].op \in ListOps
    BY <1>9 DEF ReadPage, stores, RolesInv, ChangingAt
  <2>2. PICK label \in {"page", "done"} : \E q : Moves(r, label, q) /\ q.op = req[r].op
    BY <1>9, ReadPageMoves DEF Pages
  <2>3. ChangingAt(pc[r], req[r])'
    BY <2>1, <2>2 DEF Moves, ChangingAt, ListOps
  <2>4. \A mo : ~Setting(r, mo)
    BY <2>1 DEF Setting, ListOps
  <2> QED
    BY <2>1, <2>2, <2>3, <2>4, QuietRoles
<1>10. ASSUME NEW r \in Requests, Finish(r) \/ Abort(r) PROVE RolesInv'
  <2>1. /\ UNCHANGED primary /\ Moves(r, "idle", NoReq) /\ lost \subseteq lost'
        /\ InProgress(r) /\ req[r].op = "Set" => Key(req[r]) \in lost'
    BY <1>10, EndsMoves DEF stores
  <2>2. ChangingAt(pc[r], req[r])'
    BY <2>1 DEF Moves, ChangingAt
  <2>3. \A mo \in Membership \ lost' : ~Setting(r, mo)
    BY <2>1 DEF Setting
  <2> QED
    BY <2>1, <2>2, <2>3, QuietRoles
<1> QED
  BY <1>2, <1>3, <1>4, <1>5, <1>6, <1>7, <1>8, <1>9, <1>10, DeleteRoleRoles,
     WriteRoleRoles DEF Next

\* The tuples the run starts with: one for each subject and object at most,
\* and each with a number of its own.
LEMMA FirstTuples ==
  ASSUME Init
  PROVE  /\ \A t, x \in primary : Key(t) = Key(x) => t = x
         /\ \A t, x \in primary : t.id = x.id => t = x
         /\ \A t \in primary : t.id <= ids
<1>1. PICK first \in [Grant -> RoleNames \cup {None}],
           order \in [Grant -> 1..Cardinality(Grant)] :
        /\ \A x, y \in Grant : order[x] = order[y] => x = y
        /\ primary = {[member |-> mo[1], org |-> mo[2],
                       role |-> first[mo], id |-> order[mo]] :
                        mo \in {x \in Grant : first[x] # None}}
  BY DEF Init
<1>2. Cardinality(Grant) \in Nat /\ ids = Cardinality(Grant)
  BY AclAssumption, FS_CardinalityType DEF Init
<1>3. ASSUME NEW t \in primary
      PROVE  \E mo \in Grant : /\ t = [member |-> mo[1], org |-> mo[2],
                                       role |-> first[mo], id |-> order[mo]]
                               /\ Key(t) = mo /\ t.id = order[mo]
  <2>1. PICK mo \in Grant : t = [member |-> mo[1], org |-> mo[2],
                                 role |-> first[mo], id |-> order[mo]]
    BY <1>1
  <2>2. t.member = mo[1] /\ t.org = mo[2] /\ t.id = order[mo]
    BY <2>1
  <2>3. <<mo[1], mo[2]>> = mo
    BY DEF Grant
  <2>4. Key(t) = mo
    BY <2>2, <2>3 DEF Key
  <2> QED
    BY <2>1, <2>2, <2>4
<1>4. \A mo \in Grant : order[mo] <= ids
  BY <1>2
<1> QED
  BY <1>1, <1>3, <1>4

LEMMA InitRolesInv == Init => RolesInv
<1> SUFFICES ASSUME Init PROVE RolesInv
  OBVIOUS
<1>1. OneTuple
  BY FirstTuples DEF OneTuple
<1>2. NotLost
  BY DEF Init, NotLost
<1>3. \A r \in Requests : pc[r] = "idle"
  BY DEF Init
<1> QED
  BY <1>1, <1>2, <1>3 DEF RolesInv, ChangingAt

LEMMA RolesAlways == Spec => [](TypeInv /\ RolesInv)
<1>1. TypeInv /\ RolesInv /\ [Next]_vars => TypeInv' /\ RolesInv'
  BY TypeInvStep, RolesStep
<1> QED
  BY <1>1, InitTypeInv, InitRolesInv, PTL DEF Spec

\* RoleNotLost, of SetOrganizationUserMembership: for any number of changes of
\* one membership and any roles.
THEOREM RoleKept == Spec => []RoleNotLost
<1>1. RolesInv => RoleNotLost
  BY DEF RolesInv, NotLost, Setting, RoleNotLost
<1> QED
  BY <1>1, RolesAlways, PTL

\* LoneChangeExact, of SetOrganizationUserMembership.
THEOREM LoneChange == Spec => []LoneChangeExact
<1>1. RolesInv => LoneChangeExact
  BY DEF RolesInv, ChangingAt, LoneChangeExact
<1> QED
  BY <1>1, RolesAlways, PTL
-----------------------------------------------------------------------------
\* The primary, the replica and the log between them

Entries  == DOMAIN wal["openfga"]
Entry(i) == wal["openfga"][i]

\* Tuples are numbered, and no number is given twice.
Known == primary \cup replica \cup {Entry(i).tuple : i \in Entries}

Numbered ==
  /\ \A t \in Known : t.id <= ids
  /\ \A t, x \in Known : t.id = x.id => t = x

\* A deletion in the log is of a tuple that is gone, a put of one that is there
\* or is deleted further on.
LogRight ==
  \A i \in Entries :
    IF Entry(i).change = "delete"
    THEN Entry(i).tuple \notin primary
    ELSE \/ Entry(i).tuple \in primary
         \/ \E j \in Entries : j > i /\ Entry(j).tuple = Entry(i).tuple

\* The replica differs from the primary in the tuples of the log.
Synced ==
  \A t \in primary \cup replica :
    \/ t \in primary /\ t \in replica
    \/ \E i \in Entries : Entry(i).tuple = t

StoresInv ==
  /\ Numbered
  /\ IF HasReplica THEN LogRight /\ Synced ELSE Entries = {}

LEMMA EntryType ==
  ASSUME TypeInv
  PROVE  /\ wal["openfga"] \in Seq(LogEntry("openfga"))
         /\ Entries = 1..Len(wal["openfga"]) /\ Len(wal["openfga"]) \in Nat
         /\ \A i \in Entries : Entry(i) \in LogEntry("openfga") /\ Entry(i).tuple \in Stored
<1>1. wal["openfga"] \in Seq(LogEntry("openfga"))
  BY DEF TypeInv, TypeOK, Stores
<1>2. Entries = 1..Len(wal["openfga"]) /\ Len(wal["openfga"]) \in Nat
  BY <1>1 DEF Entries
<1>3. \A i \in Entries : Entry(i) \in LogEntry("openfga")
  BY <1>1 DEF Entries, Entry
<1>4. \A e \in LogEntry("openfga") : e.tuple \in Stored
  BY DEF LogEntry
<1> QED
  BY <1>1, <1>2, <1>3, <1>4

LEMMA KnownStored ==
  ASSUME TypeInv
  PROVE  /\ Known \subseteq Stored /\ ids \in Nat
         /\ \A t \in Known : t.id \in Nat
  BY EntryType DEF Known, TypeInv, TypeOK, Stored

\* A logged write is the last of the log.
LEMMA LogAppends ==
  ASSUME TypeInv, NEW change \in {"put", "delete"}, NEW t \in Stored, NEW u,
         Log("openfga", change, t, u)
  PROVE  /\ ~HasReplica => wal' = wal
         /\ HasReplica =>
              \E n \in Nat : /\ Entries' = Entries \cup {n}
                             /\ \A i \in Entries : i < n /\ Entry(i)' = Entry(i)
                             /\ Entry(n)'.change = change /\ Entry(n)'.tuple = t
                             /\ Entry(n)'.by = u
<1> DEFINE e == [change |-> change, tuple |-> t, by |-> u, age |-> 0]
<1>1. wal["openfga"] \in Seq(LogEntry("openfga")) /\ DOMAIN wal = Stores
  BY EntryType DEF TypeInv, TypeOK
<1>2. ASSUME HasReplica PROVE wal'["openfga"] = Append(wal["openfga"], e)
  BY <1>1, <1>2 DEF Log, Stores
<1>3. e.change = change /\ e.tuple = t /\ e.by = u
  OBVIOUS
<1> HIDE DEF e
<1>4. PICK n \in Nat : n = Len(wal["openfga"]) + 1
  BY <1>1
<1>5. ASSUME HasReplica
      PROVE  /\ Entries' = Entries \cup {n}
             /\ \A i \in Entries : i < n /\ Entry(i)' = Entry(i)
             /\ Entry(n)' = e
  <2>1. Entries = 1..Len(wal["openfga"]) /\ Len(wal["openfga"]) \in Nat
    BY EntryType
  <2>2. Entries' = 1..n
    BY <1>1, <1>2, <1>4, <1>5, <2>1 DEF Entries
  <2>3. \A i \in Entries : Entry(i)' = Entry(i)
    BY <1>1, <1>2, <1>4, <1>5, <2>1 DEF Entry
  <2>4. Entry(n)' = e
    BY <1>1, <1>2, <1>4, <1>5, <2>1 DEF Entry
  <2> QED
    BY <1>4, <2>1, <2>2, <2>3, <2>4
<1> QED
  BY <1>3, <1>5 DEF Log

\* What a replica applies is the first of the log.
LEMMA ReplicateShifts ==
  ASSUME TypeInv, Replicate("openfga")
  PROVE  /\ 1 \in Entries
         /\ \A i \in Entries' : i + 1 \in Entries /\ i \in Nat /\ Entry(i)' = Entry(i + 1)
         /\ \A i \in Entries \ {1} : /\ i - 1 \in Entries' /\ i \in Nat
                                     /\ Entry(i - 1)' = Entry(i)
         /\ replica' = IF Entry(1).change = "put" THEN replica \cup {Entry(1).tuple}
                                                  ELSE replica \ {Entry(1).tuple}
         /\ UNCHANGED <<primary, ids>>
<1> DEFINE log == wal["openfga"]
<1>1. log \in Seq(LogEntry("openfga")) /\ DOMAIN wal = Stores /\ log # <<>>
  BY EntryType DEF TypeInv, TypeOK, Replicate
<1>2. wal'["openfga"] = Tail(log)
  BY <1>1 DEF Replicate, Stores
<1>3. Entries = 1..Len(log) /\ Len(log) \in Nat /\ Len(log) > 0
  BY <1>1 DEF Entries
<1>4. Entries' = 1..(Len(log) - 1)
  BY <1>1, <1>2, <1>3 DEF Entries
<1>5. \A i \in 1..(Len(log) - 1) : Tail(log)[i] = log[i + 1]
  BY <1>1, <1>3
<1>6. \A i \in Entries' : Entry(i)' = Entry(i + 1)
  BY <1>2, <1>4, <1>5 DEF Entry
<1>7. Head(log) = Entry(1)
  BY <1>1 DEF Entry
<1>8. replica' = IF Entry(1).change = "put" THEN replica \cup {Entry(1).tuple}
                                            ELSE replica \ {Entry(1).tuple}
  BY <1>7 DEF Replicate
<1>9. \A i \in Entries \ {1} : (i - 1) + 1 = i /\ i - 1 \in Entries' /\ i \in Nat
  BY <1>3, <1>4
<1>10. \A i \in Entries' : i + 1 \in Entries /\ i \in Nat
  BY <1>3, <1>4
<1>11. \A i \in Entries \ {1} : Entry(i - 1)' = Entry(i)
  <2> TAKE i \in Entries \ {1}
  <2>1. i - 1 \in Entries' /\ (i - 1) + 1 = i
    BY <1>9
  <2>2. Entry(i - 1)' = Entry((i - 1) + 1)
    BY <1>6, <2>1
  <2> QED
    BY <2>1, <2>2
<1>12. 1 \in Entries /\ UNCHANGED <<primary, ids>>
  BY <1>3 DEF Replicate
<1> QED
  BY <1>6, <1>8, <1>9, <1>10, <1>11, <1>12
\* A step after which stores and log hold the same tuples.
SameStores ==
  /\ UNCHANGED <<primary, replica, ids, Entries>>
  /\ \A i \in Entries : /\ Entry(i)'.tuple = Entry(i).tuple
                        /\ Entry(i)'.change = Entry(i).change
                        /\ Entry(i)'.by = Entry(i).by

LEMMA SameStoresKept == StoresInv /\ SameStores => StoresInv'
<1> SUFFICES ASSUME StoresInv, SameStores PROVE StoresInv'
  OBVIOUS
<1>1. UNCHANGED Known
  BY DEF SameStores, Known
<1>2. Numbered'
  BY <1>1 DEF StoresInv, Numbered, SameStores
<1>3. HasReplica => LogRight'
  BY DEF StoresInv, LogRight, SameStores
<1>4. HasReplica => Synced'
  BY DEF StoresInv, Synced, SameStores
<1>5. ~HasReplica => Entries' = {}
  BY DEF StoresInv, SameStores
<1> QED
  BY <1>2, <1>3, <1>4, <1>5 DEF StoresInv

\* A deletion from the primary.
Deletes(t) ==
  /\ t \in primary /\ primary' = primary \ {t} /\ UNCHANGED <<replica, ids>>
  /\ \E u : Log("openfga", "delete", t, u)

LEMMA DeletesKept ==
  ASSUME TypeInv, StoresInv, NEW t, Deletes(t) PROVE StoresInv'
<1>1. t \in Stored /\ t \in Known
  BY DEF Deletes, TypeInv, TypeOK, Known
<1>2. CASE ~HasReplica
  <2>1. wal' = wal
    BY <1>1, <1>2, LogAppends DEF Deletes
  <2>2. Entries' = {} /\ Known' \subseteq Known
    BY <1>2, <2>1 DEF StoresInv, Entries, Known, Deletes
  <2> QED
    BY <1>2, <2>2 DEF StoresInv, Numbered, Deletes
<1>3. CASE HasReplica
  <2>1. PICK n \in Nat : /\ Entries' = Entries \cup {n}
                         /\ \A i \in Entries : i < n /\ Entry(i)' = Entry(i)
                         /\ Entry(n)'.change = "delete" /\ Entry(n)'.tuple = t
    BY <1>1, <1>3, LogAppends DEF Deletes
  <2>2. Known' \subseteq Known
    BY <1>1, <2>1 DEF Known, Deletes
  <2>3. Numbered'
    BY <2>2 DEF StoresInv, Numbered, Deletes
  <2>4. ASSUME NEW i \in Entries'
        PROVE  IF Entry(i)'.change = "delete"
               THEN Entry(i)'.tuple \notin primary'
               ELSE \/ Entry(i)'.tuple \in primary'
                    \/ \E j \in Entries' : j > i /\ Entry(j)'.tuple = Entry(i)'.tuple
    <3>1. CASE i = n
      BY <2>1, <3>1 DEF Deletes
    <3>2. CASE i \in Entries
      <4>1. /\ Entry(i)' = Entry(i) /\ n > i /\ n \in Entries'
            /\ \A j \in Entries : Entry(j)' = Entry(j) /\ j \in Entries'
        BY <2>1, <3>2, EntryType
      <4> QED
        BY <1>3, <2>1, <3>2, <4>1 DEF StoresInv, LogRight, Deletes
    <3> QED
      BY <2>1, <3>1, <3>2
  <2>5. LogRight'
    BY <2>4 DEF LogRight
  <2>6. Synced'
    BY <1>3, <2>1 DEF StoresInv, Synced, Deletes
  <2> QED
    BY <1>3, <2>3, <2>5, <2>6 DEF StoresInv
<1> QED
  BY <1>2, <1>3

\* A new tuple in the primary.
Puts(new) ==
  /\ new \in Stored /\ new.id = ids + 1 /\ ids' = ids + 1
  /\ primary' = primary \cup {new} /\ UNCHANGED replica
  /\ \E u : Log("openfga", "put", new, u)

LEMMA PutsKept ==
  ASSUME TypeInv, StoresInv, NEW new, Puts(new) PROVE StoresInv'
<1>1. new \in Stored /\ new \notin Known
  BY KnownStored DEF Puts, StoresInv, Numbered
<1>2. ASSUME Known' \subseteq Known \cup {new} PROVE Numbered'
  <2>1. \A t \in Known' : t.id <= ids'
    BY <1>2, KnownStored DEF Puts, StoresInv, Numbered
  <2>2. \A t \in Known : t.id # new.id
    BY KnownStored DEF Puts, StoresInv, Numbered
  <2>3. \A t, x \in Known' : t.id = x.id => t = x
    BY <1>2, <2>2 DEF StoresInv, Numbered
  <2> QED
    BY <2>1, <2>3 DEF Numbered
<1>3. CASE ~HasReplica
  <2>1. wal' = wal
    BY <1>1, <1>3, LogAppends DEF Puts
  <2>2. Entries' = {} /\ Known' \subseteq Known \cup {new}
    BY <1>3, <2>1 DEF StoresInv, Entries, Known, Puts
  <2> QED
    BY <1>2, <1>3, <2>2 DEF StoresInv
<1>4. CASE HasReplica
  <2>1. PICK n \in Nat : /\ Entries' = Entries \cup {n}
                         /\ \A i \in Entries : i < n /\ Entry(i)' = Entry(i)
                         /\ Entry(n)'.change = "put" /\ Entry(n)'.tuple = new
    BY <1>1, <1>4, LogAppends DEF Puts
  <2>2. Known' \subseteq Known \cup {new}
    BY <1>1, <2>1 DEF Known, Puts
  <2>3. \A i \in Entries : Entry(i).tuple # new
    BY <1>1 DEF Known
  <2>4. ASSUME NEW i \in Entries'
        PROVE  IF Entry(i)'.change = "delete"
               THEN Entry(i)'.tuple \notin primary'
               ELSE \/ Entry(i)'.tuple \in primary'
                    \/ \E j \in Entries' : j > i /\ Entry(j)'.tuple = Entry(i)'.tuple
    <3>1. CASE i = n
      BY <2>1, <3>1 DEF Puts
    <3>2. CASE i \in Entries
      <4>1. /\ Entry(i)' = Entry(i)
            /\ \A j \in Entries : Entry(j)' = Entry(j) /\ j \in Entries'
        BY <2>1, <3>2
      <4> QED
        BY <1>4, <2>3, <3>2, <4>1 DEF StoresInv, LogRight, Puts
    <3> QED
      BY <2>1, <3>1, <3>2
  <2>5. LogRight'
    BY <2>4 DEF LogRight
  <2>6. Synced'
    BY <1>4, <2>1 DEF StoresInv, Synced, Puts
  <2> QED
    BY <1>2, <1>4, <2>2, <2>5, <2>6 DEF StoresInv
<1> QED
  BY <1>3, <1>4

LEMMA ReplicateKept ==
  ASSUME TypeInv, StoresInv, Replicate("openfga") PROVE StoresInv'
<1>1. /\ 1 \in Entries /\ UNCHANGED <<primary, ids>>
      /\ \A i \in Entries' : i + 1 \in Entries /\ i \in Nat /\ Entry(i)' = Entry(i + 1)
      /\ \A i \in Entries \ {1} : /\ i - 1 \in Entries' /\ i \in Nat
                                  /\ Entry(i - 1)' = Entry(i)
  BY ReplicateShifts
<1>2. replica' = IF Entry(1).change = "put" THEN replica \cup {Entry(1).tuple}
                                            ELSE replica \ {Entry(1).tuple}
  BY ReplicateShifts
<1>3. HasReplica /\ LogRight /\ Synced /\ Numbered
  BY <1>1 DEF StoresInv
<1>4. Known' \subseteq Known
  BY <1>1, <1>2 DEF Known
<1>5. Numbered'
  BY <1>1, <1>3, <1>4 DEF Numbered
<1>6. ASSUME NEW i \in Entries'
      PROVE  IF Entry(i)'.change = "delete"
             THEN Entry(i)'.tuple \notin primary'
             ELSE \/ Entry(i)'.tuple \in primary'
                  \/ \E j \in Entries' : j > i /\ Entry(j)'.tuple = Entry(i)'.tuple
  <2>1. i + 1 \in Entries /\ i \in Nat /\ Entry(i)' = Entry(i + 1)
    BY <1>1
  <2>2. CASE /\ Entry(i + 1).change # "delete"
             /\ Entry(i + 1).tuple \notin primary
    <3>1. PICK j \in Entries : j > i + 1 /\ Entry(j).tuple = Entry(i + 1).tuple
      BY <1>3, <2>1, <2>2 DEF LogRight
    <3>2. j # 1 /\ j \in Nat
      BY <2>1, <3>1, EntryType
    <3>3. j - 1 \in Entries' /\ Entry(j - 1)' = Entry(j) /\ j - 1 > i
      BY <1>1, <2>1, <3>1, <3>2
    <3> QED
      BY <2>1, <2>2, <3>1, <3>3
  <2>3. CASE ~(/\ Entry(i + 1).change # "delete"
               /\ Entry(i + 1).tuple \notin primary)
    BY <1>1, <1>3, <2>1, <2>3 DEF LogRight
  <2> QED
    BY <2>2, <2>3
<1>7. ASSUME NEW t \in primary' \cup replica'
      PROVE  \/ t \in primary' /\ t \in replica'
             \/ \E i \in Entries' : Entry(i)'.tuple = t
  <2>1. CASE t = Entry(1).tuple
    <3>1. CASE t \in primary
      <4>1. Entry(1).change # "delete"
        BY <1>1, <1>3, <2>1, <3>1 DEF LogRight
      <4>2. Entry(1).change = "put"
        BY <1>1, <4>1, EntryType DEF LogEntry
      <4> QED
        BY <1>1, <1>2, <2>1, <3>1, <4>2
    <3>2. CASE t \notin primary
      <4>1. Entry(1).change # "delete"
        BY <1>1, <1>2, <2>1, <3>2, EntryType DEF LogEntry
      <4>2. PICK j \in Entries : j > 1 /\ Entry(j).tuple = t
        BY <1>1, <1>3, <2>1, <3>2, <4>1 DEF LogRight
      <4>3. j - 1 \in Entries' /\ Entry(j - 1)' = Entry(j)
        BY <1>1, <4>2, EntryType
      <4> QED
        BY <4>2, <4>3
    <3> QED
      BY <3>1, <3>2
  <2>2. CASE t # Entry(1).tuple
    <3>1. t \in primary \cup replica /\ (t \in replica => t \in replica')
      BY <1>1, <1>2, <2>2
    <3>2. CASE t \in primary /\ t \in replica
      BY <1>1, <3>1, <3>2
    <3>3. CASE \E i \in Entries : Entry(i).tuple = t
      <4>1. PICK i \in Entries : Entry(i).tuple = t
        BY <3>3
      <4>2. i - 1 \in Entries' /\ Entry(i - 1)' = Entry(i)
        BY <1>1, <2>2, <4>1
      <4> QED
        BY <4>1, <4>2
    <3> QED
      BY <1>3, <3>1, <3>2, <3>3 DEF Synced
  <2> QED
    BY <2>1, <2>2
<1>8. LogRight'
  BY <1>6 DEF LogRight
<1>9. Synced'
  BY <1>7 DEF Synced
<1> QED
  BY <1>3, <1>5, <1>8, <1>9 DEF StoresInv
\* Every step leaves the stores as they are, deletes a tuple, puts a new one,
\* or lets the replica catch up.
LEMMA StoresMove ==
  ASSUME TypeInv, [Next]_vars
  PROVE  \/ SameStores
         \/ \E t : Deletes(t)
         \/ \E new : Puts(new)
         \/ Replicate("openfga")
<1>1. ASSUME UNCHANGED stores PROVE SameStores
  BY <1>1 DEF stores, SameStores, Entries, Entry
<1>2. ASSUME UNCHANGED <<primary, replica, ids>>, wal'["openfga"] = wal["openfga"]
      PROVE  SameStores
  BY <1>2 DEF SameStores, Entries, Entry
<1>3. CASE UNCHANGED vars
  BY <1>1, <1>3 DEF vars
<1>4. ASSUME NEW r \in Requests,
             Change(r) \/ Mark(r) \/ Ask(r) \/ Read(r) \/ List(r) \/ ReadPage(r)
               \/ Finish(r) \/ Abort(r)
      PROVE  SameStores
  BY <1>1, <1>4 DEF Change, Mark, Ask, Read, List, ReadPage, Finish, Abort
<1>5. ASSUME NEW r \in Requests, DatabaseWrite(r) PROVE SameStores
  BY <1>2, <1>5, DatabaseWriteMoves
<1>6. ASSUME NEW r \in Requests, DeleteRole(r) PROVE SameStores \/ \E t : Deletes(t)
  BY <1>1, <1>6, DeleteRoleMoves DEF Deletes
<1>7. ASSUME NEW r \in Requests, WriteRole(r) PROVE SameStores \/ \E new : Puts(new)
  BY <1>1, <1>7, WriteRoleMoves DEF Puts
<1>8. ASSUME Replicate("database") PROVE SameStores
  BY <1>2, <1>8 DEF Replicate, TypeInv, TypeOK, Stores
<1>9. ASSUME Tick PROVE SameStores
  <2>1. wal'["openfga"] = Older(wal["openfga"]) /\ UNCHANGED <<primary, replica, ids>>
    BY <1>9 DEF Tick, Stores
  <2>2. Entries' = Entries
    BY <2>1 DEF Older, Entries
  <2>3. ASSUME NEW i \in Entries
        PROVE  /\ Entry(i)'.tuple = Entry(i).tuple
               /\ Entry(i)'.change = Entry(i).change
               /\ Entry(i)'.by = Entry(i).by
    <3>1. Entry(i)' = [Entry(i) EXCEPT !.age = @ + 1]
      BY <2>1 DEF Older, Entries, Entry
    <3>2. Entry(i) \in LogEntry("openfga")
      BY EntryType
    <3> QED
      BY <3>1, <3>2 DEF LogEntry
  <2> QED
    BY <2>1, <2>2, <2>3 DEF SameStores
<1> QED
  BY <1>3, <1>4, <1>5, <1>6, <1>7, <1>8, <1>9 DEF Next, Stores

LEMMA StoresStep == TypeInv /\ StoresInv /\ [Next]_vars => StoresInv'
  BY StoresMove, SameStoresKept, DeletesKept, PutsKept, ReplicateKept

LEMMA InitStoresInv == Init => StoresInv
<1> SUFFICES ASSUME Init PROVE StoresInv
  OBVIOUS
<1>1. Entries = {} /\ replica = primary
  BY DEF Init, Entries, Stores
<1>2. Known = primary
  BY <1>1 DEF Known
<1> QED
  BY <1>1, <1>2, FirstTuples DEF StoresInv, Numbered, LogRight, Synced

LEMMA StoresAlways == Spec => [](TypeInv /\ StoresInv)
<1>1. TypeInv /\ StoresInv /\ [Next]_vars => TypeInv' /\ StoresInv'
  BY TypeInvStep, StoresStep
<1> QED
  BY <1>1, InitTypeInv, InitStoresInv, PTL DEF Spec

-----------------------------------------------------------------------------
\* Who has changed a membership sees it changed

\* A user without a mark has nothing in the log: what it has written the
\* replica has applied.
LEMMA UnmarkedApplied ==
  ASSUME TypeInv, PinInv, NEW u, ttl[u] = 0, NEW i \in Entries
  PROVE  Entry(i).by # u
<1>1. Entry(i) \in LogEntry("openfga") /\ "openfga" \in Stores
  BY EntryType DEF Stores
<1>2. Entry(i).age \in 0..Lag["openfga"] /\ Lag["openfga"] \in Nat
  BY <1>1, AclAssumption DEF LogEntry
<1>3. ttl[Entry(i).by] + Entry(i).age > Lag["openfga"]
  BY <1>1 DEF PinInv, PinLogged, Entries, Entry
<1> QED
  BY <1>2, <1>3

\* The two stores agree about a membership the log does not mention.
LEMMA UnloggedAgree ==
  ASSUME StoresInv, HasReplica, NEW mo,
         \A i \in Entries : Key(Entry(i).tuple) # mo
  PROVE  RolesOf(mo, replica) = RolesOf(mo, primary)
<1>1. \A t \in primary \cup replica : Key(t) = mo => t \in primary /\ t \in replica
  BY DEF StoresInv, Synced
<1> QED
  BY <1>1 DEF RolesOf
\* Only a read that has its answer goes from "read" to "done".
LEMMA AnsweredByRead ==
  ASSUME TypeInv, [Next]_vars, NEW r \in Requests, pc[r] = "read", pc'[r] = "done"
  PROVE  Read(r)
<1>1. ASSUME NEW s \in Requests, NEW label, NEW q, Moves(s, label, q)
      PROVE  s = r /\ label = "done"
  BY <1>1 DEF Moves
<1>2. ASSUME NEW s \in Requests, Change(s) \/ Mark(s) \/ DatabaseWrite(s) PROVE FALSE
  BY <1>1, <1>2, ChangeMoves, MarkMoves, DatabaseWriteMoves
<1>3. ASSUME NEW s \in Requests, DeleteRole(s) \/ WriteRole(s) PROVE FALSE
  BY <1>1, <1>3, DeleteRoleMoves, WriteRoleMoves
<1>4. ASSUME NEW s \in Requests, Ask(s) \/ List(s) \/ Finish(s) \/ Abort(s) PROVE FALSE
  BY <1>1, <1>4, AskMoves, ListMoves, EndsMoves
<1>5. ASSUME NEW s \in Requests, ReadPage(s) PROVE FALSE
  BY <1>1, <1>5, ReadPageMoves
<1>6. ASSUME NEW s \in Requests, Read(s) PROVE s = r
  BY <1>1, <1>6, ReadMoves
<1>7. ~UNCHANGED pc
  OBVIOUS
<1>8. ~((\E s \in Stores : Replicate(s)) \/ Tick \/ UNCHANGED vars)
  BY <1>7, OthersMove DEF vars, reqVars
<1> QED
  BY <1>2, <1>3, <1>4, <1>5, <1>6, <1>8 DEF Next

LEMMA OwnChangesStep ==
  ASSUME TypeInv, PinInv, StoresInv, [Next]_vars,
         NEW r \in Requests, pc[r] = "read", pc'[r] = "done",
         \A i \in Entries : Key(Entry(i).tuple) = Key(req'[r]) => Entry(i).by = req[r].ctx
  PROVE  req'[r].answer = Holds(req'[r], primary)
<1> DEFINE u == req[r].ctx
<1>1. PICK label \in {"read", "done"} : \E q :
        /\ Moves(r, label, q) /\ q.op = req[r].op
        /\ label = "done" =>
             /\ Key(q) = Key(req[r]) /\ q.role = req[r].role
             /\ q.answer = Holds(req[r], GetClient(u))
  BY AnsweredByRead, ReadMoves
<1>2. /\ req'[r].op = req[r].op /\ Key(req'[r]) = Key(req[r])
      /\ req'[r].role = req[r].role /\ req'[r].answer = Holds(req[r], GetClient(u))
  BY <1>1 DEF Moves
<1>3. Holds(req'[r], primary) = Holds(req[r], primary)
  BY <1>2 DEF Holds
<1>4. CASE ttl[u] > 0 \/ ~HasReplica
  BY <1>2, <1>3, <1>4 DEF GetClient
<1>5. CASE HasReplica /\ ttl[u] = 0
  <2>1. \A i \in Entries : Key(Entry(i).tuple) # Key(req[r])
    BY <1>2, <1>5, UnmarkedApplied
  <2>2. RolesOf(Key(req[r]), replica) = RolesOf(Key(req[r]), primary)
    BY <1>5, <2>1, UnloggedAgree
  <2>3. Holds(req[r], replica) = Holds(req[r], primary)
    BY <2>2 DEF Holds
  <2>4. GetClient(u) = replica
    BY <1>5 DEF GetClient
  <2> QED
    BY <1>2, <1>3, <2>3, <2>4
<1>6. ttl[u] \in Nat
  BY ReqType DEF Hand, TypeInv, TypeOK
<1> QED
  BY <1>4, <1>5, <1>6

\* OwnChangesSeen, of CheckOrganizationUserMembership, CheckPermission and
\* GetOrganizationUserMembership: whoever asks, whatever the database's writes
\* of the same user did to the mark.
THEOREM OwnChanges == Spec => OwnChangesSeen
<1>1. Init => PinInv
  BY InitTypeInv DEF Init, PinInv, PinExecuting, PinLogged
<1>2. TypeInv /\ PinInv /\ [Next]_vars => PinInv'
  BY PinStep
<1>3. TypeInv /\ PinInv /\ StoresInv /\ [Next]_vars
        => [\A r \in Requests :
              pc[r] = "read" /\ pc'[r] = "done" =>
                ((\A i \in DOMAIN wal["openfga"] :
                    Key(wal["openfga"][i].tuple) = Key(req'[r])
                      => wal["openfga"][i].by = req[r].ctx)
                 => req'[r].answer = Holds(req'[r], primary))]_vars
  BY OwnChangesStep DEF Entries, Entry
<1> QED
  BY <1>1, <1>2, <1>3, StoresAlways, PTL DEF Spec, OwnChangesSeen
-----------------------------------------------------------------------------
\* Listings in pages

NoneTwice(q) == \A i, j \in DOMAIN q.got : q.got[i] = q.got[j] => i = j

Got(q, t) == \E i \in DOMAIN q.got : q.got[i] = t

\* What a listing has got it got once, in the order of the numbers, and of what
\* it is to get it has all up to its continuation token.
ListingAt(label, q) ==
  /\ NoneTwice(q)
  /\ label = "page" => q.op \in ListOps
  /\ label \in {"page", "done"} /\ q.op \in ListOps =>
       \A t \in q.steady : /\ t.id <= ids /\ t \in Selected(q, q.steady)
                           /\ t \in primary => t \in replica
  /\ label = "page" =>
       /\ \A i \in DOMAIN q.got : q.got[i].id < q.token
       /\ \A t \in q.steady \cap primary : t.id < q.token => Got(q, t)
  /\ label = "done" /\ q.op \in ListOps =>
       \A t \in q.steady \cap primary : Got(q, t)

ListInv == \A r \in Requests : ListingAt(pc[r], req[r])

\* Nothing comes to be steady: the primary gets no tuple again that it has
\* lost, and the replica loses none that the primary has.
StoresAge ==
  /\ ids' \in Nat /\ ids <= ids'
  /\ \A t \in primary' : t \in primary \/ t.id > ids
  /\ \A t \in primary' : t \in replica => t \in replica'

LEMMA StoresAgeStep == TypeInv /\ StoresInv /\ [Next]_vars => StoresAge
<1> SUFFICES ASSUME TypeInv, StoresInv, [Next]_vars PROVE StoresAge
  OBVIOUS
<1>1. ids \in Nat
  BY KnownStored
<1>2. CASE SameStores
  BY <1>1, <1>2 DEF SameStores, StoresAge
<1>3. ASSUME NEW t, Deletes(t) PROVE StoresAge
  BY <1>1, <1>3 DEF Deletes, StoresAge
<1>4. ASSUME NEW new, Puts(new) PROVE StoresAge
  BY <1>1, <1>4 DEF Puts, StoresAge
<1>5. CASE Replicate("openfga")
  <2>1. /\ 1 \in Entries /\ UNCHANGED <<primary, ids>>
        /\ replica' = IF Entry(1).change = "put" THEN replica \cup {Entry(1).tuple}
                                                 ELSE replica \ {Entry(1).tuple}
    BY <1>5, ReplicateShifts
  <2>2. Entry(1).change = "put" \/ Entry(1).change = "delete"
    BY <2>1, EntryType DEF LogEntry
  <2>3. Entry(1).change = "delete" => Entry(1).tuple \notin primary
    BY <2>1 DEF StoresInv, LogRight
  <2> QED
    BY <1>1, <2>1, <2>2, <2>3 DEF StoresAge
<1> QED
  BY <1>2, <1>3, <1>4, <1>5, StoresMove

\* A listing that goes on somewhere else.
LEMMA ListingKept ==
  ASSUME TypeInv, StoresAge, NEW r \in Requests, ListingAt(pc[r], req[r]),
         pc'[r] = pc[r], SameBut(req'[r], req[r])
  PROVE  ListingAt(pc[r], req[r])'
<1> DEFINE p == req[r]
           q == req'[r]
<1>1. /\ q.op = p.op /\ q.org = p.org /\ q.member = p.member
      /\ q.steady = p.steady /\ q.got = p.got /\ q.token = p.token
  BY DEF SameBut
<1>2. p.steady \subseteq Stored
  BY ReqType DEF Request
<1>3. ASSUME NEW t \in p.steady, t.id <= ids, t \in primary'
      PROVE  t \in primary /\ (t \in replica => t \in replica')
  <2>1. t.id \in Nat /\ ids \in Nat
    BY <1>2, KnownStored DEF Stored
  <2> QED
    BY <1>3, <2>1 DEF StoresAge
<1>4. ASSUME NEW t \in p.steady, t.id <= ids PROVE t.id <= ids'
  BY <1>2, <1>4, KnownStored DEF Stored, StoresAge
<1>5. Selected(q, q.steady) = Selected(p, p.steady)
  BY <1>1 DEF Selected
<1>6. NoneTwice(q) /\ (pc[r] = "page" => q.op \in ListOps)
  BY <1>1 DEF ListingAt, NoneTwice
<1>7. ASSUME pc[r] \in {"page", "done"}, q.op \in ListOps, NEW t \in q.steady
      PROVE  /\ t.id <= ids' /\ t \in Selected(q, q.steady)
             /\ t \in primary' => t \in primary /\ t \in replica'
  BY <1>1, <1>3, <1>4, <1>5, <1>7 DEF ListingAt
<1>8. ASSUME pc[r] = "page"
      PROVE  /\ \A i \in DOMAIN q.got : q.got[i].id < q.token
             /\ \A t \in q.steady \cap primary' : t.id < q.token => Got(q, t)
  BY <1>1, <1>6, <1>7, <1>8 DEF ListingAt, Got
<1>9. ASSUME pc[r] = "done", q.op \in ListOps
      PROVE  \A t \in q.steady \cap primary' : Got(q, t)
  BY <1>1, <1>7, <1>9 DEF ListingAt, Got
<1> QED
  BY <1>6, <1>7, <1>8, <1>9 DEF ListingAt

\* A request that is not a listing and has got nothing.
LEMMA NoListing ==
  ASSUME NEW r \in Requests, NEW label, NEW q, Moves(r, label, q),
         label # "page", label = "done" => q.op \notin ListOps, NoneTwice(q)
  PROVE  ListingAt(pc[r], req[r])'
  BY DEF Moves, ListingAt

LEMMA QuietList ==
  ASSUME TypeInv, StoresAge, ListInv, NEW r \in Requests, NEW label, NEW q,
         Moves(r, label, q), ListingAt(pc[r], req[r])'
  PROVE  ListInv'
<1>1. ASSUME NEW s \in Requests, s # r PROVE ListingAt(pc[s], req[s])'
  BY <1>1, ListingKept DEF Moves, ListInv
<1> QED
  BY <1>1 DEF ListInv
\* Only a page adds to what a request has got.
LEMMA GotKept ==
  ASSUME TypeInv, NEW r \in Requests, NoneTwice(req[r]),
         Change(r) \/ Mark(r) \/ DatabaseWrite(r) \/ DeleteRole(r) \/ WriteRole(r)
           \/ Ask(r) \/ Read(r) \/ Finish(r) \/ Abort(r)
  PROVE  NoneTwice(req'[r])
<1> DEFINE p == req[r]
<1>1. p \in Request /\ req \in [Requests -> Request]
  BY ReqType DEF TypeInv, TypeOK
<1>2. NoReq.got = <<>>
  BY DEF NoReq
<1>3. ASSUME req'[r].got \in {p.got, <<>>} PROVE NoneTwice(req'[r])
  BY <1>3 DEF NoneTwice
<1>4. ASSUME NEW label, NEW q, Become(r, label, q) PROVE req'[r] = q
  BY <1>1, <1>4 DEF Become
<1>5. ASSUME NEW q, Touched(r, q) PROVE req'[r] = q
  BY <1>5 DEF Touched
<1>6. CASE Change(r)
  <2>1. PICK op \in SetOps \cup {"database"}, u \in Users, mo \in Membership,
             role \in RoleNames :
          Become(r, "mark",
                 IF op = "database" THEN [NoReq EXCEPT !.op = op, !.ctx = u]
                 ELSE [NoReq EXCEPT !.op = op, !.ctx = u, !.member = mo[1],
                                    !.org = mo[2], !.role = role])
    BY <1>6 DEF Change
  <2> DEFINE q == IF op = "database" THEN [NoReq EXCEPT !.op = op, !.ctx = u]
                  ELSE [NoReq EXCEPT !.op = op, !.ctx = u, !.member = mo[1],
                                     !.org = mo[2], !.role = role]
  <2>2. q.got = <<>> /\ Become(r, "mark", q)
    BY <2>1 DEF NoReq
  <2> HIDE DEF q
  <2> QED
    BY <1>3, <1>4, <2>2
<1>7. CASE Ask(r)
  <2>1. PICK op \in ReadOps, u \in Users, mo \in Membership, role \in RoleNames,
             code \in Codes \cup {None} :
          Become(r, "read", [NoReq EXCEPT !.op = op, !.ctx = u, !.member = mo[1],
                                          !.org = mo[2], !.role = role, !.code = code])
    BY <1>7 DEF Ask
  <2> DEFINE q == [NoReq EXCEPT !.op = op, !.ctx = u, !.member = mo[1],
                                !.org = mo[2], !.role = role, !.code = code]
  <2>2. q.got = <<>> /\ Become(r, "read", q)
    BY <2>1 DEF NoReq
  <2> HIDE DEF q
  <2> QED
    BY <1>3, <1>4, <2>2
<1>8. CASE Mark(r)
  <2>1. [p EXCEPT !.age = 0].got = p.got
    BY <1>1 DEF Request
  <2>2. req'[r] = [p EXCEPT !.age = 0]
    BY <1>4, <1>8 DEF Mark
  <2> QED
    BY <1>3, <2>1, <2>2
<1>9. CASE DatabaseWrite(r)
  BY <1>9 DEF DatabaseWrite
<1>10. CASE DeleteRole(r)
  <2> DEFINE next  == [p EXCEPT !.i = p.i + 1, !.age = 0]
             apart == [next EXCEPT !.alone = FALSE]
  <2>1. next.got = p.got /\ apart.got = p.got
    BY <1>1 DEF Request
  <2>2. Touched(r, next) \/ Touched(r, apart)
    BY <1>10 DEF DeleteRole
  <2> HIDE DEF next, apart
  <2> QED
    BY <1>3, <1>5, <2>1, <2>2
<1>11. CASE WriteRole(r)
  <2>1. [p EXCEPT !.age = 0].got = p.got
    BY <1>1 DEF Request
  <2>2. Touched(r, [p EXCEPT !.age = 0]) \/ Become(r, "failed", NoReq)
    BY <1>11 DEF WriteRole
  <2> QED
    BY <1>2, <1>3, <1>4, <1>5, <2>1, <2>2
<1>12. CASE Read(r)
  <2> DEFINE holds == Holds(p, GetClient(p.ctx))
             again == [p EXCEPT !.member = p.code, !.code = None]
             done  == [p EXCEPT !.answer = holds]
  <2>1. again.got = p.got /\ done.got = p.got
    BY <1>1 DEF Request
  <2>2. Become(r, "read", again) \/ Become(r, "done", done)
    BY <1>12 DEF Read
  <2> HIDE DEF again, done
  <2> QED
    BY <1>3, <1>4, <2>1, <2>2
<1>13. CASE Finish(r) \/ Abort(r)
  BY <1>2, <1>3, <1>4, <1>13 DEF Finish, Abort
<1> QED
  BY <1>6, <1>7, <1>8, <1>9, <1>10, <1>11, <1>12, <1>13

\* A page adds the first tuple of the rest, which nothing before it was, and
\* takes the token on to the next.
LEMMA ReadPageList ==
  ASSUME TypeInv, StoresInv, StoresAge, ListInv, NEW r \in Requests, ReadPage(r)
  PROVE  ListInv'
<1> DEFINE p    == req[r]
           rest == Rest(p, GetClient(p.ctx))
<1>1. /\ p \in Request /\ ListingAt("page", p) /\ UNCHANGED <<primary, replica, ids>>
      /\ p.token \in Nat /\ p.got \in Seq(Stored) /\ p.steady \subseteq Stored
  BY ReqType, ReadPageMoves DEF ListInv, stores, Request
<1>2. rest \subseteq Known /\ \A t \in rest : t.id \in Nat /\ t.id >= p.token
  BY KnownStored DEF Rest, Selected, GetClient, Known
<1>3. ASSUME NEW t \in p.steady, t \in primary, t.id >= p.token PROVE t \in rest
  <2>1. t \in GetClient(p.ctx) /\ t \in Selected(p, p.steady)
    BY <1>1, <1>3 DEF ListingAt, GetClient
  <2> QED
    BY <1>3, <2>1 DEF Rest, Selected
<1>4. \A t \in p.steady : t.id \in Nat
  BY <1>1 DEF Stored
<1>5. ASSUME NEW t \in rest, NEW q, Pages(q, p, t)
      PROVE  /\ NoneTwice(q) /\ Got(q, t) /\ \A x : Got(p, x) => Got(q, x)
             /\ \A i \in DOMAIN q.got : q.got[i] = t \/ q.got[i].id < p.token
             /\ \A x \in q.steady : /\ x.id <= ids /\ x \in Selected(q, q.steady)
                                    /\ x \in primary => x \in replica
             /\ q.op \in ListOps /\ q.steady = p.steady
  <2> DEFINE n == Len(p.got) + 1
  <2>1. /\ q.got = Append(p.got, t) /\ DOMAIN q.got = 1..n /\ DOMAIN p.got = 1..(n - 1)
        /\ n \in Nat /\ q.got[n] = t /\ \A i \in 1..(n - 1) : q.got[i] = p.got[i]
    BY <1>1, <1>5 DEF Pages
  <2>2. \A i \in 1..(n - 1) : p.got[i].id < p.token /\ p.got[i] # t
    BY <1>1, <1>2, <2>1 DEF ListingAt
  <2>3. NoneTwice(p)
    BY <1>1 DEF ListingAt
  <2> HIDE DEF n
  <2>4. \A i \in 1..n : i = n \/ i \in 1..(n - 1)
    BY <2>1
  <2>5. NoneTwice(q)
    BY <2>1, <2>2, <2>3, <2>4 DEF NoneTwice
  <2>6. n \in 1..n /\ 1..(n - 1) \subseteq 1..n
    <3>1. n # 0
      BY <1>1 DEF n
    <3> QED
      BY <2>1, <3>1
  <2>7. Got(q, t) /\ \A x : Got(p, x) => Got(q, x)
    BY <2>1, <2>6 DEF Got
  <2>8. \A i \in DOMAIN q.got : q.got[i] = t \/ q.got[i].id < p.token
    BY <2>1, <2>2, <2>4
  <2>9. /\ q.steady = p.steady /\ q.op = p.op /\ p.op \in ListOps
        /\ Selected(q, q.steady) = Selected(p, p.steady)
    BY <1>1, <1>5 DEF Pages, ListingAt, Selected
  <2> QED
    BY <1>1, <2>5, <2>7, <2>8, <2>9 DEF ListingAt
<1>6. CASE rest = {} /\ Moves(r, "done", p)
  <2>1. \A t \in p.steady \cap primary : Got(p, t)
    BY <1>1, <1>3, <1>4, <1>6 DEF ListingAt
  <2>2. ListingAt("done", p)
    BY <1>1, <2>1 DEF ListingAt
  <2>3. ListingAt(pc[r], req[r])'
    BY <1>1, <1>6, <2>2 DEF Moves, ListingAt
  <2> QED
    BY <1>6, <2>3, QuietList
<1>7. ASSUME NEW t, NEW q, rest = {t}, Moves(r, "done", q), Pages(q, p, t)
      PROVE  ListInv'
  <2>1. ASSUME NEW x \in q.steady, x \in primary PROVE Got(q, x)
    BY <1>1, <1>3, <1>4, <1>5, <1>7, <2>1 DEF ListingAt
  <2>2. ListingAt("done", q)
    BY <1>5, <1>7, <2>1 DEF ListingAt
  <2>3. ListingAt(pc[r], req[r])'
    BY <1>1, <1>7, <2>2 DEF Moves, ListingAt
  <2> QED
    BY <1>7, <2>3, QuietList
<1>8. ASSUME NEW t, NEW next, NEW q, next # t,
             IsFirst(t, rest), IsFirst(next, rest \ {t}),
             Moves(r, "page", q), Pages(q, p, t), q.token = next.id
      PROVE  ListInv'
  <2>1. t \in rest /\ next \in rest /\ t.id \in Nat /\ next.id \in Nat
    BY <1>2, <1>8 DEF IsFirst
  <2>2. t.id < next.id
    <3>1. t.id <= next.id
      BY <1>8, <2>1 DEF IsFirst
    <3>2. t.id # next.id
      BY <1>2, <1>8, <2>1 DEF StoresInv, Numbered
    <3> QED
      BY <2>1, <3>1, <3>2
  <2>3. ASSUME NEW i \in DOMAIN q.got PROVE q.got[i].id < q.token
    <3>1. CASE q.got[i] = t
      BY <1>8, <2>2, <3>1
    <3>2. CASE q.got[i].id < p.token
      <4>1. p.token <= t.id
        BY <1>1, <1>2, <2>1
      <4>2. q.got[i] \in Stored
        <5>1. q.got = Append(p.got, t) /\ t \in Stored
          BY <1>2, <1>8, <2>1, KnownStored DEF Pages
        <5>2. q.got \in Seq(Stored)
          BY <1>1, <5>1
        <5> QED
          BY <5>2
      <4>3. q.got[i].id \in Nat
        BY <4>2 DEF Stored
      <4> QED
        BY <1>1, <1>8, <2>1, <2>2, <3>2, <4>1, <4>3
    <3> QED
      BY <1>5, <1>8, <2>1, <3>1, <3>2
  <2>4. ASSUME NEW x \in q.steady, x \in primary, x.id < q.token PROVE Got(q, x)
    <3>1. x \in p.steady /\ x.id \in Nat
      BY <1>4, <1>5, <1>8, <2>1
    <3>2. CASE x.id < p.token
      BY <1>1, <1>5, <1>8, <2>1, <2>4, <3>1, <3>2 DEF ListingAt
    <3>3. CASE x.id >= p.token
      <4>1. x \in rest
        BY <1>3, <2>4, <3>1, <3>3
      <4>2. x = t
        BY <1>8, <2>1, <2>4, <3>1, <4>1 DEF IsFirst
      <4> QED
        BY <1>5, <1>8, <2>1, <4>2
    <3> QED
      BY <1>1, <3>1, <3>2, <3>3
  <2>5. ListingAt("page", q)
    BY <1>5, <1>8, <2>1, <2>3, <2>4 DEF ListingAt
  <2>6. ListingAt(pc[r], req[r])'
    BY <1>1, <1>8, <2>5 DEF Moves, ListingAt
  <2> QED
    BY <1>8, <2>6, QuietList
<1> HIDE DEF rest
<1>9. \/ rest = {} /\ Moves(r, "done", p)
      \/ \E t, q : rest = {t} /\ Moves(r, "done", q) /\ Pages(q, p, t)
      \/ \E t, next, q :
           /\ next # t /\ IsFirst(t, rest) /\ IsFirst(next, rest \ {t})
           /\ Moves(r, "page", q) /\ Pages(q, p, t)
           /\ q.token = next.id
  BY ReadPageMoves DEF rest
<1> QED
  BY <1>6, <1>7, <1>8, <1>9
LEMMA ListStep == TypeInv /\ StoresInv /\ ListInv /\ [Next]_vars => ListInv'
<1> SUFFICES ASSUME TypeInv, StoresInv, ListInv, [Next]_vars PROVE ListInv'
  OBVIOUS
<1>0. StoresAge
  BY StoresAgeStep
<1>1. ASSUME UNCHANGED pc, \A r \in Requests : SameBut(req'[r], req[r]) PROVE ListInv'
  BY <1>0, <1>1, ListingKept DEF ListInv
<1>2. CASE UNCHANGED vars
  BY <1>1, <1>2 DEF vars, reqVars, SameBut
<1>3. CASE (\E s \in Stores : Replicate(s)) \/ Tick
  BY <1>1, <1>3, OthersMove
<1>4. ASSUME NEW r \in Requests, NEW label, NEW q, Moves(r, label, q),
             label # "page", label = "done" => q.op \notin ListOps,
             Change(r) \/ Mark(r) \/ DatabaseWrite(r) \/ DeleteRole(r) \/ WriteRole(r)
               \/ Ask(r) \/ Read(r) \/ Finish(r) \/ Abort(r)
      PROVE  ListInv'
  <2>1. NoneTwice(req[r])
    BY DEF ListInv, ListingAt
  <2>2. NoneTwice(q)
    BY <1>4, <2>1, GotKept DEF Moves
  <2>3. ListingAt(pc[r], req[r])'
    BY <1>4, <2>2, NoListing
  <2> QED
    BY <1>0, <1>4, <2>3, QuietList
<1>5. ASSUME NEW r \in Requests, Change(r) \/ Mark(r) PROVE ListInv'
  <2>1. PICK label \in {"mark", "execute"} : \E q : Moves(r, label, q)
    BY <1>5, ChangeMoves, MarkMoves
  <2> QED
    BY <1>4, <1>5, <2>1
<1>6. ASSUME NEW r \in Requests, DatabaseWrite(r) PROVE ListInv'
  <2>1. Moves(r, "done", req[r]) /\ req[r].op \notin ListOps
    BY <1>6, DatabaseWriteMoves DEF ListOps
  <2> QED
    BY <1>4, <1>6, <2>1
<1>7. ASSUME NEW r \in Requests, DeleteRole(r) PROVE ListInv'
  <2>1. PICK label \in {"mark", "done"} : \E q :
          Moves(r, label, q) /\ q.op = req[r].op /\ req[r].op \in SetOps
    BY <1>7, DeleteRoleMoves
  <2> QED
    BY <1>4, <1>7, <2>1 DEF SetOps, ListOps
<1>8. ASSUME NEW r \in Requests, WriteRole(r) PROVE ListInv'
  <2>1. (\E q : Moves(r, "done", q) /\ q.op = "Set") \/ Moves(r, "failed", NoReq)
    BY <1>8, WriteRoleMoves
  <2> QED
    BY <1>4, <1>8, <2>1 DEF ListOps
<1>9. ASSUME NEW r \in Requests, Ask(r) PROVE ListInv'
  BY <1>4, <1>9, AskMoves
<1>10. ASSUME NEW r \in Requests, Read(r) PROVE ListInv'
  <2>1. PICK label \in {"read", "done"} : \E q :
          Moves(r, label, q) /\ q.op = req[r].op /\ req[r].op \in ReadOps
    BY <1>10, ReadMoves
  <2> QED
    BY <1>4, <1>10, <2>1 DEF ReadOps, ListOps
<1>11. ASSUME NEW r \in Requests, List(r) PROVE ListInv'
  <2>1. UNCHANGED stores
    BY <1>11, ListMoves
  <2>2. PICK q : /\ Moves(r, "page", q) /\ q \in Request /\ q.op \in ListOps
                 /\ q.got = <<>> /\ q.token = 0
                 /\ q.steady = Selected(q, primary \cap replica)
    BY <1>11, ListMoves
  <2>3. \A t \in primary : t.id <= ids /\ t.id \in Nat
    BY KnownStored DEF StoresInv, Numbered, Known
  <2>4. \A t \in q.steady : /\ t.id <= ids /\ t \in Selected(q, q.steady)
                            /\ t \in replica /\ t.id \in Nat
    BY <2>2, <2>3 DEF Selected
  <2>5. ListingAt("page", q)
    <3>1. DOMAIN q.got = {}
      BY <2>2
    <3>2. NoneTwice(q)
      BY <3>1 DEF NoneTwice
    <3>3. \A t \in q.steady : ~(t.id < q.token)
      <4>1. q.token = 0
        BY <2>2
      <4>2. \A n \in Nat : ~(n < 0)
        OBVIOUS
      <4> QED
        BY <2>4, <4>1, <4>2
    <3> QED
      BY <2>2, <2>4, <3>1, <3>2, <3>3 DEF ListingAt
  <2>6. ListingAt(pc[r], req[r])'
    BY <2>1, <2>2, <2>5 DEF Moves, ListingAt, stores
  <2> QED
    BY <1>0, <2>2, <2>6, QuietList
<1>12. ASSUME NEW r \in Requests, Finish(r) \/ Abort(r) PROVE ListInv'
  BY <1>4, <1>12, EndsMoves
<1> QED
  BY <1>0, <1>2, <1>3, <1>5, <1>6, <1>7, <1>8, <1>9, <1>10, <1>11, <1>12,
     ReadPageList DEF Next

\* ListingExact, of GetOrganizationUsers and GetUserOrganizations: for any
\* number of tuples, and pages that come from the two stores in any order while
\* roles are changed.
THEOREM ListingComplete == Spec => []ListingExact
<1>1. Init => ListInv
  BY DEF Init, NoReq, ListInv, ListingAt, NoneTwice
<1>2. TypeInv /\ StoresInv /\ ListInv /\ [Next]_vars => ListInv'
  BY ListStep
<1>3. ListInv => ListingExact
  BY DEF ListInv, ListingAt, NoneTwice, Got, ListingExact
<1> QED
  BY <1>1, <1>2, <1>3, StoresAlways, PTL DEF Spec
=============================================================================
