--------------------------- MODULE TokenAuthority ---------------------------
(***************************************************************************)
(* What the token endpoints promise, without caches, replicas, Redis and   *)
(* interleaved calls: an access token is issued to one user, once; it is   *)
(* accepted, as that user, only at an instant at which it has been issued  *)
(* and not revoked; once revoked it never works again.                     *)
(***************************************************************************)
CONSTANTS Users, NoUser, AccessTokens, NoToken, Requests

VARIABLES
  owner,    \* whose token each access token is now, or NoUser
  spent,    \* the access tokens that have ever been issued
  verdict   \* what each validation in course has decided, or Undecided

vars == <<owner, spent, verdict>>

Undecided == [at |-> NoToken, uid |-> NoUser]

Init ==
  /\ owner = [at \in AccessTokens |-> NoUser]
  /\ spent = {}
  /\ verdict = [r \in Requests |-> Undecided]

Issue(at, u) ==
  /\ at \notin spent
  /\ spent' = spent \cup {at}
  /\ owner' = [owner EXCEPT ![at] = u]
  /\ UNCHANGED verdict

Revoke(at) ==
  /\ owner[at] # NoUser
  /\ owner' = [owner EXCEPT ![at] = NoUser]
  /\ UNCHANGED <<spent, verdict>>

\* The instant at which a validation takes effect.
Accept(r, at) ==
  /\ verdict[r] = Undecided
  /\ owner[at] # NoUser
  /\ verdict' = [verdict EXCEPT ![r] = [at |-> at, uid |-> owner[at]]]
  /\ UNCHANGED <<owner, spent>>

\* The validation is answered, or gives up after all.
Forget(r) ==
  /\ verdict[r] # Undecided
  /\ verdict' = [verdict EXCEPT ![r] = Undecided]
  /\ UNCHANGED <<owner, spent>>

Next ==
  \/ \E at \in AccessTokens :
       \/ \E u \in Users : Issue(at, u)
       \/ Revoke(at)
       \/ \E r \in Requests : Accept(r, at)
  \/ \E r \in Requests : Forget(r)

Spec == Init /\ [][Next]_vars
=============================================================================
