----------------------------- MODULE MCApiToken -----------------------------
(***************************************************************************)
(* Small instances of ApiToken for TLC.                                    *)
(***************************************************************************)
EXTENDS ApiToken, TLC

\* Every user, token, id and request slot is like every other.
Symmetry == Permutations(Users) \cup Permutations(AccessTokens)
              \cup Permutations(Requests)
=============================================================================
