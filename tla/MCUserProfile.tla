--------------------------- MODULE MCUserProfile ---------------------------
(***************************************************************************)
(* Small instances of UserProfile for TLC.                                 *)
(***************************************************************************)
EXTENDS UserProfile, TLC

\* Request slots are interchangeable.
Symmetry == Permutations(Requests) \cup Permutations(Registered)
=============================================================================
