------------------------------- MODULE MCAcl -------------------------------
(***************************************************************************)
(* Small instances of Acl for TLC.                                         *)
(***************************************************************************)
EXTENDS Acl, TLC

\* Request slots are interchangeable.
Symmetry == Permutations(Requests)

\* The loop of the code has six roles; two make every case of it happen.
MCRoles == <<"owner", "member">>

\* One tick for a write, one for a replica: the frames have to be longer.
MCFrame == [s \in Stores |-> 3]
MCLag   == [s \in Stores |-> 1]
=============================================================================
