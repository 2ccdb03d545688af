---------------------------- MODULE MCMigration ----------------------------
(***************************************************************************)
(* Small instances of Migration for TLC.                                   *)
(***************************************************************************)
EXTENDS Migration

Deployed(v, n, b) == [version |-> v, stores |-> n, replica |-> b]

\* An empty database; an older release with a store it does not record; the
\* release before this one, with one recorded store, and with two.  With a
\* replica, or without.
MCDeployments ==
  {Deployed(d[1], d[2], b) : d \in {<<0, 0>>, <<4, 1>>, <<6, 1>>, <<6, 2>>}, b \in BOOLEAN}
=============================================================================
