----------------------------- MODULE MCListing -----------------------------
(***************************************************************************)
(* Small instances of Listing for TLC.                                     *)
(***************************************************************************)
EXTENDS Listing

\* Three rows; the order of the ids is not that of the UIDs.
MCIdRank == [x \in Uids |-> IF x = 1 THEN 3 ELSE IF x = 3 THEN 1 ELSE x]

\* No filter, and one that does not select the row with the least UID.
MCFilters == {Uids, Uids \ {1}}
=============================================================================
