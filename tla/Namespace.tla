----------------------------- MODULE Namespace -----------------------------
(***************************************************************************)
(* The namespace checks (pkg/handler/publichandler.go and                  *)
(* privatehandler.go) as operators on the ids that are taken.  An id is a  *)
(* sequence of the characters that matter: dashes, underscores, letters.   *)
(***************************************************************************)
EXTENDS Naturals, Sequences

Dash == "-"
Bar  == "_"

Has(id, c) == \E i \in DOMAIN id : id[i] = c

Swap(id, from, to) == [i \in DOMAIN id |-> IF id[i] = from THEN to ELSE id[i]]

\* A mutant of Variant: only dashes are swapped.
VariantOfDash(id) == IF Has(id, Dash) THEN Swap(id, Dash, Bar) ELSE <<>>

\* getSanitizedNamespaceVariant; an id with both gets no dash.
Variant(id) ==
  IF Has(id, Dash) THEN Swap(id, Dash, Bar)
  ELSE IF Has(id, Bar) THEN Swap(id, Bar, Dash)
  ELSE <<>>

\* GetUserAdmin finds the id unless nobody has it, or its look-up fails.
Finds(id, taken, failing) == id \in taken \ failing

CheckNamespace(id, taken, failing) ==
  IF Finds(id, taken, failing) THEN "USER"
  ELSE IF Variant(id) # <<>> /\ Finds(Variant(id), taken, failing) THEN "RESERVED"
  ELSE "AVAILABLE"

\* CheckResourceID of the library: an id begins with a letter or underscore.
ValidID(id) == id # <<>> /\ id[1] # Dash

\* A mutant of CheckNamespaceAdmin: the variant is not looked for.
CheckNamespaceAdminExact(id, taken, failing) ==
  IF ~ValidID(id) THEN "INVALID"
  ELSE IF Finds(id, taken, failing) THEN "USER" ELSE "AVAILABLE"

CheckNamespaceAdmin(id, taken, failing) ==
  IF ~ValidID(id) THEN "INVALID"
  ELSE IF Finds(id, taken, failing) THEN "USER"
  ELSE IF Variant(id) # <<>> /\ Finds(Variant(id), taken, failing) THEN "RESERVED"
  ELSE "AVAILABLE"

-----------------------------------------------------------------------------
\* Properties of a check

\* What ids are normalized to internally, according to publichandler.go:271.
Normal(id) == Swap(id, Dash, Bar)

IsMixed(id) == Has(id, Dash) /\ Has(id, Bar)

\* publichandler.go:261-288: an id that is available collides with none that is
\* taken once both are normalized, unless a look-up failed or one of the two
\* has both dashes and underscores.
AvailableIsFree(id, taken, failing) ==
  CheckNamespace(id, taken, failing) = "AVAILABLE"
    => \A other \in taken \ failing :
         Normal(other) = Normal(id) => IsMixed(other) \/ IsMixed(id)

\* publichandler.go:262 and privatehandler.go:166: the two handlers agree on
\* every id the private one does not refuse.
ChecksAgree(id, taken, failing) ==
  CheckNamespaceAdmin(id, taken, failing)
    \in {"INVALID", CheckNamespace(id, taken, failing)}
=============================================================================
