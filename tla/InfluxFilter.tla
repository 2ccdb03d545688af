---------------------------- MODULE InfluxFilter ----------------------------
(***************************************************************************)
(* The translation of filters to Flux (pkg/repository/influx_transpiler.go) *)
(* and the two helpers that look up and replace a comparison in the tree.  *)
(*                                                                         *)
(* As in Filter, a node is the record of what the recursive functions      *)
(* return from it, made of the records of the nodes below it.  The flag    *)
(* found is passed from a node to the next, so that what depends on it is  *)
(* a function of the flag.                                                 *)
(***************************************************************************)
EXTENDS Filter

-----------------------------------------------------------------------------
\* Flux: the parts that "&&" joins; of an identifier or a constant, its text
\* and its type

Fail == [ok |-> FALSE, parts |-> <<>>, text |-> "", type |-> "none"]

Text(text, type) == [ok |-> TRUE, parts |-> <<>>, text |-> text, type |-> type]

Done(parts) == [ok |-> TRUE, parts |-> parts, text |-> "", type |-> "none"]

FluxConst(x) == Text(x.value, "none")

FluxIdent(x) ==
  IF x.declared \notin DOMAIN TypeOf THEN Fail ELSE Text(x.path[1], TypeOf[x.declared])

FluxTimestamp(x) == FluxConst(x)

\* Selections are errors.
FluxTerm(x) ==
  CASE x.kind \in {"string", "number"} -> FluxConst(x)
    [] x.kind = "ident"                -> FluxIdent(x)
    [] x.kind = "select"               -> Fail
    [] x.kind = "timestamp"            -> FluxTimestamp(x)

\* A comparison of a time gives "name@value" whichever the operator is.
FluxComparison(fn, ident, con) ==
  IF ~ident.ok \/ ~con.ok THEN Fail
  ELSE Done(<<[op    |-> IF ident.type = "timestamp" THEN "@" ELSE fn,
               name  |-> ident.text,
               value |-> con.text]>>)

\* Only "x:v" for a repeated x is supported.
FluxHas(x, con) ==
  IF /\ x.kind = "ident" /\ con.kind \in {"string", "number"}
     /\ x.declared \in DOMAIN TypeOf /\ TypeOf[x.declared] = "strings"
  THEN Done(<<[op |-> ":", name |-> x.path[1], value |-> con.value]>>)
  ELSE Fail

\* A mutant of FluxAnd: the right side is written first.
FluxAndSwapped(lhs, rhs) ==
  IF lhs.ok /\ rhs.ok THEN Done(rhs.parts \o lhs.parts) ELSE Fail

FluxAnd(lhs, rhs) ==
  IF lhs.ok /\ rhs.ok THEN Done(lhs.parts \o rhs.parts) ELSE Fail

-----------------------------------------------------------------------------
\* ExtractConstExpr and HijackConstExpr.  Both are depth first; found says that
\* the target was the node before.  What they return goes on being looked for
\* when it is the empty string.

Empty == ""

Names(x, target) == x.kind = "ident" /\ x.path = <<target>>

StringOf(x) == IF x.kind = "string" THEN x.value ELSE Empty

Hit(r) == r.value # Empty /\ r.found

ExtractTerm(x, target) ==
  [found \in BOOLEAN |->
     IF Names(x, target) THEN [value |-> Empty, found |-> TRUE]
     ELSE IF found THEN [value |-> StringOf(x), found |-> TRUE]
     ELSE [value |-> Empty, found |-> FALSE]]

\* The loop over the arguments of a call.  NOT has no second one.
ExtractCall(l, r) ==
  [found \in BOOLEAN |->
     LET first  == l[FALSE]
         second == r[first.found]
     IN  IF found THEN [value |-> Empty, found |-> TRUE]
         ELSE IF Hit(first) THEN first
         ELSE IF Hit(second) THEN second ELSE [value |-> Empty, found |-> FALSE]]

Nothing == [found \in BOOLEAN |-> [value |-> Empty, found |-> FALSE]]

\* A tree is known by its comparisons from left to right, by its Flux, and by
\* what is extracted from it under the new name.  h says what is hijacked: the
\* target, its new name and its new value.
TermTree(x, h) ==
  [leaves |-> <<x>>, flux |-> FluxTerm(x), extract |-> ExtractTerm(x, h.name)]

\* OR and NOT are errors.
CallTree(fn, l, r) ==
  IF fn \in Connectives
  THEN [leaves  |-> l.leaves \o r.leaves,
        flux    |-> IF fn = "AND" THEN FluxAnd(l.flux, r.flux) ELSE Fail,
        extract |-> ExtractCall(l.extract, r.extract)]
  ELSE [leaves  |-> <<Call(fn, l.leaves[1], r.leaves[1])>>,
        flux    |-> IF fn = ":" THEN FluxHas(l.leaves[1], r.leaves[1])
                    ELSE FluxComparison(fn, l.flux, r.flux),
        extract |-> ExtractCall(l.extract, r.extract)]

NotTree(tree) == [tree EXCEPT !.flux = Fail, !.extract = ExtractCall(@, Nothing)]

\* A mutant of Replaced: the value is put, the name is left.
ReplacedKeepsName(x, name) == x

\* The target under its new name, and of its old type.
Replaced(x, name) == [x EXCEPT !.path = <<name>>]

HijackTerm(x, h) ==
  [found \in BOOLEAN |->
     IF Names(x, h.target)
     THEN [tree |-> TermTree(Replaced(x, h.name), h), value |-> Empty, found |-> TRUE]
     ELSE IF found
     THEN [tree |-> TermTree(Const(h.value), h), value |-> h.value, found |-> TRUE]
     ELSE [tree |-> TermTree(x, h), value |-> Empty, found |-> FALSE]]

\* The loop over the arguments, which are changed in place.
HijackCall(fn, l, r, h) ==
  [found \in BOOLEAN |->
     LET first  == l.hijack[FALSE]
         second == r.hijack[first.found]
     IN  IF found
         THEN [tree |-> TermTree(Const(h.value), h), value |-> h.value, found |-> TRUE]
         ELSE IF Hit(first) THEN [first EXCEPT !.tree = CallTree(fn, @, r.tree)]
         ELSE IF Hit(second) THEN [second EXCEPT !.tree = CallTree(fn, first.tree, @)]
         ELSE [tree |-> CallTree(fn, first.tree, second.tree), value |-> Empty, found |-> FALSE]]

HijackNot(node, h) ==
  [found \in BOOLEAN |->
     LET first == node.hijack[FALSE]
     IN  IF found
         THEN [tree |-> TermTree(Const(h.value), h), value |-> h.value, found |-> TRUE]
         ELSE IF Hit(first) THEN [first EXCEPT !.tree = NotTree(@)]
         ELSE [tree |-> NotTree(first.tree), value |-> Empty, found |-> FALSE]]

-----------------------------------------------------------------------------
\* The nodes of a filter: the tree, and what hijacking it gives

TermNode(x, h) == [tree |-> TermTree(x, h), hijack |-> HijackTerm(x, h)]

CallNode(fn, l, r, h) ==
  [tree |-> CallTree(fn, l.tree, r.tree), hijack |-> HijackCall(fn, l, r, h)]

ComparisonNode(e, h) == CallNode(e.fn, TermNode(e.left, h), TermNode(e.right, h), h)

NotNode(node, h) == [tree |-> NotTree(node.tree), hijack |-> HijackNot(node, h)]

-----------------------------------------------------------------------------
\* Properties of a filter

\* The comparisons of a tree that name the target.
Targets(leaves, h) == {i \in DOMAIN leaves : Names(leaves[i].left, h.target)}

\* The new name is new, and the target is on the left of comparisons only.
Hijackable(leaves, h) ==
  \A i \in DOMAIN leaves :
    /\ ~Names(leaves[i].left, h.name) /\ ~Names(leaves[i].right, h.name)
    /\ ~Names(leaves[i].right, h.target)

\* influx_transpiler.go:139-210 and 283-333: HijackConstExpr replaces the first
\* comparison of the target, of a string or a time, and nothing else, in the
\* tree and in the Flux it is translated to; what it puts ExtractConstExpr finds.
HijackedIsExtracted(node, h) ==
  LET before  == node.tree
      after   == node.hijack[FALSE].tree
      targets == Targets(before.leaves, h)
      first   == CHOOSE i \in targets : \A j \in targets : i <= j
  IN  Hijackable(before.leaves, h)
      => IF targets = {} THEN after = before /\ ~node.hijack[FALSE].found
         ELSE /\ after.extract[FALSE] = [value |-> h.value, found |-> TRUE]
              /\ after.leaves = [before.leaves EXCEPT ![first] =
                   Call(@.fn, [@.left EXCEPT !.path = <<h.name>>], Const(h.value))]
              /\ before.flux.ok => after.flux.parts =
                   [before.flux.parts EXCEPT ![first].name = h.name, ![first].value = h.value]
=============================================================================
