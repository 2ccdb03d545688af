------------------------------- MODULE Filter -------------------------------
(***************************************************************************)
(* The translation of AIP-160 filters to SQL (pkg/repository/transpiler.go) *)
(* and what the SQL it writes selects.                                     *)
(*                                                                         *)
(* The code descends an expression tree and returns from each node what    *)
(* it makes of it.  Here a node is the record of that, computed from the   *)
(* records of the nodes below it in the order in which the code returns:   *)
(* Compared makes one of a comparison, Joined and Negated of connectives.  *)
(*                                                                         *)
(* SQL is a sequence of tokens.  The strings within a token (quotes, the   *)
(* snake case and the table of identifiers, LOWER and CONCAT) are left     *)
(* out: a predicate is a token that says what is compared and whether it   *)
(* has a placeholder.                                                      *)
(***************************************************************************)
EXTENDS Naturals, Sequences, FiniteSets, SequencesExt

CONSTANTS
  TypeOf,  \* the type of each declared identifier: "string", "strings" (a
           \* repeated one), "timestamp" or "struct"
  Times    \* the strings time.Parse takes

-----------------------------------------------------------------------------
\* Comparisons, as the library that parses and checks filters builds them.  The
\* path of a selection starts with its identifier.  The type of an identifier
\* goes with its node, not with its name.

Ident(n)     == [kind |-> "ident", path |-> <<n>>, declared |-> n, value |-> ""]
Select(x, f) == [x EXCEPT !.kind = "select", !.path = Append(@, f)]
Const(v)     == [kind |-> "string", path |-> <<>>, declared |-> "", value |-> v]
Number(v)    == [Const(v) EXCEPT !.kind = "number"]
Timestamp(v) == [Const(v) EXCEPT !.kind = "timestamp"]  \* the call timestamp("v")

Call(fn, left, right) == [fn |-> fn, left |-> left, right |-> right]

Comparisons == {"=", "!=", "<", "<=", ">", ">="}

IsTerm(x) ==
  /\ x \in [kind : {"ident", "select", "string", "number", "timestamp"},
            path : Seq(STRING), declared : STRING, value : STRING]
  /\ x.kind = "ident" => Len(x.path) = 1
  /\ x.kind = "select" => Len(x.path) > 1
  /\ x.kind \notin {"ident", "select"} => x.path = <<>>

IsComparison(e) ==
  /\ e = Call(e.fn, e.left, e.right)
  /\ e.fn \in Comparisons \cup {":"} /\ IsTerm(e.left) /\ IsTerm(e.right)

-----------------------------------------------------------------------------
\* What a translation returns: the fields SQL and Vars of clause.Expr, an
\* error, or a panic

Error == [status |-> "error", sql |-> <<>>, vars |-> <<>>]
Panic == [status |-> "panic", sql |-> <<>>, vars |-> <<>>]

Ok(sql, values) == [status |-> "ok", sql |-> sql, vars |-> values]

Word(w)        == [word |-> w, name |-> <<>>]
Pred(op, name) == [word |-> op, name |-> name]

Connectives == {"NOT", "AND", "OR"}

\* The value of a placeholder.  The pattern for a field of a field names the
\* field, too.
Var(v)             == [path |-> <<>>, value |-> v]
FieldVar(field, v) == [path |-> <<field>>, value |-> v]

\* The name in the SQL of an identifier or selection; constants have no SQL.
NameOf(r) == IF r.sql = <<>> THEN <<>> ELSE r.sql[1].name

TranspileConst(x) == Ok(<<>>, <<Var(x.value)>>)

TranspileIdent(x) ==
  IF x.declared \notin DOMAIN TypeOf THEN Error
  ELSE Ok(<<Pred("ident", <<x.path[1]>>)>>, <<>>)

\* Each field is appended to the SQL of the operand.
TranspileSelect(x, operand) ==
  IF operand.status # "ok" THEN operand
  ELSE Ok(<<Pred("ident", NameOf(operand) \o Tail(x.path))>>, <<>>)

TranspileTimestamp(x) == IF x.value \in Times THEN TranspileConst(x) ELSE Error

TranspileTerm(x) ==
  CASE x.kind \in {"string", "number"} -> TranspileConst(x)
    [] x.kind = "ident"                -> TranspileIdent(x)
    [] x.kind = "select"               -> TranspileSelect(x, TranspileIdent(x))
    [] x.kind = "timestamp"            -> TranspileTimestamp(x)

\* An email or id is looked for with LIKE, and then only the first value of the
\* right side is taken: there is none when that is an identifier.
TranspileComparison(e, ident, con) ==
  IF ident.status # "ok" THEN ident
  ELSE IF con.status # "ok" THEN con
  ELSE IF e.fn = "=" /\ NameOf(ident) \in {<<"email">>, <<"id">>}
       THEN IF con.vars = <<>> THEN Panic
            ELSE Ok(<<Pred("LIKE", NameOf(ident))>>, <<con.vars[1]>>)
  ELSE Ok(<<Pred(e.fn, NameOf(ident))>>, con.vars)

\* "x:v" for a repeated x, "x.f:v", and "x.f.g:v".
TranspileHas(e) ==
  LET x    == e.left
      con  == e.right
      name == NameOf(TranspileTerm(x))
  IN  CASE con.kind \notin {"string", "number"} -> Error
        [] con.kind \in {"string", "number"} /\ x.kind = "ident" ->
             IF x.declared \in DOMAIN TypeOf /\ TypeOf[x.declared] = "strings"
             THEN Ok(<<Pred("ANY", name)>>, <<Var(con.value)>>) ELSE Error
        [] con.kind \in {"string", "number"} /\ x.kind = "select" ->
             IF TranspileTerm(x).status # "ok" THEN Error
             ELSE IF con.kind # "string" THEN Panic
             ELSE IF Len(x.path) = 2
             THEN Ok(<<Pred("JSON", name)>>, <<Var(con.value)>>)
             ELSE Ok(<<Pred("JSON", Front(name))>>, <<FieldVar(Last(name), con.value)>>)
        [] OTHER -> Error

\* transpileCallExpr for what is not a connective.
Transpile(e) ==
  IF e.fn = ":" THEN TranspileHas(e)
  ELSE TranspileComparison(e, TranspileTerm(e.left), TranspileTerm(e.right))

\* A mutant of TranspileLogical: the values of the right side come first.
TranspileLogicalSwapped(fn, lhs, rhs) ==
  IF lhs.status # "ok" THEN lhs
  ELSE IF rhs.status # "ok" THEN rhs
  ELSE Ok(lhs.sql \o <<Word(fn)>> \o rhs.sql, rhs.vars \o lhs.vars)

\* No parentheses are written.
TranspileLogical(fn, lhs, rhs) ==
  IF lhs.status # "ok" THEN lhs
  ELSE IF rhs.status # "ok" THEN rhs
  ELSE Ok(lhs.sql \o <<Word(fn)>> \o rhs.sql, lhs.vars \o rhs.vars)

\* A mutant of TranspileNot: the values are kept.
TranspileNotKeepsVars(operand) ==
  IF operand.status # "ok" THEN operand
  ELSE Ok(<<Word("NOT")>> \o operand.sql, operand.vars)

\* The values of the operand are dropped, its placeholders are not.
TranspileNot(operand) ==
  IF operand.status # "ok" THEN operand
  ELSE Ok(<<Word("NOT")>> \o operand.sql, <<>>)

-----------------------------------------------------------------------------
\* What the SQL selects.  A row is the set of comparisons that hold in it.

Holes(r) == {i \in DOMAIN r.sql : r.sql[i].word \notin Connectives \cup {"ident"}}

\* What PostgreSQL can compare: a column, or a field of one.  The field is text,
\* which has no fields (a ->> 'b' ->> 'c' is refused).
IsColumn(name) == Len(name) \in 1..2

\* A translation that selects nothing, because it failed, because its values do
\* not match its placeholders, or because one of its predicates has no left side
\* or has one that PostgreSQL refuses.
Refused(r) ==
  \/ r.status # "ok"
  \/ Cardinality(Holes(r)) # Len(r.vars)
  \/ \E i \in Holes(r) : ~IsColumn(r.sql[i].name)

\* The comparison at position i: the n-th placeholder gets the n-th value, and
\* LIKE is what "=" is translated to.
Bound(r, i) ==
  LET v == r.vars[Cardinality({h \in Holes(r) : h <= i})]
  IN  [op   |-> CASE r.sql[i].word = "LIKE"            -> "="
                  [] r.sql[i].word \in {"ANY", "JSON"} -> ":"
                  [] OTHER                             -> r.sql[i].word,
       path  |-> r.sql[i].name \o v.path,
       value |-> v.value]

\* Without parentheses, NOT binds tighter than AND, and AND tighter than OR.
Negated(r, i) ==
  LET nots == {j \in 1..(i - 1) : \A k \in j..(i - 1) : r.sql[k].word = "NOT"}
  IN  Cardinality(nots) % 2 = 1

SameTerm(r, i, j) == \A k \in (i..j) \cup (j..i) : r.sql[k].word # "OR"

Selects(r, row) ==
  \E i \in Holes(r) : \A j \in Holes(r) :
    SameTerm(r, i, j) => IF Negated(r, j) THEN Bound(r, j) \notin row ELSE Bound(r, j) \in row

-----------------------------------------------------------------------------
\* The nodes of a filter: what Transpile returns, and what the filter means, as
\* the rows over its own comparisons in which it holds

\* An identifier or selection on the left and a constant or time on the right,
\* as the filters of the docs have it.
IsPlain(e) == e.left.kind \in {"ident", "select"} /\ e.right.kind \notin {"ident", "select"}

Meant(e) == [op |-> e.fn, path |-> e.left.path, value |-> e.right.value]

Atoms(node) == {Meant(node.leaves[i]) : i \in DOMAIN node.leaves}

Compared(e) ==
  [top |-> e.fn, leaves |-> <<e>>, fns |-> {}, mixed |-> FALSE,
   rows |-> {{Meant(e)}}, result |-> Transpile(e)]

\* mixed: an OR right below an AND.  The parser lets OR bind tighter, SQL does not.
Joined(fn, l, r) ==
  [top    |-> fn,
   leaves |-> l.leaves \o r.leaves,
   fns    |-> {fn} \cup l.fns \cup r.fns,
   mixed  |-> l.mixed \/ r.mixed \/ (fn = "AND" /\ "OR" \in {l.top, r.top}),
   rows   |-> {row \in SUBSET (Atoms(l) \cup Atoms(r)) :
                 LET left  == row \cap Atoms(l) \in l.rows
                     right == row \cap Atoms(r) \in r.rows
                 IN  IF fn = "AND" THEN left /\ right ELSE left \/ right},
   result |-> TranspileLogical(fn, l.result, r.result)]

Not(node) ==
  [node EXCEPT !.top = "NOT", !.fns = @ \cup {"NOT"},
               !.rows = (SUBSET Atoms(node)) \ @, !.result = TranspileNot(@)]

-----------------------------------------------------------------------------
\* Properties of a filter

\* transpiler.go:135-249: the SQL of a filter selects the rows the filter
\* means, although NOT, AND and OR are joined without parentheses: but for an
\* OR below an AND, which SQL groups differently.  It is refused only when one
\* of its comparisons is, or when it has a NOT, which drops values.
KeepsMeaning(node) ==
  IF Refused(node.result)
  THEN \/ "NOT" \in node.fns
       \/ \E i \in DOMAIN node.leaves : Refused(Transpile(node.leaves[i]))
  ELSE /\ \A i \in DOMAIN node.leaves : IsPlain(node.leaves[i])
       /\ \/ node.mixed
          \/ \A row \in SUBSET Atoms(node) : Selects(node.result, row) <=> row \in node.rows
=============================================================================
