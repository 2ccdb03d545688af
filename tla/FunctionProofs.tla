--------------------------- MODULE FunctionProofs ---------------------------
(***************************************************************************)
(* Theorems about the operators of Namespace, Metrics, Filter and          *)
(* InfluxFilter for all inputs: ids, ranges and windows of any length, any *)
(* triggers, and filters of any size over any comparisons.  The last part  *)
(* states them of Inputs, as invariants of its behaviors.                  *)
(***************************************************************************)
EXTENDS Inputs, FiniteSetTheorems, FunctionTheorems, WellFoundedInduction, TLAPS

-----------------------------------------------------------------------------
\* Namespace checks

LEMMA Swapped ==
  ASSUME NEW Chars, NEW id \in Seq(Chars), NEW from, NEW to
  PROVE  /\ DOMAIN Swap(id, from, to) = DOMAIN id
         /\ \A i \in DOMAIN id : Swap(id, from, to)[i] = IF id[i] = from THEN to ELSE id[i]
  BY DEF Swap

\* Sequences are equal when their elements are.
LEMMA SameSequence ==
  ASSUME NEW Chars, NEW s \in Seq(Chars), NEW t \in Seq(Chars), DOMAIN s = DOMAIN t,
         \A i \in DOMAIN s : s[i] = t[i]
  PROVE  s = t
  OBVIOUS

\* Two ids that normalize to the same are equal, or one is the variant of the
\* other, unless one has both dashes and underscores.
LEMMA CollidingIds ==
  ASSUME NEW Chars, NEW id \in Seq(Chars), NEW other \in Seq(Chars),
         Normal(other) = Normal(id), ~IsMixed(other), ~IsMixed(id)
  PROVE  other = id \/ (Variant(id) # <<>> /\ other = Variant(id))
<1>1. /\ DOMAIN other = DOMAIN id
      /\ \A i \in DOMAIN id :
           (IF other[i] = Dash THEN Bar ELSE other[i]) = (IF id[i] = Dash THEN Bar ELSE id[i])
  BY Swapped DEF Normal
<1>2. Dash # Bar
  BY DEF Dash, Bar
<1>3. CASE Has(id, Dash)
  <2>1. \A i \in DOMAIN id : id[i] # Bar
    BY <1>3 DEF IsMixed, Has
  <2>2. Variant(id) = Swap(id, Dash, Bar) /\ DOMAIN id # {}
    BY <1>3 DEF Variant, Has
  <2>3. CASE Has(other, Dash)
    <3>1. \A i \in DOMAIN id : other[i] # Bar
      BY <1>1, <2>3 DEF IsMixed, Has
    <3>2. \A i \in DOMAIN id : other[i] = id[i]
      BY <1>1, <2>1, <3>1
    <3> QED
      BY <1>1, <3>2, SameSequence
  <2>4. CASE ~Has(other, Dash)
    <3>1. \A i \in DOMAIN id : other[i] = IF id[i] = Dash THEN Bar ELSE id[i]
      BY <1>1, <2>4 DEF Has
    <3>2. other = [i \in DOMAIN id |-> IF id[i] = Dash THEN Bar ELSE id[i]]
      BY <1>1, <3>1
    <3> QED
      BY <1>1, <2>2, <3>2 DEF Swap
  <2> QED
    BY <2>3, <2>4
<1>4. CASE ~Has(id, Dash)
  <2>1. \A i \in DOMAIN id : (IF other[i] = Dash THEN Bar ELSE other[i]) = id[i]
    BY <1>1, <1>4 DEF Has
  <2>2. CASE ~Has(other, Dash)
    <3>1. \A i \in DOMAIN id : other[i] = id[i]
      BY <1>1, <2>1, <2>2 DEF Has
    <3> QED
      BY <1>1, <3>1, SameSequence
  <2>3. CASE Has(other, Dash)
    <3>1. \A i \in DOMAIN id : other[i] # Bar
      BY <1>1, <2>3 DEF IsMixed, Has
    <3>2. Has(id, Bar)
      BY <1>1, <2>1, <2>3 DEF Has
    <3>3. Variant(id) = Swap(id, Bar, Dash) /\ DOMAIN id # {}
      BY <1>4, <3>2 DEF Variant, Has
    <3>4. \A i \in DOMAIN id : other[i] = IF id[i] = Bar THEN Dash ELSE id[i]
      BY <1>1, <1>2, <2>1, <3>1
    <3>5. other = [i \in DOMAIN id |-> IF id[i] = Bar THEN Dash ELSE id[i]]
      BY <1>1, <3>4
    <3> QED
      BY <1>1, <3>3, <3>5 DEF Swap
  <2> QED
    BY <2>2, <2>3
<1> QED
  BY <1>3, <1>4

\* publichandler.go:261-288: an id the check calls available collides with none
\* that is taken, unless a look-up failed or one of the two has both dashes and
\* underscores.
THEOREM AvailableIdIsFree ==
  ASSUME NEW Chars, NEW id \in Seq(Chars), NEW taken \in SUBSET Seq(Chars), NEW failing
  PROVE  AvailableIsFree(id, taken, failing)
<1> SUFFICES ASSUME CheckNamespace(id, taken, failing) = "AVAILABLE",
                    NEW other \in taken \ failing, Normal(other) = Normal(id),
                    ~IsMixed(other), ~IsMixed(id)
             PROVE  FALSE
  BY DEF AvailableIsFree
<1>1. other = id \/ (Variant(id) # <<>> /\ other = Variant(id))
  BY CollidingIds
<1> QED
  BY <1>1 DEF CheckNamespace, Finds

\* publichandler.go:262 and privatehandler.go:166: the two handlers answer alike
\* where the private one does not refuse the id.
THEOREM HandlersAgree ==
  ASSUME NEW id, NEW taken, NEW failing
  PROVE  ChecksAgree(id, taken, failing)
  BY DEF ChecksAgree, CheckNamespace, CheckNamespaceAdmin

-----------------------------------------------------------------------------
\* Charts

\* A multiple of n leaves no remainder.
LEMMA MultipleModulo ==
  ASSUME NEW n \in Nat \ {0}, NEW k \in Int
  PROVE  (n * k) % n = 0
<1> DEFINE q == (n * k) \div n
           m == (n * k) % n
<1>1. n * k \in Int /\ q \in Int /\ m \in 0..(n - 1) /\ n * k = n * q + m
  OBVIOUS
<1>2. n * (k - q) = m /\ k - q \in Int
  BY <1>1
<1>3. CASE k - q >= 1
  <2>1. n * (k - q) >= n
    BY <1>2, <1>3
  <2> QED
    BY <1>1, <1>2, <2>1
<1>4. CASE k - q <= -1
  <2>1. n * (k - q) <= -n
    BY <1>2, <1>4
  <2> QED
    BY <1>1, <1>2, <2>1
<1>5. CASE k - q = 0
  BY <1>1, <1>2, <1>5
<1> QED
  BY <1>2, <1>3, <1>4, <1>5

\* Midnight is a whole number of windows after the epoch, if a day is one.
LEMMA MidnightOnWindow ==
  ASSUME NEW w \in Nat \ {0}, Day % w = 0, NEW t \in Int
  PROVE  Midnight(t) % w = 0
<1>1. Day \in Nat \ {0}
  BY MetricsAssumption
<1>2. t % Day \in Int /\ t \div Day \in Int /\ t = Day * (t \div Day) + (t % Day)
  BY <1>1
<1>3. Day \div w \in Int /\ Day = w * (Day \div w)
  BY <1>1
<1>4. PICK d \in Int : Day = w * d
  BY <1>3
<1>5. PICK k \in Int : Midnight(t) = Day * k
  BY <1>1, <1>2 DEF Midnight
<1>6. d * k \in Int /\ Midnight(t) = w * (d * k)
  BY <1>4, <1>5
<1> QED
  BY <1>6, MultipleModulo

\* The buckets of a chart are its windows, in their order.
LEMMA BucketsAreWindows ==
  ASSUME NEW stored, NEW req, NEW now, NEW p, p = Params(req, now),
         Chart(stored, req, now).status = "ok",
         NEW i \in DOMAIN Chart(stored, req, now).buckets
  PROVE  /\ i \in DOMAIN Windows(p)
         /\ Chart(stored, req, now).buckets[i].time = Windows(p)[i].to
<1> DEFINE uid     == GrantedNamespaceUID(req.id, req.authenticated)
           of      == Matching(stored, uid, p)
           In(w)   == {x \in of : w.from <= x.time /\ x.time < w.to}
           buckets == IF of = {} THEN <<>>
                      ELSE [j \in DOMAIN Windows(p) |->
                              [time  |-> Windows(p)[j].to,
                               count |-> ToInt32(Cardinality(In(Windows(p)[j])))]]
<1>1. Chart(stored, req, now) =
        CASE uid = NilUID -> Unauthorized
          [] uid # NilUID /\ ~Queried(p) -> InvalidArgument
          [] OTHER -> [status |-> "ok", buckets |-> buckets]
  BY DEF Chart
<1>2. \A j \in DOMAIN buckets : j \in DOMAIN Windows(p) /\ buckets[j].time = Windows(p)[j].to
  <2>1. CASE of = {}
    <3>1. DOMAIN buckets = {}
      BY <2>1
    <3> QED
      BY <3>1
  <2>2. CASE of # {}
    BY <2>2
  <2> QED
    BY <2>1, <2>2
<1> HIDE DEF uid, buckets
<1>3. uid # NilUID /\ Queried(p)
  BY <1>1 DEF Unauthorized, InvalidArgument
<1>4. Chart(stored, req, now).buckets = buckets
  BY <1>1, <1>3
<1> QED
  BY <1>2, <1>4

\* The first window begins with the range.
LEMMA WindowsFromStart ==
  ASSUME NEW p, p.start \in Int, p.stop \in Int, p.window \in Nat \ {0},
         Day % p.window = 0, NEW i \in DOMAIN Windows(p)
  PROVE  Windows(p)[i].to = Min({p.start + i * p.window, p.stop})
<1> DEFINE first   == p.start - ((p.start - AggregationWindowOffset(p.start)) % p.window)
           From(j) == first + (j - 1) * p.window
           last    == (p.stop - 1 - first) \div p.window + 1
<1>1. Midnight(p.start) \in Int
  BY MetricsAssumption DEF Midnight
<1>2. p.start - AggregationWindowOffset(p.start) = Midnight(p.start)
  BY <1>1 DEF AggregationWindowOffset
<1>3. Midnight(p.start) % p.window = 0
  BY MidnightOnWindow
<1>4. first = p.start
  BY <1>2, <1>3
<1>5. Windows(p) = [j \in 1..last |-> [from |-> Max({From(j), p.start}),
                                       to   |-> Min({From(j + 1), p.stop})]]
  BY DEF Windows
<1>6. i \in 1..last /\ i \in Int
  BY <1>5
<1>7. Windows(p)[i].to = Min({From(i + 1), p.stop})
  BY <1>5, <1>6
<1>8. From(i + 1) = p.start + i * p.window
  BY <1>4, <1>6
<1> QED
  BY <1>7, <1>8

\* What a request leaves out has a default of its kind.
LEMMA ParamsType ==
  ASSUME NEW req, NEW now \in Int, req.start \in Int \/ req.start = NoTime,
         req.stop \in Int \/ req.stop = NoTime, req.window \in Nat \/ req.window = NoTime
  PROVE  /\ Params(req, now).start \in Int /\ Params(req, now).stop \in Int
         /\ Params(req, now).window \in Nat
<1>1. Midnight(now) \in Int /\ Hour \in Nat
  BY MetricsAssumption DEF Midnight
<1> QED
  BY <1>1 DEF Params

\* influx.go:363-371: the windows of a chart begin at the start of the range and
\* follow each other, if the window divides a day: the offset is the time of day
\* the range begins at.
THEOREM ChartFromStart ==
  ASSUME NEW stored, NEW req, NEW now \in Int, req.start \in Int \/ req.start = NoTime,
         req.stop \in Int \/ req.stop = NoTime, req.window \in Nat \/ req.window = NoTime
  PROVE  BucketsFromStart(stored, req, now)
<1> DEFINE p == Params(req, now)
<1> SUFFICES ASSUME Queried(p), Day % p.window = 0, Chart(stored, req, now).status = "ok",
                    NEW i \in DOMAIN Chart(stored, req, now).buckets
             PROVE  Chart(stored, req, now).buckets[i].time
                      = Min({p.start + i * p.window, p.stop})
  BY DEF BucketsFromStart
<1>1. /\ i \in DOMAIN Windows(p)
      /\ Chart(stored, req, now).buckets[i].time = Windows(p)[i].to
  BY BucketsAreWindows
<1>2. p.start \in Int /\ p.stop \in Int /\ p.window \in Nat \ {0}
  BY ParamsType DEF Queried
<1> HIDE DEF p
<1> QED
  BY <1>1, <1>2, WindowsFromStart

\* The smaller and the larger of two numbers.
LEMMA MinMax ==
  ASSUME NEW a \in Int, NEW b \in Int
  PROVE  /\ Min({a, b}) = IF a <= b THEN a ELSE b
         /\ Max({a, b}) = IF a >= b THEN a ELSE b
<1>1. ASSUME NEW x, x \in {a, b}, \A y \in {a, b} : x <= y
      PROVE  x = IF a <= b THEN a ELSE b
  BY <1>1
<1>2. \E x \in {a, b} : \A y \in {a, b} : x <= y
  OBVIOUS
<1>3. ASSUME NEW x, x \in {a, b}, \A y \in {a, b} : x >= y
      PROVE  x = IF a >= b THEN a ELSE b
  BY <1>3
<1>4. \E x \in {a, b} : \A y \in {a, b} : x >= y
  OBVIOUS
<1> QED
  BY <1>1, <1>2, <1>3, <1>4 DEF Min, Max

LEMMA TimesOrder ==
  ASSUME NEW w \in Nat \ {0}, NEW a \in Int, NEW b \in Int, a <= b
  PROVE  a * w <= b * w
<1>1. (b - a) * w >= 0
  OBVIOUS
<1>2. (b - a) * w = b * w - a * w
  OBVIOUS
<1> QED
  BY <1>1, <1>2

LEMMA Quotient ==
  ASSUME NEW w \in Nat \ {0}, NEW a \in Int
  PROVE  /\ a \div w \in Int
         /\ (a \div w) * w <= a /\ a < (a \div w + 1) * w
  OBVIOUS

LEMMA DivisionOrder ==
  ASSUME NEW w \in Nat \ {0}, NEW a \in Int, NEW b \in Int, a <= b
  PROVE  a \div w <= b \div w
<1> DEFINE q == a \div w
           r == b \div w
<1>1. /\ q \in Int /\ r \in Int
      /\ q * w <= a /\ b < (r + 1) * w
  BY Quotient
<1>2. ASSUME q >= r + 1 PROVE FALSE
  <2>1. (r + 1) * w <= q * w
    BY <1>1, <1>2, TimesOrder
  <2> QED
    BY <1>1, <2>1
<1> QED
  BY <1>1, <1>2

\* influx.go:221-246: whatever the window, and though the first and the last are
\* cut, each instant of the range is in exactly one window: a chart counts each
\* trigger once.
THEOREM WindowsPartition ==
  ASSUME NEW p, p.start \in Int, p.stop \in Int, p.window \in Nat \ {0},
         NEW t \in Int, p.start <= t, t < p.stop
  PROVE  /\ \E i \in DOMAIN Windows(p) : Windows(p)[i].from <= t /\ t < Windows(p)[i].to
         /\ \A i, j \in DOMAIN Windows(p) :
              /\ Windows(p)[i].from <= t /\ t < Windows(p)[i].to
              /\ Windows(p)[j].from <= t /\ t < Windows(p)[j].to
              => i = j
<1> DEFINE w       == p.window
           first   == p.start - ((p.start - AggregationWindowOffset(p.start)) % w)
           From(j) == first + (j - 1) * w
           last    == (p.stop - 1 - first) \div w + 1
<1>1. first \in Int /\ first <= p.start
  <2>1. AggregationWindowOffset(p.start) \in Int
    BY MetricsAssumption DEF AggregationWindowOffset, Midnight
  <2>2. (p.start - AggregationWindowOffset(p.start)) % w \in 0..(w - 1)
    BY <2>1
  <2> QED
    BY <2>2
<1>2. Windows(p) = [j \in 1..last |-> [from |-> Max({From(j), p.start}),
                                       to   |-> Min({From(j + 1), p.stop})]]
  BY DEF Windows
<1> HIDE DEF first
<1>3. last \in Int /\ DOMAIN Windows(p) = 1..last
  BY <1>1, <1>2
<1> HIDE DEF last
<1>4. \A j \in Int : From(j) \in Int
  BY <1>1
<1>5. ASSUME NEW j \in 1..last
      PROVE  /\ Windows(p)[j].from <= t <=> From(j) <= t
             /\ t < Windows(p)[j].to <=> t < From(j + 1)
  <2>1. j \in Int /\ j + 1 \in Int
    BY <1>3
  <2>2. /\ Windows(p)[j].from = Max({From(j), p.start})
        /\ Windows(p)[j].to = Min({From(j + 1), p.stop})
    BY <1>2
  <2> HIDE DEF From
  <2>3. From(j) \in Int /\ From(j + 1) \in Int
    BY <1>4, <2>1
  <2>4. PICK a \in Int, b \in Int : a = From(j) /\ b = From(j + 1)
    BY <2>3
  <2>5. Max({a, p.start}) = IF a >= p.start THEN a ELSE p.start
    BY MinMax
  <2>6. Min({b, p.stop}) = IF b <= p.stop THEN b ELSE p.stop
    BY MinMax
  <2> QED
    BY <2>2, <2>4, <2>5, <2>6
<1>6. \E i \in 1..last : From(i) <= t /\ t < From(i + 1)
  <2> DEFINE k == (t - first) \div w
  <2>0. t - first \in Int /\ 0 <= t - first
    BY <1>1
  <2>1. k \in Int /\ k * w <= t - first /\ t - first < (k + 1) * w
    BY <2>0, Quotient
  <2>2. k >= 0
    <3>1. 0 \div w <= (t - first) \div w
      BY <2>0, DivisionOrder
    <3> QED
      BY <3>1
  <2>3. k + 1 <= last
    <3>1. t - first <= p.stop - 1 - first /\ t - first \in Int /\ p.stop - 1 - first \in Int
      BY <1>1
    <3> QED
      BY <3>1, DivisionOrder DEF last
  <2> HIDE DEF k
  <2>4. k + 1 \in 1..last
    BY <1>3, <2>1, <2>2, <2>3
  <2>5. From(k + 1) = first + k * w /\ From(k + 1 + 1) = first + (k + 1) * w
    BY <2>1
  <2>6. From(k + 1) <= t /\ t < From(k + 1 + 1)
    BY <1>1, <2>1, <2>5
  <2> HIDE DEF From
  <2> QED
    BY <2>4, <2>6
<1>7. ASSUME NEW i \in 1..last, NEW j \in 1..last, From(j) <= t, t < From(i + 1), i < j
      PROVE  FALSE
  <2>1. i \in Int /\ j \in Int /\ i <= j - 1 /\ j - 1 \in Int
    BY <1>3, <1>7
  <2>2. i * w <= (j - 1) * w
    BY <2>1, TimesOrder
  <2>3. From(i + 1) = first + i * w /\ From(j) = first + (j - 1) * w
    BY <2>1
  <2>4. i * w \in Int /\ (j - 1) * w \in Int
    BY <2>1
  <2> QED
    BY <1>1, <1>7, <2>2, <2>3, <2>4
<1> HIDE DEF From
<1>8. \A i, j \in 1..last : ~(i < j) /\ ~(j < i) => i = j
  BY <1>3
<1> QED
  BY <1>3, <1>5, <1>6, <1>7, <1>8

-----------------------------------------------------------------------------
\* Filters: sequences, and the values that placeholders get

\* The names and values of filters, and the tokens of their SQL.
Part   == STRING
Words  == Connectives \cup Comparisons \cup {"ident", "LIKE", "ANY", "JSON"}
Token  == [word : Words, name : Seq(Part)]
Value  == [path : Seq(Part), value : Part]
\* What translations return.
Result == [status : {"ok", "error", "panic"}, sql : Seq(Token), vars : Seq(Value)]

\* What a predicate and its value compare.
Compares(pred, v) ==
  [op   |-> CASE pred.word = "LIKE"            -> "="
              [] pred.word \in {"ANY", "JSON"} -> ":"
              [] OTHER                         -> pred.word,
   path  |-> pred.name \o v.path,
   value |-> v.value]

\* A comparison that would be accepted as a filter of its own.
Accepted(e) == ~Refused(Transpile(e))

\* Tokens that have no placeholder.
Marks == Connectives \cup {"ident"}

\* Sequences of one element and of none, and the ends of others.
LEMMA OneElement ==
  ASSUME NEW S, NEW x \in S
  PROVE  <<x>> \in Seq(S) /\ Len(<<x>>) = 1 /\ <<x>>[1] = x /\ <<x>> # <<>>
  OBVIOUS

LEMMA NoElement ==
  ASSUME NEW S
  PROVE  <<>> \in Seq(S) /\ Len(<<>>) = 0
  OBVIOUS

LEMMA FirstElement ==
  ASSUME NEW S, NEW s \in Seq(S), Len(s) > 0
  PROVE  s # <<>> /\ s[1] \in S /\ <<s[1]>> \o Tail(s) = s
  OBVIOUS

LEMMA OnlyElement ==
  ASSUME NEW S, NEW s \in Seq(S), Len(s) = 1
  PROVE  s # <<>> /\ s[1] \in S /\ s = <<s[1]>>
<1>1. s # <<>> /\ s[1] \in S /\ DOMAIN s = 1..1
  OBVIOUS
<1> QED
  BY <1>1

LEMMA AppendNothing ==
  ASSUME NEW S, NEW s \in Seq(S)
  PROVE  s \o <<>> = s
  OBVIOUS

\* The types of what the translations are built from.
LEMMA OkType ==
  ASSUME NEW sql \in Seq(Token), NEW vars \in Seq(Value)
  PROVE  /\ Ok(sql, vars) \in Result /\ Ok(sql, vars).status = "ok"
         /\ Ok(sql, vars).sql = sql /\ Ok(sql, vars).vars = vars
  BY DEF Ok, Result

LEMMA FailedType ==
  /\ Error \in Result /\ Error.status # "ok"
  /\ Panic \in Result /\ Panic.status # "ok"
  BY NoElement DEF Error, Panic, Result

LEMMA PredType ==
  ASSUME NEW word, NEW name
  PROVE  /\ Pred(word, name).word = word /\ Pred(word, name).name = name
         /\ word \in Words /\ name \in Seq(Part) => Pred(word, name) \in Token
  BY DEF Pred, Token

LEMMA VarType ==
  ASSUME NEW v \in Part
  PROVE  /\ Var(v) \in Value /\ Var(v).path = <<>> /\ Var(v).value = v
         /\ \A f \in Part : /\ FieldVar(f, v) \in Value
                              /\ FieldVar(f, v).path = <<f>> /\ FieldVar(f, v).value = v
  BY DEF Var, FieldVar, Value

\* What a term is, and what its translation says of it.
LEMMA TermFields ==
  ASSUME NEW x, IsTerm(x)
  PROVE  /\ x.path \in Seq(Part) /\ x.value \in Part /\ x.declared \in Part
         /\ x.kind \in {"ident", "select", "string", "number", "timestamp"}
         /\ x.kind = "ident" => Len(x.path) = 1
         /\ x.kind = "select" => Len(x.path) > 1
         /\ x.kind \notin {"ident", "select"} => x.path = <<>>
  BY DEF IsTerm, Part

LEMMA TermType ==
  ASSUME NEW x, IsTerm(x), NEW r, r = TranspileTerm(x)
  PROVE  /\ r \in Result
         /\ r.status = "ok" =>
              IF x.kind \in {"ident", "select"}
              THEN r.vars = <<>> /\ NameOf(r) = x.path /\ x.path # <<>>
              ELSE r.vars = <<Var(x.value)>> /\ NameOf(r) = <<>>
<1>1. /\ x.path \in Seq(Part) /\ x.value \in Part /\ x.declared \in Part
      /\ x.kind \in {"ident", "select", "string", "number", "timestamp"}
  BY TermFields
<1>2. <<Var(x.value)>> \in Seq(Value) /\ <<>> \in Seq(Token) /\ <<>> \in Seq(Value)
  <2>1. Var(x.value) \in Value
    BY <1>1, VarType
  <2> QED
    BY <2>1, OneElement, NoElement
<1>3. CASE x.kind \in {"string", "number", "timestamp"}
  <2>1. r = Ok(<<>>, <<Var(x.value)>>) \/ r = Error
    BY <1>3 DEF TranspileTerm, TranspileConst, TranspileTimestamp
  <2> QED
    <3>1. CASE r = Ok(<<>>, <<Var(x.value)>>)
      <4>1. /\ Ok(<<>>, <<Var(x.value)>>) \in Result
            /\ Ok(<<>>, <<Var(x.value)>>).sql = <<>>
            /\ Ok(<<>>, <<Var(x.value)>>).vars = <<Var(x.value)>>
        BY <1>2, OkType
      <4> QED
        BY <1>3, <3>1, <4>1 DEF NameOf
    <3>2. CASE r = Error
      BY <3>2, FailedType
    <3> QED
      BY <2>1, <3>1, <3>2
<1>4. ASSUME x.kind \in {"ident", "select"}
      PROVE  Len(x.path) > 0 /\ x.path[1] \in Part /\ x.path # <<>>
  <2>1. Len(x.path) = 1 \/ Len(x.path) > 1
    BY <1>4, TermFields
  <2>2. Len(x.path) > 0
    BY <2>1
  <2> QED
    BY <1>1, <2>2, FirstElement
<1>5. ASSUME NEW p \in Seq(Part), p # <<>>
      PROVE  LET ok == Ok(<<Pred("ident", p)>>, <<>>)
             IN  ok \in Result /\ ok.status = "ok" /\ ok.vars = <<>> /\ NameOf(ok) = p
  <2>1. <<Pred("ident", p)>> \in Seq(Token) /\ <<Pred("ident", p)>>[1].name = p
        /\ <<Pred("ident", p)>> # <<>>
    <3>1. Pred("ident", p) \in Token /\ Pred("ident", p).name = p
      BY <1>5, PredType DEF Words
    <3> QED
      BY <3>1, OneElement
  <2> QED
    BY <1>2, <2>1, OkType DEF NameOf
<1>6. CASE x.kind = "ident"
  <2>1. r = TranspileIdent(x) /\ x.path = <<x.path[1]>>
    <3>1. Len(x.path) = 1
      BY <1>6, TermFields
    <3> QED
      BY <1>1, <1>6, <3>1, OnlyElement DEF TranspileTerm
  <2>2. r = Ok(<<Pred("ident", x.path)>>, <<>>) \/ r = Error
    BY <2>1 DEF TranspileIdent
  <2> QED
    BY <1>1, <1>4, <1>5, <1>6, <2>2, FailedType
<1>7. CASE x.kind = "select"
  <2>1. r = TranspileSelect(x, TranspileIdent(x))
    BY <1>7 DEF TranspileTerm
  <2>2. <<x.path[1]>> \o Tail(x.path) = x.path /\ <<x.path[1]>> \in Seq(Part)
    BY <1>1, <1>4, <1>7, FirstElement, OneElement
  <2>3. TranspileIdent(x) = Ok(<<Pred("ident", <<x.path[1]>>)>>, <<>>) \/ TranspileIdent(x) = Error
    BY DEF TranspileIdent
  <2>4. r = Ok(<<Pred("ident", x.path)>>, <<>>) \/ r = Error
    <3>1. CASE TranspileIdent(x) = Ok(<<Pred("ident", <<x.path[1]>>)>>, <<>>)
      <4>1. TranspileIdent(x).status = "ok" /\ NameOf(TranspileIdent(x)) = <<x.path[1]>>
        BY <1>5, <2>2, <3>1
      <4> QED
        BY <2>1, <2>2, <4>1 DEF TranspileSelect
    <3>2. CASE TranspileIdent(x) = Error
      BY <2>1, <3>2, FailedType DEF TranspileSelect
    <3> QED
      BY <2>3, <3>1, <3>2
  <2> QED
    BY <1>1, <1>4, <1>5, <1>7, <2>4, FailedType
<1> QED
  BY <1>1, <1>3, <1>6, <1>7

\* A comparison that is translated has one predicate, and at most one value.
\* It is accepted only if it is plain, and then compares what it means.
Single(e) ==
  LET r == Transpile(e)
  IN  /\ r \in Result
      /\ r.status = "ok" =>
           /\ Len(r.sql) = 1 /\ r.sql[1].word \notin Marks
           /\ Len(r.vars) <= 1
           /\ Len(r.vars) = 1 /\ r.sql[1].name # <<>> =>
                IsPlain(e) /\ Compares(r.sql[1], r.vars[1]) = Meant(e)

\* "x = v" and the other operators: one predicate of the left side.
LEMMA ComparisonSingle ==
  ASSUME NEW e, IsComparison(e), e.fn # ":"
  PROVE  Single(e)
<1> DEFINE ident == TranspileTerm(e.left)
           con   == TranspileTerm(e.right)
           r     == Transpile(e)
<1>1. IsTerm(e.left) /\ IsTerm(e.right) /\ e.fn \in Comparisons
  BY DEF IsComparison
<1>2. /\ ident \in Result /\ con \in Result
      /\ ident.status = "ok" =>
           IF e.left.kind \in {"ident", "select"}
           THEN NameOf(ident) = e.left.path
           ELSE NameOf(ident) = <<>>
      /\ con.status = "ok" =>
           IF e.right.kind \in {"ident", "select"}
           THEN con.vars = <<>>
           ELSE con.vars = <<Var(e.right.value)>>
  BY <1>1, TermType
<1>3. e.left.path \in Seq(Part) /\ e.right.value \in Part
  BY <1>1, TermFields
<1>4. r = TranspileComparison(e, ident, con)
  BY DEF Transpile
<1> HIDE DEF ident, con, r
<1>5. CASE ident.status # "ok" \/ con.status # "ok"
  <2>1. r \in Result /\ r.status # "ok"
    BY <1>2, <1>4, <1>5 DEF TranspileComparison
  <2> QED
    BY <2>1 DEF Single, r
<1>6. CASE ident.status = "ok" /\ con.status = "ok"
  <2> DEFINE name == NameOf(ident)
  <2>1. name \in Seq(Part) /\ (name # <<>> => e.left.kind \in {"ident", "select"} /\ name = e.left.path)
    BY <1>2, <1>3, <1>6, NoElement
  <2>2. /\ con.vars \in Seq(Value) /\ Len(con.vars) <= 1
        /\ Len(con.vars) = 1 =>
             e.right.kind \notin {"ident", "select"} /\ con.vars[1] = Var(e.right.value)
             /\ con.vars = <<con.vars[1]>>
    <3>1. Var(e.right.value) \in Value
      BY <1>3, VarType
    <3> QED
      <4>1. CASE e.right.kind \in {"ident", "select"}
        <5>1. con.vars = <<>>
          BY <1>2, <1>6, <4>1
        <5> QED
          BY <5>1, NoElement
      <4>2. CASE e.right.kind \notin {"ident", "select"}
        <5>1. con.vars = <<Var(e.right.value)>>
          BY <1>2, <1>6, <4>2
        <5>2. /\ con.vars \in Seq(Value) /\ Len(con.vars) = 1 /\ con.vars # <<>>
              /\ con.vars[1] = Var(e.right.value)
          BY <3>1, <5>1, OneElement
        <5> QED
          BY <4>2, <5>1, <5>2
      <4> QED
        BY <4>1, <4>2
  <2>3. \/ r = Panic
        \/ e.fn = "=" /\ con.vars # <<>> /\ r = Ok(<<Pred("LIKE", name)>>, <<con.vars[1]>>)
        \/ r = Ok(<<Pred(e.fn, name)>>, con.vars)
    BY <1>4, <1>6 DEF TranspileComparison
  <2> HIDE DEF name
  <2>4. CASE r = Panic
    BY <2>4, FailedType DEF Single, r
  <2>5. ASSUME NEW word \in {"LIKE"} \cup Comparisons, r = Ok(<<Pred(word, name)>>, con.vars),
               word = e.fn \/ (word = "LIKE" /\ e.fn = "=")
        PROVE  Single(e)
    <3>1. /\ Pred(word, name) \in Token /\ Pred(word, name).word = word /\ Pred(word, name).name = name
          /\ <<Pred(word, name)>> \in Seq(Token)
      <4>1. word \in Words
        BY <2>5 DEF Words
      <4> QED
        BY <2>1, <4>1, PredType, OneElement
    <3>2. /\ r \in Result /\ r.status = "ok" /\ r.sql = <<Pred(word, name)>> /\ r.vars = con.vars
      BY <2>2, <2>5, <3>1, OkType
    <3>3. word \notin Marks
      BY <2>5 DEF Marks, Connectives, Comparisons
    <3>4. ASSUME Len(con.vars) = 1, name # <<>>
          PROVE  IsPlain(e) /\ Compares(Pred(word, name), con.vars[1]) = Meant(e)
      <4>1. IsPlain(e) /\ name = e.left.path
        BY <2>1, <2>2, <3>4 DEF IsPlain
      <4>2. con.vars[1].path = <<>> /\ con.vars[1].value = e.right.value
        BY <1>3, <2>2, <3>4, VarType
      <4>3. name \o <<>> = name
        BY <2>1, AppendNothing
      <4>4. Compares(Pred(word, name), con.vars[1]).op = e.fn
        <5>1. word = "LIKE" \/ (word = e.fn /\ word \notin {"LIKE", "ANY", "JSON"})
          BY <2>5 DEF Comparisons
        <5>2. word = "LIKE" => e.fn = "="
          BY <1>1, <2>5 DEF Comparisons
        <5> QED
          BY <3>1, <5>1, <5>2 DEF Compares
      <4> QED
        BY <3>1, <4>1, <4>2, <4>3, <4>4 DEF Compares, Meant
    <3>5. Len(r.sql) = 1 /\ r.sql[1] = Pred(word, name)
      BY <3>2
    <3> QED
      BY <2>2, <3>1, <3>2, <3>3, <3>4, <3>5 DEF Single, r
  <2>6. CASE e.fn = "=" /\ con.vars # <<>> /\ r = Ok(<<Pred("LIKE", name)>>, <<con.vars[1]>>)
    <3>1. Len(con.vars) = 1 /\ con.vars = <<con.vars[1]>>
      BY <2>2, <2>6
    <3> QED
      BY <2>5, <2>6, <3>1
  <2>7. CASE r = Ok(<<Pred(e.fn, name)>>, con.vars)
    BY <1>1, <2>5, <2>7
  <2> QED
    BY <2>3, <2>4, <2>6, <2>7
<1> QED
  BY <1>5, <1>6

\* The elements of a concatenation.
LEMMA Concatenation ==
  ASSUME NEW S, NEW s \in Seq(S), NEW t \in Seq(S)
  PROVE  /\ s \o t \in Seq(S) /\ Len(s \o t) = Len(s) + Len(t)
         /\ \A i \in 1..Len(s) : (s \o t)[i] = s[i]
         /\ \A i \in 1..Len(t) : (s \o t)[Len(s) + i] = t[i]
  OBVIOUS

\* Sequences of the same length are equal when their elements are.
LEMMA EqualSequences ==
  ASSUME NEW S, NEW s \in Seq(S), NEW t \in Seq(S), Len(s) = Len(t),
         \A i \in 1..Len(s) : s[i] = t[i]
  PROVE  s = t
  OBVIOUS

\* A sequence without its last element, and that element.
LEMMA FrontAndLast ==
  ASSUME NEW S, NEW s \in Seq(S), Len(s) > 0
  PROVE  /\ Front(s) \in Seq(S) /\ Len(Front(s)) = Len(s) - 1 /\ Last(s) \in S
         /\ Front(s) \o <<Last(s)>> = s
<1>1. Front(s) = [i \in 1..(Len(s) - 1) |-> s[i]] /\ Last(s) = s[Len(s)]
  BY DEF Front, Last
<1>2. Len(s) \in Nat /\ DOMAIN s = 1..Len(s) /\ \A i \in 1..Len(s) : s[i] \in S
  OBVIOUS
<1>3. Front(s) \in Seq(S) /\ Len(Front(s)) = Len(s) - 1 /\ Last(s) \in S
  BY <1>1, <1>2
<1>4. \A i \in 1..Len(s) - 1 : Front(s)[i] = s[i]
  BY <1>1, <1>2
<1>5. /\ <<Last(s)>> \in Seq(S) /\ Len(<<Last(s)>>) = 1 /\ <<Last(s)>>[1] = Last(s)
  BY <1>3, OneElement
<1> DEFINE c == Front(s) \o <<Last(s)>>
<1>6. /\ c \in Seq(S) /\ Len(c) = Len(s) - 1 + 1
      /\ \A i \in 1..Len(s) - 1 : c[i] = s[i]
      /\ c[Len(s) - 1 + 1] = Last(s)
  <2>1. /\ c \in Seq(S) /\ Len(c) = Len(Front(s)) + Len(<<Last(s)>>)
        /\ \A i \in 1..Len(Front(s)) : c[i] = Front(s)[i]
        /\ \A i \in 1..Len(<<Last(s)>>) : c[Len(Front(s)) + i] = <<Last(s)>>[i]
    BY <1>3, <1>5, Concatenation
  <2>2. 1 \in 1..Len(<<Last(s)>>)
    BY <1>5
  <2> QED
    BY <1>3, <1>4, <1>5, <2>1, <2>2
<1> HIDE DEF c
<1>7. Len(c) = Len(s) /\ \A i \in 1..Len(s) : c[i] = s[i]
  BY <1>1, <1>2, <1>6
<1>8. c = s
  BY <1>6, <1>7, EqualSequences
<1> QED
  BY <1>3, <1>8 DEF c

\* One predicate with a value of its own.
LEMMA OnePredicate ==
  ASSUME NEW e, NEW word \in Words \ Marks, NEW name \in Seq(Part), NEW v \in Value,
         Transpile(e) = Ok(<<Pred(word, name)>>, <<v>>),
         IsPlain(e), Compares(Pred(word, name), v) = Meant(e)
  PROVE  Single(e)
<1>1. /\ Pred(word, name) \in Token /\ Pred(word, name).word = word /\ Pred(word, name).name = name
  BY PredType
<1>2. /\ <<Pred(word, name)>> \in Seq(Token) /\ Len(<<Pred(word, name)>>) = 1
      /\ <<Pred(word, name)>>[1] = Pred(word, name)
  BY <1>1, OneElement
<1>3. <<v>> \in Seq(Value) /\ Len(<<v>>) = 1 /\ <<v>>[1] = v
  BY OneElement
<1>4. /\ Ok(<<Pred(word, name)>>, <<v>>) \in Result
      /\ Ok(<<Pred(word, name)>>, <<v>>).sql = <<Pred(word, name)>>
      /\ Ok(<<Pred(word, name)>>, <<v>>).vars = <<v>>
  BY <1>2, <1>3, OkType
<1> DEFINE r == Transpile(e)
<1>5. /\ r \in Result /\ Len(r.sql) = 1 /\ r.sql[1].word = word
      /\ Len(r.vars) = 1 /\ r.sql[1] = Pred(word, name) /\ r.vars[1] = v
  <2>1. r \in Result /\ r.sql = <<Pred(word, name)>> /\ r.vars = <<v>>
    BY <1>4
  <2> QED
    BY <1>1, <1>2, <1>3, <2>1
<1> HIDE DEF r
<1>6. r.sql[1].word \notin Marks /\ Len(r.vars) <= 1 /\ Compares(r.sql[1], r.vars[1]) = Meant(e)
  BY <1>5
<1> QED
  BY <1>5, <1>6, Zenon DEF Single, r

\* "x:v", a JSON or ANY predicate.
LEMMA HasSingle ==
  ASSUME NEW e, IsComparison(e), e.fn = ":"
  PROVE  Single(e)
<1> DEFINE x == e.left
           con == e.right
           term == TranspileTerm(x)
           name == NameOf(term)
           r == Transpile(e)
<1>1. IsTerm(x) /\ IsTerm(con)
  BY DEF IsComparison
<1>2. r = TranspileHas(e)
  BY DEF Transpile
<1>3. /\ x.path \in Seq(Part) /\ x.declared \in Part /\ con.value \in Part
      /\ x.kind = "ident" => Len(x.path) = 1
      /\ x.kind = "select" => Len(x.path) > 1
  BY <1>1, TermFields
<1>4. /\ Var(con.value) \in Value /\ Var(con.value).path = <<>> /\ Var(con.value).value = con.value
      /\ \A f \in Part : /\ FieldVar(f, con.value) \in Value
                           /\ FieldVar(f, con.value).path = <<f>>
                           /\ FieldVar(f, con.value).value = con.value
  BY <1>3, VarType
<1>5. term.status = "ok" /\ x.kind \in {"ident", "select"} => name = x.path
  BY <1>1, TermType
<1>6. CASE r = Error \/ r = Panic
  BY <1>6, FailedType DEF Single
<1>7. CASE /\ con.kind \in {"string", "number"} /\ x.kind = "ident"
           /\ r = Ok(<<Pred("ANY", x.path)>>, <<Var(con.value)>>)
  <2>1. x.path \o <<>> = x.path
    BY <1>3, AppendNothing
  <2>2. Pred("ANY", x.path).word = "ANY" /\ Pred("ANY", x.path).name = x.path
    BY PredType
  <2>3. Compares(Pred("ANY", x.path), Var(con.value)) = Meant(e)
    BY <1>4, <2>1, <2>2 DEF Compares, Meant
  <2>4. IsPlain(e) /\ "ANY" \in Words \ Marks
    BY <1>7 DEF IsPlain, Words, Marks, Connectives, Comparisons
  <2> QED
    BY <1>3, <1>4, <1>7, <2>3, <2>4, OnePredicate
<1>8. CASE /\ con.kind = "string" /\ x.kind = "select"
           /\ r = Ok(<<Pred("JSON", x.path)>>, <<Var(con.value)>>)
  <2>1. x.path \o <<>> = x.path
    BY <1>3, AppendNothing
  <2>2. Pred("JSON", x.path).word = "JSON" /\ Pred("JSON", x.path).name = x.path
    BY PredType
  <2>3. Compares(Pred("JSON", x.path), Var(con.value)) = Meant(e)
    BY <1>4, <2>1, <2>2 DEF Compares, Meant
  <2>4. IsPlain(e) /\ "JSON" \in Words \ Marks
    BY <1>8 DEF IsPlain, Words, Marks, Connectives, Comparisons
  <2> QED
    BY <1>3, <1>4, <1>8, <2>3, <2>4, OnePredicate
<1>9. CASE /\ con.kind = "string" /\ x.kind = "select"
           /\ r = Ok(<<Pred("JSON", Front(x.path))>>, <<FieldVar(Last(x.path), con.value)>>)
  <2> DEFINE p == Front(x.path)
             v == FieldVar(Last(x.path), con.value)
  <2>1. p \in Seq(Part) /\ Last(x.path) \in Part /\ p \o <<Last(x.path)>> = x.path
    <3>1. Len(x.path) > 0
      BY <1>3, <1>9
    <3> QED
      BY <1>3, <3>1, FrontAndLast
  <2>2. Pred("JSON", p).word = "JSON" /\ Pred("JSON", p).name = p
    BY PredType
  <2>3. v \in Value /\ v.path = <<Last(x.path)>> /\ v.value = con.value
    BY <1>4, <2>1
  <2>4. IsPlain(e) /\ "JSON" \in Words \ Marks
    BY <1>9 DEF IsPlain, Words, Marks, Connectives, Comparisons
  <2> HIDE DEF p, v
  <2>5. Compares(Pred("JSON", p), v) = Meant(e)
    BY <2>1, <2>2, <2>3 DEF Compares, Meant
  <2> QED
    BY <1>9, <2>1, <2>3, <2>4, <2>5, OnePredicate DEF p, v
<1>10. x.kind = "ident" => (r = Ok(<<Pred("ANY", x.path)>>, <<Var(con.value)>>)
                              /\ con.kind \in {"string", "number"}) \/ r = Error
  <2> SUFFICES ASSUME x.kind = "ident"
               PROVE  (r = Ok(<<Pred("ANY", x.path)>>, <<Var(con.value)>>)
                         /\ con.kind \in {"string", "number"}) \/ r = Error
    OBVIOUS
  <2>1. x.declared \in DOMAIN TypeOf => name = x.path
    <3> SUFFICES ASSUME x.declared \in DOMAIN TypeOf PROVE name = x.path
      OBVIOUS
    <3>1. term.status = "ok"
      BY DEF TranspileTerm, TranspileIdent, Ok
    <3> QED
      BY <3>1, <1>5
  <2>2. r = Error \/ (con.kind \in {"string", "number"} /\ x.declared \in DOMAIN TypeOf
          /\ r = Ok(<<Pred("ANY", name)>>, <<Var(con.value)>>))
    BY <1>2 DEF TranspileHas
  <2> QED
    BY <2>1, <2>2
<1>11. x.kind = "select" =>
         \/ r = Error \/ r = Panic
         \/ con.kind = "string" /\ r = Ok(<<Pred("JSON", x.path)>>, <<Var(con.value)>>)
         \/ con.kind = "string"
            /\ r = Ok(<<Pred("JSON", Front(x.path))>>, <<FieldVar(Last(x.path), con.value)>>)
  <2> SUFFICES ASSUME x.kind = "select"
               PROVE  \/ r = Error \/ r = Panic
                      \/ con.kind = "string" /\ r = Ok(<<Pred("JSON", x.path)>>, <<Var(con.value)>>)
                      \/ con.kind = "string"
                         /\ r = Ok(<<Pred("JSON", Front(x.path))>>, <<FieldVar(Last(x.path), con.value)>>)
    OBVIOUS
  <2>1. CASE term.status # "ok" \/ con.kind \notin {"string", "number"}
    BY <1>2, <2>1 DEF TranspileHas
  <2>2. CASE term.status = "ok" /\ con.kind \in {"string", "number"}
    <3>1. name = x.path
      BY <1>5, <2>2
    <3>2. \/ r = Panic
          \/ con.kind = "string" /\ r = Ok(<<Pred("JSON", name)>>, <<Var(con.value)>>)
          \/ con.kind = "string"
             /\ r = Ok(<<Pred("JSON", Front(name))>>, <<FieldVar(Last(name), con.value)>>)
      BY <1>2, <2>2 DEF TranspileHas
    <3> QED
      BY <3>1, <3>2
  <2> QED
    BY <2>1, <2>2
<1>12. x.kind \notin {"ident", "select"} => r = Error
  BY <1>2 DEF TranspileHas
<1> HIDE DEF x, con, r
<1> QED
  BY <1>6, <1>7, <1>8, <1>9, <1>10, <1>11, <1>12

\* So does every comparison.
LEMMA LeafSingle ==
  ASSUME NEW e, IsComparison(e)
  PROVE  Single(e)
  BY ComparisonSingle, HasSingle

\* A set is as large as one that it is mapped onto one to one.
LEMMA Bijective ==
  ASSUME NEW S, IsFiniteSet(S), NEW T, NEW f \in [S -> T],
         \A a, b \in S : f[a] = f[b] => a = b, \A t \in T : \E a \in S : f[a] = t
  PROVE  IsFiniteSet(T) /\ Cardinality(T) = Cardinality(S)
<1>1. f \in Bijection(S, T)
  BY Fun_IsBij
<1>2. ExistsBijection(S, T)
  BY <1>1 DEF ExistsBijection
<1> QED
  BY <1>2, FS_Bijection

\* Sizes of disjoint sets add up.
LEMMA DisjointUnion ==
  ASSUME NEW S, IsFiniteSet(S), NEW T, IsFiniteSet(T), S \cap T = {}
  PROVE  /\ IsFiniteSet(S \cup T)
         /\ Cardinality(S \cup T) = Cardinality(S) + Cardinality(T)
<1>1. Cardinality(S) \in Nat /\ Cardinality(T) \in Nat
  BY FS_CardinalityType
<1>2. /\ IsFiniteSet(S \cup T)
      /\ Cardinality(S \cup T) = Cardinality(S) + Cardinality(T) - Cardinality({})
  BY FS_Union
<1>3. Cardinality({}) = 0
  BY FS_EmptySet
<1> QED
  BY <1>1, <1>2, <1>3

\* A set of numbers that is shifted keeps its size.
LEMMA Shifting ==
  ASSUME NEW n \in Nat, NEW S \in SUBSET Nat, IsFiniteSet(S), NEW T, T = {n + h : h \in S}
  PROVE  IsFiniteSet(T) /\ Cardinality(T) = Cardinality(S)
<1> DEFINE f == [h \in S |-> n + h]
<1>1. f \in [S -> T] /\ \A a, b \in S : f[a] = f[b] => a = b
  OBVIOUS
<1>2. \A t \in T : \E a \in S : f[a] = t
  OBVIOUS
<1> HIDE DEF f
<1> QED
  BY <1>1, <1>2, Bijective

\* The first i odd numbers.
LEMMA OddNumbers ==
  ASSUME NEW i \in Nat, NEW T, T = {2 * j - 1 : j \in 1..i}
  PROVE  IsFiniteSet(T) /\ Cardinality(T) = i
<1> DEFINE S == 1..i
           f == [j \in S |-> 2 * j - 1]
<1>1. IsFiniteSet(S) /\ Cardinality(S) = i
  BY FS_Interval
<1>2. f \in [S -> T] /\ \A a, b \in S : f[a] = f[b] => a = b
  OBVIOUS
<1>3. \A t \in T : \E a \in S : f[a] = t
  OBVIOUS
<1> HIDE DEF f, S
<1> QED
  BY <1>1, <1>2, <1>3, Bijective

-----------------------------------------------------------------------------
\* The positions of the placeholders.
Positions(s) == {i \in 1..Len(s) : s[i].word \notin Marks}

\* There are finitely many.
LEMMA PositionsType ==
  ASSUME NEW s \in Seq(Token)
  PROVE  /\ Len(s) \in Nat /\ Positions(s) \in SUBSET Nat
         /\ IsFiniteSet(Positions(s)) /\ Cardinality(Positions(s)) \in Nat
<1>1. Len(s) \in Nat /\ Positions(s) \in SUBSET (1..Len(s)) /\ Positions(s) \in SUBSET Nat
  BY DEF Positions
<1>2. IsFiniteSet(1..Len(s))
  BY <1>1, FS_Interval
<1>3. IsFiniteSet(Positions(s))
  BY <1>1, <1>2, FS_Subset
<1> QED
  BY <1>1, <1>3, FS_CardinalityType

\* They are the holes of a translation.
LEMMA HolesArePositions ==
  ASSUME NEW r \in Result
  PROVE  r.sql \in Seq(Token) /\ Holes(r) = Positions(r.sql)
<1>1. r.sql \in Seq(Token)
  BY DEF Result
<1>2. DOMAIN r.sql = 1..Len(r.sql)
  BY <1>1
<1> QED
  BY <1>1, <1>2 DEF Holes, Positions, Marks

\* c is s, a token of a word, and t.
IsInfix(c, s, w, t) ==
  /\ c \in Seq(Token) /\ Len(c) = Len(s) + 1 + Len(t)
  /\ \A i \in 1..Len(s) : c[i] = s[i]
  /\ c[Len(s) + 1].word = w
  /\ \A i \in 1..Len(t) : c[Len(s) + 1 + i] = t[i]

\* A connective is a token.
LEMMA WordType ==
  ASSUME NEW w \in Connectives
  PROVE  /\ Word(w) \in Token /\ Word(w).word = w
         /\ <<Word(w)>> \in Seq(Token) /\ Len(<<Word(w)>>) = 1 /\ <<Word(w)>>[1] = Word(w)
<1>1. <<>> \in Seq(Part)
  BY NoElement
<1>2. Word(w) \in Token /\ Word(w).word = w
  BY <1>1 DEF Word, Token, Words
<1> QED
  BY <1>2, OneElement

\* Two translations with a connective between them.
LEMMA Infix ==
  ASSUME NEW s \in Seq(Token), NEW t \in Seq(Token), NEW w \in Connectives
  PROVE  IsInfix(s \o <<Word(w)>> \o t, s, w, t)
<1> DEFINE u == <<Word(w)>>
           d == s \o u
           c == d \o t
<1>1. u \in Seq(Token) /\ Len(u) = 1 /\ u[1] = Word(w) /\ Word(w).word = w
  BY WordType
<1> HIDE DEF u
<1>2. /\ d \in Seq(Token) /\ Len(d) = Len(s) + Len(u)
      /\ \A i \in 1..Len(s) : d[i] = s[i]
      /\ \A i \in 1..Len(u) : d[Len(s) + i] = u[i]
  <2>1. u \in Seq(Token)
    BY <1>1
  <2> QED
    BY <2>1, Concatenation
<1> HIDE DEF d
<1>3. /\ c \in Seq(Token) /\ Len(c) = Len(d) + Len(t)
      /\ \A i \in 1..Len(d) : c[i] = d[i]
      /\ \A i \in 1..Len(t) : c[Len(d) + i] = t[i]
  <2>1. d \in Seq(Token)
    BY <1>2
  <2> QED
    BY <2>1, Concatenation
<1> HIDE DEF c
<1>4. Len(s) \in Nat /\ Len(d) = Len(s) + 1 /\ 1 \in 1..Len(u)
  BY <1>1, <1>2
<1>5. d[Len(s) + 1] = Word(w)
  <2>1. d[Len(s) + 1] = u[1]
    BY <1>2, <1>4
  <2> QED
    BY <1>1, <2>1
<1>6. Len(s) + 1 \in 1..Len(d) /\ \A i \in 1..Len(s) : i \in 1..Len(d)
  BY <1>4
<1>7. c[Len(s) + 1] = Word(w) /\ \A i \in 1..Len(s) : c[i] = s[i]
  BY <1>2, <1>3, <1>5, <1>6
<1>8. Len(c) = Len(s) + 1 + Len(t) /\ \A i \in 1..Len(t) : c[Len(s) + 1 + i] = t[i]
  BY <1>3, <1>4
<1>9. IsInfix(c, s, w, t)
  BY <1>1, <1>3, <1>7, <1>8 DEF IsInfix
<1> QED
  BY <1>9 DEF c, d, u

\* NOT in front of a translation.
LEMMA Prefix ==
  ASSUME NEW t \in Seq(Token), NEW w \in Connectives
  PROVE  IsInfix(<<Word(w)>> \o t, <<>>, w, t)
<1> DEFINE e == <<>>
<1>1. e \in Seq(Token) /\ e \o <<Word(w)>> = <<Word(w)>>
  <2>1. <<Word(w)>> \in Seq(Token)
    BY WordType
  <2> QED
    BY <2>1, NoElement
<1> HIDE DEF e
<1>2. IsInfix(e \o <<Word(w)>> \o t, e, w, t)
  BY <1>1, Infix
<1> QED
  BY <1>1, <1>2 DEF e

\* A connective has no placeholder: those of both sides are what there is.
LEMMA InfixPositions ==
  ASSUME NEW s \in Seq(Token), NEW t \in Seq(Token), NEW c, NEW w \in Marks, IsInfix(c, s, w, t)
  PROVE  Cardinality(Positions(c)) = Cardinality(Positions(s)) + Cardinality(Positions(t))
<1> DEFINE n == Len(s) + 1
           T == {n + h : h \in Positions(t)}
<1>0. /\ n = Len(s) + 1 /\ Len(c) = n + Len(t) /\ c \in Seq(Token)
      /\ \A i \in 1..Len(s) : c[i] = s[i]
      /\ c[n].word \in Marks
      /\ \A i \in 1..Len(t) : c[n + i] = t[i]
  BY DEF IsInfix
<1>1. Len(s) \in Nat /\ Len(t) \in Nat /\ Len(c) \in Nat /\ n \in Nat
  BY <1>0, PositionsType
<1> HIDE DEF n
<1>2. ASSUME NEW i \in 1..Len(c)
      PROVE  c[i].word \notin Marks <=> i \in Positions(s) \/ i \in T
  <2>1. CASE i < n
    <3>1. i \in 1..Len(s) /\ i \notin T
      BY <1>0, <1>1, <2>1 DEF Positions
    <3> QED
      BY <1>0, <3>1 DEF Positions
  <2>2. CASE i = n
    <3>1. i \notin 1..Len(s) /\ i \notin T
      BY <1>0, <1>1, <2>2 DEF Positions
    <3> QED
      BY <1>0, <2>2, <3>1 DEF Positions
  <2>3. CASE i > n
    <3>1. i - n \in 1..Len(t) /\ i = n + (i - n)
      <4>1. i \in Int /\ i <= n + Len(t)
        BY <1>0, <1>1
      <4> QED
        BY <1>1, <2>3, <4>1
    <3>2. PICK j \in 1..Len(t) : i = n + j
      BY <3>1
    <3>3. i \notin 1..Len(s)
      BY <1>0, <1>1, <2>3
    <3>4. i \in T <=> j \in Positions(t)
      BY <1>1, <3>2, PositionsType DEF Positions
    <3>5. c[i] = t[j]
      BY <1>0, <3>2
    <3>6. j \in Positions(t) <=> c[i].word \notin Marks
      BY <3>5 DEF Positions
    <3> QED
      BY <3>3, <3>4, <3>6 DEF Positions
  <2> QED
    BY <1>0, <1>1, <2>1, <2>2, <2>3
<1>3. /\ \A i \in Positions(s) : i \in 1..Len(c) /\ i < n
      /\ \A i \in T : i \in 1..Len(c) /\ i > n
  BY <1>0, <1>1 DEF Positions
<1>4. Positions(s) \cap T = {}
  BY <1>1, <1>3
<1> HIDE DEF T
<1>5. Positions(c) = Positions(s) \cup T
  <2>1. \A i \in 1..Len(c) : i \in Positions(c) <=> i \in Positions(s) \cup T
    BY <1>2 DEF Positions
  <2>2. Positions(c) \subseteq 1..Len(c)
    BY DEF Positions
  <2> QED
    BY <1>3, <2>1, <2>2
<1>6. IsFiniteSet(T) /\ Cardinality(T) = Cardinality(Positions(t))
  BY <1>1, PositionsType, Shifting DEF T
<1>7. IsFiniteSet(Positions(s))
  BY PositionsType
<1> QED
  BY <1>4, <1>5, <1>6, <1>7, DisjointUnion

\* The same of AND and OR, and of NOT.
LEMMA InfixHoles ==
  ASSUME NEW l \in Result, NEW r \in Result, NEW w \in Connectives,
         NEW q \in Result, q.sql = l.sql \o <<Word(w)>> \o r.sql
  PROVE  Cardinality(Holes(q)) = Cardinality(Holes(l)) + Cardinality(Holes(r))
<1> DEFINE s == l.sql
           t == r.sql
           c == q.sql
<1>1. /\ s \in Seq(Token) /\ Holes(l) = Positions(s)
      /\ t \in Seq(Token) /\ Holes(r) = Positions(t)
      /\ c \in Seq(Token) /\ Holes(q) = Positions(c)
  BY HolesArePositions
<1>2. c = s \o <<Word(w)>> \o t
  OBVIOUS
<1>3. w \in Marks
  BY DEF Marks
<1> HIDE DEF s, t, c
<1>4. IsInfix(c, s, w, t)
  BY <1>1, <1>2, Infix
<1> QED
  BY <1>1, <1>3, <1>4, InfixPositions

LEMMA PrefixHoles ==
  ASSUME NEW r \in Result, NEW q \in Result, q.sql = <<Word("NOT")>> \o r.sql
  PROVE  Cardinality(Holes(q)) = Cardinality(Holes(r))
<1> DEFINE t == r.sql
           c == q.sql
           e == <<>>
<1>1. /\ t \in Seq(Token) /\ Holes(r) = Positions(t)
      /\ c \in Seq(Token) /\ Holes(q) = Positions(c)
  BY HolesArePositions
<1>2. c = <<Word("NOT")>> \o t
  OBVIOUS
<1>3. "NOT" \in Marks /\ "NOT" \in Connectives
  BY DEF Marks, Connectives
<1> HIDE DEF t, c
<1>4. IsInfix(c, e, "NOT", t)
  BY <1>1, <1>2, <1>3, Prefix
<1>5. e \in Seq(Token) /\ Cardinality(Positions(e)) = 0
  <2>1. e \in Seq(Token) /\ Len(e) = 0
    BY NoElement
  <2>2. Positions(e) = {}
    BY <2>1 DEF Positions
  <2> QED
    BY <2>1, <2>2, FS_EmptySet
<1> HIDE DEF e
<1>6. Cardinality(Positions(c)) = Cardinality(Positions(e)) + Cardinality(Positions(t))
  BY <1>1, <1>3, <1>4, <1>5, InfixPositions
<1>7. Cardinality(Positions(t)) \in Nat
  BY <1>1, PositionsType
<1> QED
  BY <1>1, <1>5, <1>6, <1>7

-----------------------------------------------------------------------------
\* Filters: what connectives do to what the SQL selects

\* The j-th comparison is the predicate at 2j - 1 with the j-th value, and the
\* tokens between are AND and OR.
Fits(pred, v, e) ==
  pred.word \notin Marks /\ IsColumn(pred.name) /\ IsPlain(e) /\ Compares(pred, v) = Meant(e)

Aligned(sql, vars, leaves) ==
  /\ Len(leaves) > 0 /\ Len(vars) = Len(leaves) /\ Len(sql) = 2 * Len(leaves) - 1
  /\ \A j \in 1..Len(leaves) : Fits(sql[2 * j - 1], vars[j], leaves[j])
  /\ \A j \in 1..(Len(leaves) - 1) : sql[2 * j].word \in {"AND", "OR"}

\* A position is odd, of a comparison, or even, of a connective.
LEMMA Halves ==
  ASSUME NEW i \in Nat, i > 0
  PROVE  \E j \in Nat : i = 2 * j \/ i = 2 * j - 1
<1>1. (i + 1) \div 2 \in Nat /\ (i = 2 * ((i + 1) \div 2) \/ i = 2 * ((i + 1) \div 2) - 1)
  OBVIOUS
<1> QED
  BY <1>1

\* A connective between two aligned translations is aligned.
LEMMA AlignedInfix ==
  ASSUME NEW s \in Seq(Token), NEW v \in Seq(Value), NEW l \in Seq(Leaves), Aligned(s, v, l),
         NEW t \in Seq(Token), NEW w \in Seq(Value), NEW m \in Seq(Leaves), Aligned(t, w, m),
         NEW fn \in {"AND", "OR"}, NEW c, IsInfix(c, s, fn, t)
  PROVE  Aligned(c, v \o w, l \o m)
<1> DEFINE x == v \o w
           k == l \o m
           a == Len(l)
           b == Len(m)
<1>1. /\ a \in Nat /\ a > 0 /\ Len(v) = a /\ Len(s) = 2 * a - 1
      /\ b \in Nat /\ b > 0 /\ Len(w) = b /\ Len(t) = 2 * b - 1
  BY DEF Aligned
<1>2. /\ Len(x) = a + b
      /\ \A i \in 1..a : x[i] = v[i]
      /\ \A i \in 1..b : x[a + i] = w[i]
  <2>1. /\ Len(x) = Len(v) + Len(w)
        /\ \A i \in 1..Len(v) : x[i] = v[i]
        /\ \A i \in 1..Len(w) : x[Len(v) + i] = w[i]
    BY Concatenation
  <2> QED
    BY <1>1, <2>1
<1>3. /\ Len(k) = a + b
      /\ \A i \in 1..a : k[i] = l[i]
      /\ \A i \in 1..b : k[a + i] = m[i]
  BY Concatenation
<1>4. /\ Len(c) = 2 * (a + b) - 1
      /\ \A i \in 1..(2 * a - 1) : c[i] = s[i]
      /\ c[2 * a].word = fn
      /\ \A i \in 1..(2 * b - 1) : c[2 * a + i] = t[i]
  <2>1. /\ Len(c) = Len(s) + 1 + Len(t)
        /\ \A i \in 1..Len(s) : c[i] = s[i]
        /\ c[Len(s) + 1].word = fn
        /\ \A i \in 1..Len(t) : c[Len(s) + 1 + i] = t[i]
    BY DEF IsInfix
  <2>2. Len(s) + 1 = 2 * a
    BY <1>1
  <2>3. Len(c) = 2 * (a + b) - 1
    BY <1>1, <2>1
  <2> QED
    BY <1>1, <2>1, <2>2, <2>3
<1>5. /\ \A j \in 1..a : Fits(s[2 * j - 1], v[j], l[j])
      /\ \A j \in 1..b : Fits(t[2 * j - 1], w[j], m[j])
      /\ \A j \in 1..(a - 1) : s[2 * j].word \in {"AND", "OR"}
      /\ \A j \in 1..(b - 1) : t[2 * j].word \in {"AND", "OR"}
  BY DEF Aligned
<1> HIDE DEF x, k, a, b
<1>6. ASSUME NEW j \in 1..(a + b)
      PROVE  Fits(c[2 * j - 1], x[j], k[j])
  <2>1. CASE j <= a
    <3>1. j \in 1..a /\ 2 * j - 1 \in 1..(2 * a - 1)
      BY <1>1, <2>1
    <3> QED
      BY <1>2, <1>3, <1>4, <1>5, <3>1
  <2>2. CASE j > a
    <3> DEFINE i == j - a
    <3>1. i \in 1..b /\ 2 * i - 1 \in 1..(2 * b - 1) /\ j = a + i
          /\ 2 * j - 1 = 2 * a + (2 * i - 1)
      BY <1>1, <2>2
    <3> HIDE DEF i
    <3>2. c[2 * j - 1] = t[2 * i - 1] /\ x[j] = w[i] /\ k[j] = m[i]
      BY <1>2, <1>3, <1>4, <3>1
    <3> QED
      BY <1>5, <3>1, <3>2
  <2> QED
    BY <1>1, <2>1, <2>2
<1>7. ASSUME NEW j \in 1..(a + b - 1)
      PROVE  c[2 * j].word \in {"AND", "OR"}
  <2>1. CASE j < a
    <3>1. j \in 1..(a - 1) /\ 2 * j \in 1..(2 * a - 1)
      BY <1>1, <2>1
    <3> QED
      BY <1>4, <1>5, <3>1
  <2>2. CASE j = a
    BY <1>4, <2>2
  <2>3. CASE j > a
    <3> DEFINE i == j - a
    <3>1. i \in 1..(b - 1) /\ 2 * i \in 1..(2 * b - 1) /\ 2 * j = 2 * a + 2 * i
      BY <1>1, <2>3
    <3> HIDE DEF i
    <3>2. c[2 * j] = t[2 * i]
      BY <1>4, <3>1
    <3> QED
      BY <1>5, <3>1, <3>2
  <2> QED
    BY <1>1, <2>1, <2>2, <2>3
<1>8. Len(k) > 0 /\ Len(x) = Len(k) /\ Len(c) = 2 * Len(k) - 1
  BY <1>1, <1>2, <1>3, <1>4
<1>9. /\ \A j \in 1..Len(k) : Fits(c[2 * j - 1], x[j], k[j])
      /\ \A j \in 1..(Len(k) - 1) : c[2 * j].word \in {"AND", "OR"}
  <2>1. Len(k) = a + b
    BY <1>3
  <2>2. ASSUME NEW j \in 1..Len(k) PROVE Fits(c[2 * j - 1], x[j], k[j])
    BY <1>6, <2>1
  <2>3. ASSUME NEW j \in 1..(Len(k) - 1) PROVE c[2 * j].word \in {"AND", "OR"}
    BY <1>1, <1>7, <2>1
  <2> QED
    BY <2>2, <2>3, Zenon
<1>10. Aligned(c, x, k)
  BY <1>8, <1>9, Zenon DEF Aligned
<1> QED
  BY <1>10 DEF x, k

-----------------------------------------------------------------------------
\* What an aligned translation selects: there is a term, of the comparisons
\* that AND joins, in which all of them hold.

SameGroup(sql, i, j) == \A m \in (i..(j - 1)) \cup (j..(i - 1)) : sql[2 * m].word # "OR"

Holds(sql, leaves, row) ==
  \E i \in 1..Len(leaves) : \A j \in 1..Len(leaves) :
    SameGroup(sql, i, j) => Meant(leaves[j]) \in row

\* The placeholders of an aligned translation are its comparisons,
LEMMA AlignedHoles ==
  ASSUME NEW r \in Result, NEW leaves, Len(leaves) \in Nat, Aligned(r.sql, r.vars, leaves)
  PROVE  Holes(r) = {2 * j - 1 : j \in 1..Len(leaves)}
<1> DEFINE c == r.sql
           k == Len(leaves)
           T == {2 * j - 1 : j \in 1..k}
<1>1. Holes(r) = Positions(c)
  BY HolesArePositions
<1>2. /\ k \in Nat /\ Len(c) = 2 * k - 1
      /\ \A j \in 1..k : c[2 * j - 1].word \notin Marks
      /\ \A j \in 1..(k - 1) : c[2 * j].word \in Marks
  BY DEF Aligned, Fits, Marks, Connectives
<1> HIDE DEF c, k
<1>3. ASSUME NEW i \in T
      PROVE  i \in Positions(c)
  <2>1. PICK j \in 1..k : i = 2 * j - 1
    OBVIOUS
  <2>2. i \in 1..Len(c)
    BY <1>2, <2>1
  <2> QED
    BY <1>2, <2>1, <2>2 DEF Positions
<1>4. ASSUME NEW i \in Positions(c)
      PROVE  i \in T
  <2>1. i \in 1..(2 * k - 1) /\ c[i].word \notin Marks
    BY <1>2 DEF Positions
  <2>2. i \in Nat /\ i > 0
    BY <1>2, <2>1
  <2>3. PICK j \in Nat : i = 2 * j \/ i = 2 * j - 1
    BY <2>2, Halves
  <2>4. CASE i = 2 * j
    <3>1. j \in 1..(k - 1)
      BY <1>2, <2>1, <2>4
    <3> QED
      BY <1>2, <2>1, <2>4, <3>1
  <2>5. CASE i = 2 * j - 1
    <3>1. j \in 1..k
      BY <1>2, <2>1, <2>5
    <3> QED
      BY <2>5, <3>1
  <2> QED
    BY <2>3, <2>4, <2>5
<1> QED
  BY <1>1, <1>3, <1>4 DEF k

\* each of which gets its own value,
LEMMA AlignedBound ==
  ASSUME NEW r \in Result, NEW leaves, Len(leaves) \in Nat, Aligned(r.sql, r.vars, leaves),
         NEW j \in 1..Len(leaves)
  PROVE  Bound(r, 2 * j - 1) = Meant(leaves[j])
<1> DEFINE below == {h \in Holes(r) : h <= 2 * j - 1}
<1>1. below = {2 * i - 1 : i \in 1..j}
  <2>1. Holes(r) = {2 * i - 1 : i \in 1..Len(leaves)}
    BY AlignedHoles
  <2>2. \A i \in 1..Len(leaves) : 2 * i - 1 <= 2 * j - 1 <=> i \in 1..j
    OBVIOUS
  <2>3. 1..j \subseteq 1..Len(leaves)
    OBVIOUS
  <2> QED
    BY <2>1, <2>2, <2>3
<1>2. Cardinality(below) = j
  <2>1. j \in Nat
    OBVIOUS
  <2> QED
    BY <1>1, <2>1, OddNumbers
<1> HIDE DEF below
<1>3. Fits(r.sql[2 * j - 1], r.vars[j], leaves[j])
  BY DEF Aligned
<1>4. Bound(r, 2 * j - 1) = Compares(r.sql[2 * j - 1], r.vars[j])
  BY <1>2 DEF Bound, Compares, below
<1> QED
  BY <1>3, <1>4 DEF Fits

\* is not negated,
LEMMA AlignedNotNegated ==
  ASSUME NEW r, NEW leaves, Len(leaves) \in Nat, Aligned(r.sql, r.vars, leaves),
         NEW j \in 1..Len(leaves)
  PROVE  ~Negated(r, 2 * j - 1)
<1> DEFINE i    == 2 * j - 1
           nots == {n \in 1..(i - 1) : \A k \in n..(i - 1) : r.sql[k].word = "NOT"}
<1>1. ASSUME NEW n \in nots
      PROVE  FALSE
  <2>1. i - 1 \in n..(i - 1) /\ i - 1 = 2 * (j - 1) /\ j - 1 \in 1..(Len(leaves) - 1)
    OBVIOUS
  <2>2. r.sql[i - 1].word = "NOT"
    BY <2>1
  <2>3. r.sql[2 * (j - 1)].word \in {"AND", "OR"}
    BY <2>1 DEF Aligned
  <2> QED
    BY <2>1, <2>2, <2>3
<1>2. nots = {}
  BY <1>1
<1>3. Cardinality(nots) = 0
  BY <1>2, FS_EmptySet
<1> HIDE DEF nots
<1> QED
  BY <1>3 DEF Negated, nots

\* and is in the term of those that AND joins it to.
LEMMA AlignedSameTerm ==
  ASSUME NEW r, NEW leaves, Len(leaves) \in Nat, Aligned(r.sql, r.vars, leaves),
         NEW i \in 1..Len(leaves), NEW j \in 1..Len(leaves)
  PROVE  SameTerm(r, 2 * i - 1, 2 * j - 1) <=> SameGroup(r.sql, i, j)
<1> DEFINE c == r.sql
           span(a, b) == (a..b) \cup (b..a)
           gaps == (i..(j - 1)) \cup (j..(i - 1))
<1>1. \A n \in 1..Len(leaves) : c[2 * n - 1].word # "OR"
  BY DEF Aligned, Fits, Marks, Connectives
<1> HIDE DEF c
<1>2. ASSUME NEW m \in gaps
      PROVE  2 * m \in span(2 * i - 1, 2 * j - 1)
  OBVIOUS
<1>3. ASSUME NEW k \in span(2 * i - 1, 2 * j - 1), \A m \in gaps : c[2 * m].word # "OR"
      PROVE  c[k].word # "OR"
  <2>1. k \in Nat /\ k > 0
    OBVIOUS
  <2>2. PICK m \in Nat : k = 2 * m \/ k = 2 * m - 1
    BY <2>1, Halves
  <2>3. CASE k = 2 * m
    <3>1. m \in gaps
      BY <2>3
    <3> QED
      BY <1>3, <2>3, <3>1
  <2>4. CASE k = 2 * m - 1
    <3>1. m \in 1..Len(leaves)
      BY <2>4
    <3> QED
      BY <1>1, <2>4, <3>1
  <2> QED
    BY <2>2, <2>3, <2>4
<1> QED
  BY <1>2, <1>3 DEF SameTerm, SameGroup, c

\* So the rows that are selected are those in which a term holds.
LEMMA AlignedSelects ==
  ASSUME NEW r \in Result, r.status = "ok", NEW leaves, Len(leaves) \in Nat,
         Aligned(r.sql, r.vars, leaves)
  PROVE  /\ ~Refused(r)
         /\ \A row : Selects(r, row) <=> Holds(r.sql, leaves, row)
<1> DEFINE k == Len(leaves)
<1>1. k \in Nat /\ Len(r.vars) = k
  BY DEF Aligned
<1>2. Holes(r) = {2 * j - 1 : j \in 1..k}
  BY AlignedHoles
<1>3. Cardinality(Holes(r)) = k
  BY <1>1, <1>2, OddNumbers
<1>4. \A j \in 1..k : IsColumn(r.sql[2 * j - 1].name)
  BY DEF Aligned, Fits
<1>5. ~Refused(r)
  BY <1>1, <1>2, <1>3, <1>4 DEF Refused
<1>6. \A j \in 1..k : Bound(r, 2 * j - 1) = Meant(leaves[j]) /\ ~Negated(r, 2 * j - 1)
  BY AlignedBound, AlignedNotNegated
<1>7. \A i, j \in 1..k : SameTerm(r, 2 * i - 1, 2 * j - 1) <=> SameGroup(r.sql, i, j)
  BY AlignedSameTerm
<1> HIDE DEF k
<1>8. ASSUME NEW row
      PROVE  Selects(r, row) <=> Holds(r.sql, leaves, row)
  <2> DEFINE Q(i, j) == SameTerm(r, i, j) => IF Negated(r, j) THEN Bound(r, j) \notin row ELSE Bound(r, j) \in row
  <2>1. Selects(r, row) <=> \E i \in Holes(r) : \A j \in Holes(r) : Q(i, j)
    BY DEF Selects
  <2>2. ASSUME NEW i \in 1..k, NEW j \in 1..k
        PROVE  Q(2 * i - 1, 2 * j - 1) <=> (SameGroup(r.sql, i, j) => Meant(leaves[j]) \in row)
    <3>1. ~Negated(r, 2 * j - 1) /\ Bound(r, 2 * j - 1) = Meant(leaves[j])
      BY <1>6
    <3>2. SameTerm(r, 2 * i - 1, 2 * j - 1) <=> SameGroup(r.sql, i, j)
      BY <1>7
    <3> QED
      BY <3>1, <3>2
  <2> HIDE DEF Q
  <2>3. Selects(r, row) <=> \E i \in 1..k : \A j \in 1..k : Q(2 * i - 1, 2 * j - 1)
    BY <1>2, <2>1
  <2>4. Selects(r, row) <=>
          \E i \in 1..k : \A j \in 1..k :
            SameGroup(r.sql, i, j) => Meant(leaves[j]) \in row
    BY <2>2, <2>3
  <2> QED
    BY <2>4 DEF Holds, k
<1> QED
  BY <1>5, <1>8

\* A filter of one term.
NoOr(sql, leaves) == \A m \in 1..(Len(leaves) - 1) : sql[2 * m].word # "OR"

\* What the comparisons of a filter mean.
AtomsOf(leaves) == {Meant(leaves[i]) : i \in DOMAIN leaves}

\* Where the parts of two translations are.
Elements(c, s, t, k, l, m, fn) ==
  /\ Len(l) \in Nat /\ Len(l) > 0 /\ Len(m) \in Nat /\ Len(m) > 0
  /\ Len(k) = Len(l) + Len(m)
  /\ \A i \in 1..Len(l) : k[i] = l[i]
  /\ \A i \in 1..Len(m) : k[Len(l) + i] = m[i]
  /\ \A i \in 1..(Len(l) - 1) : c[2 * i] = s[2 * i]
  /\ c[2 * Len(l)].word = fn
  /\ \A i \in 1..(Len(m) - 1) : c[2 * (Len(l) + i)] = t[2 * i]

\* A connective between two aligned translations has them at these places.
LEMMA InfixElements ==
  ASSUME NEW s \in Seq(Token), NEW v \in Seq(Value), NEW l \in Seq(Leaves), Aligned(s, v, l),
         NEW t \in Seq(Token), NEW w \in Seq(Value), NEW m \in Seq(Leaves), Aligned(t, w, m),
         NEW fn \in {"AND", "OR"}, NEW c, IsInfix(c, s, fn, t)
  PROVE  Elements(c, s, t, l \o m, l, m, fn)
<1> DEFINE k == l \o m
           a == Len(l)
           b == Len(m)
<1>1. /\ a \in Nat /\ a > 0 /\ Len(s) = 2 * a - 1
      /\ b \in Nat /\ b > 0 /\ Len(t) = 2 * b - 1
  BY DEF Aligned
<1>2. /\ Len(k) = a + b
      /\ \A i \in 1..a : k[i] = l[i]
      /\ \A i \in 1..b : k[a + i] = m[i]
  BY Concatenation
<1>3. /\ \A i \in 1..Len(s) : c[i] = s[i]
      /\ c[Len(s) + 1].word = fn
      /\ \A i \in 1..Len(t) : c[Len(s) + 1 + i] = t[i]
  BY DEF IsInfix
<1>4. Len(s) + 1 = 2 * a
  BY <1>1
<1>5. /\ \A i \in 1..(2 * a - 1) : c[i] = s[i]
      /\ c[2 * a].word = fn
      /\ \A i \in 1..(2 * b - 1) : c[2 * a + i] = t[i]
  BY <1>1, <1>3, <1>4
<1> HIDE DEF k, a, b
<1>6. ASSUME NEW i \in 1..(a - 1)
      PROVE  c[2 * i] = s[2 * i]
  <2>1. 2 * i \in 1..(2 * a - 1)
    BY <1>1
  <2> QED
    BY <1>5, <2>1
<1>7. ASSUME NEW i \in 1..(b - 1)
      PROVE  c[2 * (a + i)] = t[2 * i]
  <2>1. 2 * i \in 1..(2 * b - 1) /\ 2 * (a + i) = 2 * a + 2 * i
    BY <1>1
  <2> QED
    BY <1>5, <2>1
<1>8. Elements(c, s, t, k, l, m, fn)
  BY <1>1, <1>2, <1>5, <1>6, <1>7 DEF Elements, a, b
<1> QED
  BY <1>8 DEF k

\* A filter without OR holds if all of its comparisons do.
LEMMA HoldsAll ==
  ASSUME NEW sql, NEW leaves, Len(leaves) \in Nat, Len(leaves) > 0, NoOr(sql, leaves), NEW row
  PROVE  Holds(sql, leaves, row) <=> \A j \in 1..Len(leaves) : Meant(leaves[j]) \in row
<1>1. ASSUME NEW i \in 1..Len(leaves), NEW j \in 1..Len(leaves)
      PROVE  SameGroup(sql, i, j)
  <2>1. (i..(j - 1)) \cup (j..(i - 1)) \subseteq 1..(Len(leaves) - 1)
    OBVIOUS
  <2> QED
    BY <2>1 DEF SameGroup, NoOr
<1>2. 1 \in 1..Len(leaves)
  OBVIOUS
<1> QED
  BY <1>1, <1>2 DEF Holds

\* Only the comparisons of a filter matter to it.
LEMMA HoldsWithin ==
  ASSUME NEW sql, NEW leaves \in Seq(Leaves), NEW row
  PROVE  Holds(sql, leaves, row) <=> Holds(sql, leaves, row \cap AtomsOf(leaves))
<1>1. \A j \in 1..Len(leaves) : Meant(leaves[j]) \in AtomsOf(leaves)
  BY DEF AtomsOf
<1> QED
  BY <1>1 DEF Holds

\* AND between filters of one term each is what it means,
LEMMA AndHolds ==
  ASSUME NEW s \in Seq(Token), NEW v \in Seq(Value), NEW l \in Seq(Leaves), Aligned(s, v, l),
         NEW t \in Seq(Token), NEW w \in Seq(Value), NEW m \in Seq(Leaves), Aligned(t, w, m),
         NEW c, IsInfix(c, s, "AND", t), NoOr(s, l), NoOr(t, m), NEW row
  PROVE  /\ NoOr(c, l \o m)
         /\ Holds(c, l \o m, row) <=> Holds(s, l, row) /\ Holds(t, m, row)
<1> DEFINE k == l \o m
           a == Len(l)
           b == Len(m)
<1>1. /\ a \in Nat /\ a > 0 /\ b \in Nat /\ b > 0
      /\ Len(k) = a + b
      /\ \A i \in 1..a : k[i] = l[i]
      /\ \A i \in 1..b : k[a + i] = m[i]
      /\ \A i \in 1..(a - 1) : c[2 * i] = s[2 * i]
      /\ c[2 * a].word = "AND"
      /\ \A i \in 1..(b - 1) : c[2 * (a + i)] = t[2 * i]
  <2>1. "AND" \in {"AND", "OR"}
    OBVIOUS
  <2>2. Elements(c, s, t, k, l, m, "AND")
    BY <2>1, InfixElements
  <2> QED
    BY <2>2 DEF Elements
<1>2. /\ \A i \in 1..(a - 1) : s[2 * i].word # "OR"
      /\ \A i \in 1..(b - 1) : t[2 * i].word # "OR"
  BY DEF NoOr
<1>3. /\ Holds(s, l, row) <=> \A j \in 1..a : Meant(l[j]) \in row
      /\ Holds(t, m, row) <=> \A j \in 1..b : Meant(m[j]) \in row
  BY <1>1, HoldsAll
<1> HIDE DEF k, a, b
<1>4. ASSUME NEW n \in 1..(a + b - 1)
      PROVE  c[2 * n].word # "OR"
  <2>1. CASE n < a
    <3>1. n \in 1..(a - 1)
      BY <1>1, <2>1
    <3> QED
      BY <1>1, <1>2, <3>1
  <2>2. CASE n = a
    BY <1>1, <2>2
  <2>3. CASE n > a
    <3>1. n - a \in 1..(b - 1) /\ n = a + (n - a)
      BY <1>1, <2>3
    <3>2. PICK i \in 1..(b - 1) : n = a + i
      BY <3>1
    <3> QED
      BY <1>1, <1>2, <3>2
  <2> QED
    BY <1>1, <2>1, <2>2, <2>3
<1>5. NoOr(c, k)
  BY <1>1, <1>4 DEF NoOr
<1>6. Holds(c, k, row) <=> \A j \in 1..(a + b) : Meant(k[j]) \in row
  <2>1. Len(k) \in Nat /\ Len(k) > 0 /\ Len(k) = a + b
    BY <1>1
  <2> QED
    BY <1>5, <2>1, HoldsAll
<1>7. (\A j \in 1..(a + b) : Meant(k[j]) \in row)
        <=> (\A j \in 1..a : Meant(l[j]) \in row) /\ (\A j \in 1..b : Meant(m[j]) \in row)
  <2>1. ASSUME \A j \in 1..(a + b) : Meant(k[j]) \in row
        PROVE  (\A j \in 1..a : Meant(l[j]) \in row) /\ (\A j \in 1..b : Meant(m[j]) \in row)
    <3>1. ASSUME NEW j \in 1..a PROVE Meant(l[j]) \in row
      <4>1. j \in 1..(a + b) /\ k[j] = l[j]
        BY <1>1
      <4> QED
        BY <2>1, <4>1
    <3>2. ASSUME NEW j \in 1..b PROVE Meant(m[j]) \in row
      <4>1. a + j \in 1..(a + b) /\ k[a + j] = m[j]
        BY <1>1
      <4> QED
        BY <2>1, <4>1
    <3> QED
      BY <3>1, <3>2
  <2>2. ASSUME \A j \in 1..a : Meant(l[j]) \in row, \A j \in 1..b : Meant(m[j]) \in row,
               NEW j \in 1..(a + b)
        PROVE  Meant(k[j]) \in row
    <3>1. CASE j <= a
      <4>1. j \in 1..a
        BY <1>1, <3>1
      <4> QED
        BY <1>1, <2>2, <4>1
    <3>2. CASE j > a
      <4>1. j - a \in 1..b /\ j = a + (j - a)
        BY <1>1, <3>2
      <4>2. PICK i \in 1..b : j = a + i
        BY <4>1
      <4> QED
        BY <1>1, <2>2, <4>2
    <3> QED
      BY <1>1, <3>1, <3>2
  <2> QED
    BY <2>1, <2>2
<1> QED
  BY <1>3, <1>5, <1>6, <1>7 DEF k

\* Comparisons around an OR are not in the same term.
LEMMA OrGroups ==
  ASSUME NEW c, NEW s, NEW t, NEW k, NEW l, NEW m, Elements(c, s, t, k, l, m, "OR")
  PROVE  /\ \A i, j \in 1..Len(l) : SameGroup(c, i, j) <=> SameGroup(s, i, j)
         /\ \A i, j \in 1..Len(m) :
              SameGroup(c, Len(l) + i, Len(l) + j) <=> SameGroup(t, i, j)
         /\ \A i \in 1..Len(l), j \in 1..Len(m) :
              ~SameGroup(c, i, Len(l) + j) /\ ~SameGroup(c, Len(l) + j, i)
<1> DEFINE a == Len(l)
           b == Len(m)
<1>0. /\ a \in Nat /\ a > 0 /\ b \in Nat /\ b > 0 /\ c[2 * a].word = "OR"
      /\ \A i \in 1..(a - 1) : c[2 * i] = s[2 * i]
      /\ \A i \in 1..(b - 1) : c[2 * (a + i)] = t[2 * i]
  BY DEF Elements
<1> HIDE DEF a, b
<1>1. ASSUME NEW i \in 1..a, NEW j \in 1..a
      PROVE  SameGroup(c, i, j) <=> SameGroup(s, i, j)
  <2>1. \A n \in (i..(j - 1)) \cup (j..(i - 1)) : n \in 1..(a - 1)
    BY <1>0
  <2>2. \A n \in (i..(j - 1)) \cup (j..(i - 1)) : c[2 * n] = s[2 * n]
    BY <1>0, <2>1
  <2> QED
    BY <2>2 DEF SameGroup
<1>2. ASSUME NEW i \in 1..b, NEW j \in 1..b
      PROVE  SameGroup(c, a + i, a + j) <=> SameGroup(t, i, j)
  <2>1. ASSUME NEW n \in (i..(j - 1)) \cup (j..(i - 1))
        PROVE  /\ a + n \in ((a + i)..((a + j) - 1)) \cup ((a + j)..((a + i) - 1))
               /\ c[2 * (a + n)] = t[2 * n]
    <3>1. n \in 1..(b - 1)
      BY <1>0
    <3> QED
      BY <1>0, <3>1
  <2>2. ASSUME NEW n \in ((a + i)..((a + j) - 1)) \cup ((a + j)..((a + i) - 1))
        PROVE  \E o \in (i..(j - 1)) \cup (j..(i - 1)) : n = a + o
    <3>1. n - a \in (i..(j - 1)) \cup (j..(i - 1)) /\ n = a + (n - a)
      BY <1>0
    <3> QED
      BY <1>0, <3>1
  <2>3. SameGroup(c, a + i, a + j) =>  SameGroup(t, i, j)
    <3> SUFFICES ASSUME SameGroup(c, a + i, a + j), NEW n \in (i..(j - 1)) \cup (j..(i - 1))
                 PROVE  t[2 * n].word # "OR"
      BY DEF SameGroup
    <3>1. PICK p : p = a + n
      OBVIOUS
    <3>2. p \in ((a + i)..((a + j) - 1)) \cup ((a + j)..((a + i) - 1)) /\ c[2 * p] = t[2 * n]
      BY <2>1, <3>1
    <3>3. c[2 * p].word # "OR"
      BY <3>2 DEF SameGroup
    <3> QED
      BY <3>2, <3>3
  <2>4. SameGroup(t, i, j) =>  SameGroup(c, a + i, a + j)
    <3> SUFFICES ASSUME SameGroup(t, i, j),
                        NEW n \in ((a + i)..((a + j) - 1)) \cup ((a + j)..((a + i) - 1))
                 PROVE  c[2 * n].word # "OR"
      BY DEF SameGroup
    <3>1. PICK o \in (i..(j - 1)) \cup (j..(i - 1)) : n = a + o
      BY <2>2
    <3>2. c[2 * n] = t[2 * o]
      BY <2>1, <3>1
    <3>3. t[2 * o].word # "OR"
      BY DEF SameGroup
    <3> QED
      BY <3>2, <3>3
  <2> QED
    BY <2>3, <2>4
<1>3. ASSUME NEW i \in 1..a, NEW j \in 1..b
      PROVE  ~SameGroup(c, i, a + j) /\ ~SameGroup(c, a + j, i)
  <2>1. a \in i..(a + j - 1)
    BY <1>0
  <2> QED
    BY <1>0, <2>1 DEF SameGroup
<1> QED
  BY <1>1, <1>2, <1>3 DEF a, b

\* OR between any two filters is what it means.
LEMMA OrHolds ==
  ASSUME NEW s \in Seq(Token), NEW v \in Seq(Value), NEW l \in Seq(Leaves), Aligned(s, v, l),
         NEW t \in Seq(Token), NEW w \in Seq(Value), NEW m \in Seq(Leaves), Aligned(t, w, m),
         NEW c, IsInfix(c, s, "OR", t), NEW row
  PROVE  Holds(c, l \o m, row) <=> Holds(s, l, row) \/ Holds(t, m, row)
<1> DEFINE k == l \o m
           a == Len(l)
           b == Len(m)
<1>0. Elements(c, s, t, k, l, m, "OR")
  <2>1. "OR" \in {"AND", "OR"}
    OBVIOUS
  <2> QED
    BY <2>1, InfixElements
<1>1. /\ a \in Nat /\ a > 0 /\ b \in Nat /\ b > 0
      /\ Len(k) = a + b
      /\ \A i \in 1..a : k[i] = l[i]
      /\ \A i \in 1..b : k[a + i] = m[i]
      /\ \A i \in 1..(a - 1) : c[2 * i] = s[2 * i]
      /\ c[2 * a].word = "OR"
      /\ \A i \in 1..(b - 1) : c[2 * (a + i)] = t[2 * i]
  BY <1>0 DEF Elements
<1> HIDE DEF k, a, b
<1>2. /\ \A i, j \in 1..a : SameGroup(c, i, j) <=> SameGroup(s, i, j)
      /\ \A i, j \in 1..b : SameGroup(c, a + i, a + j) <=> SameGroup(t, i, j)
      /\ \A i \in 1..a, j \in 1..b : ~SameGroup(c, i, a + j) /\ ~SameGroup(c, a + j, i)
  BY <1>0, OrGroups DEF a, b
<1> DEFINE P(i, j) == SameGroup(c, i, j) => Meant(k[j]) \in row
           L(i, j) == SameGroup(s, i, j) => Meant(l[j]) \in row
           R(i, j) == SameGroup(t, i, j) => Meant(m[j]) \in row
<1>3. /\ \A i, j \in 1..a : P(i, j) <=> L(i, j)
      /\ \A i, j \in 1..b : P(a + i, a + j) <=> R(i, j)
      /\ \A i \in 1..a, j \in 1..b : P(i, a + j) /\ P(a + j, i)
  BY <1>1, <1>2
<1>4. /\ Holds(c, k, row) <=> \E i \in 1..(a + b) : \A j \in 1..(a + b) : P(i, j)
      /\ Holds(s, l, row) <=> \E i \in 1..a : \A j \in 1..a : L(i, j)
      /\ Holds(t, m, row) <=> \E i \in 1..b : \A j \in 1..b : R(i, j)
  <2>1. Len(k) = a + b /\ Len(l) = a /\ Len(m) = b
    BY <1>1 DEF a, b
  <2> QED
    BY <2>1 DEF Holds
<1> HIDE DEF P, L, R
<1>5. /\ \A i \in 1..a : i \in 1..(a + b)
      /\ \A i \in 1..b : a + i \in 1..(a + b)
      /\ \A i \in 1..(a + b) : i \in 1..a \/ \E j \in 1..b : i = a + j
  <2>1. a \in Nat /\ b \in Nat
    BY <1>1
  <2>2. \A i \in 1..(a + b) : i \in 1..a \/ (i - a \in 1..b /\ i = a + (i - a))
    BY <2>1
  <2> QED
    BY <2>1, <2>2
<1>6. ASSUME NEW i \in 1..a
      PROVE  (\A j \in 1..(a + b) : P(i, j)) <=> (\A j \in 1..a : L(i, j))
  <2>1. ASSUME \A j \in 1..(a + b) : P(i, j), NEW j \in 1..a
        PROVE  L(i, j)
    BY <1>3, <1>5, <2>1
  <2>2. ASSUME \A j \in 1..a : L(i, j), NEW j \in 1..(a + b)
        PROVE  P(i, j)
    <3>1. CASE j \in 1..a
      BY <1>3, <2>2, <3>1
    <3>2. CASE \E n \in 1..b : j = a + n
      BY <1>3, <3>2
    <3> QED
      BY <1>5, <3>1, <3>2
  <2> QED
    BY <2>1, <2>2
<1>7. ASSUME NEW i \in 1..b
      PROVE  (\A j \in 1..(a + b) : P(a + i, j)) <=> (\A j \in 1..b : R(i, j))
  <2>1. ASSUME \A j \in 1..(a + b) : P(a + i, j), NEW j \in 1..b
        PROVE  R(i, j)
    <3>1. P(a + i, a + j)
      BY <1>5, <2>1
    <3> QED
      BY <1>3, <3>1
  <2>2. ASSUME \A j \in 1..b : R(i, j), NEW j \in 1..(a + b)
        PROVE  P(a + i, j)
    <3>1. CASE j \in 1..a
      BY <1>3, <3>1
    <3>2. CASE \E n \in 1..b : j = a + n
      BY <1>3, <2>2, <3>2
    <3> QED
      BY <1>5, <3>1, <3>2
  <2> QED
    BY <2>1, <2>2
<1>8. ASSUME Holds(c, k, row) PROVE Holds(s, l, row) \/ Holds(t, m, row)
  <2>1. PICK i \in 1..(a + b) : \A j \in 1..(a + b) : P(i, j)
    BY <1>4, <1>8
  <2>2. CASE i \in 1..a
    BY <1>4, <1>6, <2>1, <2>2
  <2>3. CASE \E n \in 1..b : i = a + n
    BY <1>4, <1>7, <2>1, <2>3
  <2> QED
    BY <1>5, <2>2, <2>3
<1>9. ASSUME Holds(s, l, row) \/ Holds(t, m, row) PROVE Holds(c, k, row)
  <2>1. CASE Holds(s, l, row)
    BY <1>4, <1>5, <1>6, <2>1
  <2>2. CASE Holds(t, m, row)
    BY <1>4, <1>5, <1>7, <2>2
  <2> QED
    BY <1>9, <2>1, <2>2
<1> QED
  BY <1>8, <1>9 DEF k

\* The comparisons of all filters, and the types of their nodes.
Meanings == {Meant(e) : e \in Leaves}

Fns == Comparisons \cup {":"} \cup Connectives

Nodes ==
  [top : Fns, leaves : Seq(Leaves), fns : SUBSET Fns, mixed : BOOLEAN,
   rows : SUBSET (SUBSET Meanings), result : Result]

\* A predicate has no left side that can be compared.
Nameless(r) == \E i \in Holes(r) : ~IsColumn(r.sql[i].name)

\* There is a placeholder, and there are no more values than placeholders.
Counted(r) ==
  r.status = "ok" => Cardinality(Holes(r)) >= 1 /\ Len(r.vars) <= Cardinality(Holes(r))

\* Values are missing, or a predicate has no left side that can be compared.
Short(r) == r.status = "ok" => Len(r.vars) < Cardinality(Holes(r)) \/ Nameless(r)

\* A filter that should be accepted: no NOT, and no comparison is refused.
Sound(node) ==
  "NOT" \notin node.fns /\ \A i \in 1..Len(node.leaves) : Accepted(node.leaves[i])

\* What is selected is what is meant.
MeansRows(node) ==
  \A row \in SUBSET AtomsOf(node.leaves) :
    Holds(node.result.sql, node.leaves, row) <=> row \in node.rows

\* The inductive invariant of the nodes of a filter.
Translated(node) ==
  /\ node \in Nodes /\ Len(node.leaves) > 0 /\ Counted(node.result)
  /\ Sound(node) =>
       /\ node.result.status = "ok"
       /\ Aligned(node.result.sql, node.result.vars, node.leaves)
       /\ ~node.mixed => /\ node.top # "OR" => NoOr(node.result.sql, node.leaves)
                         /\ MeansRows(node)
  /\ ~Sound(node) => Short(node.result)

\* The types of the parts of results and of nodes.
LEMMA ResultType ==
  ASSUME NEW r \in Result
  PROVE  /\ r.status \in {"ok", "error", "panic"} /\ r.sql \in Seq(Token) /\ r.vars \in Seq(Value)
         /\ Cardinality(Holes(r)) \in Nat /\ Len(r.vars) \in Nat
<1>1. r.status \in {"ok", "error", "panic"} /\ r.sql \in Seq(Token) /\ r.vars \in Seq(Value)
  BY DEF Result
<1>2. Holes(r) = Positions(r.sql)
  BY HolesArePositions
<1> QED
  BY <1>1, <1>2, PositionsType

LEMMA NodeFields ==
  ASSUME NEW node \in Nodes
  PROVE  /\ node.leaves \in Seq(Leaves) /\ node.fns \in SUBSET Fns /\ node.mixed \in BOOLEAN
         /\ node.rows \in SUBSET (SUBSET Meanings) /\ node.result \in Result
         /\ Len(node.leaves) \in Nat
         /\ AtomsOf(node.leaves) \subseteq Meanings /\ Atoms(node) = AtomsOf(node.leaves)
<1>1. /\ node.leaves \in Seq(Leaves) /\ node.fns \in SUBSET Fns /\ node.mixed \in BOOLEAN
      /\ node.rows \in SUBSET (SUBSET Meanings) /\ node.result \in Result
  BY DEF Nodes
<1>2. AtomsOf(node.leaves) \subseteq Meanings
  BY <1>1 DEF AtomsOf, Meanings
<1>3. Atoms(node) = AtomsOf(node.leaves)
  BY DEF Atoms, AtomsOf
<1> QED
  BY <1>1, <1>2, <1>3

\* A short translation is refused, one that is translated as it should be is
\* not.
LEMMA ShortRefused ==
  ASSUME NEW r \in Result, Short(r)
  PROVE  Refused(r)
  BY ResultType DEF Short, Nameless, Refused

\* The invariant implies what the filter is to keep.
LEMMA TranslatedKeepsMeaning ==
  ASSUME NEW node, Translated(node)
  PROVE  KeepsMeaning(node)
<1> DEFINE r == node.result
           k == Len(node.leaves)
<1>1. /\ node \in Nodes /\ r \in Result /\ node.leaves \in Seq(Leaves) /\ k \in Nat
      /\ DOMAIN node.leaves = 1..k /\ Atoms(node) = AtomsOf(node.leaves)
      /\ node.mixed \in BOOLEAN
  <2>1. node \in Nodes
    BY DEF Translated
  <2> QED
    BY <2>1, NodeFields
<1>2. CASE Sound(node)
  <2>1. /\ r.status = "ok" /\ Aligned(r.sql, r.vars, node.leaves)
        /\ ~node.mixed => MeansRows(node)
    BY <1>2 DEF Translated
  <2>2. ~Refused(r) /\ \A row : Selects(r, row) <=> Holds(r.sql, node.leaves, row)
    BY <1>1, <2>1, AlignedSelects
  <2>3. \A i \in DOMAIN node.leaves : IsPlain(node.leaves[i])
    BY <1>1, <2>1 DEF Aligned, Fits
  <2>4. ~node.mixed => \A row \in SUBSET Atoms(node) : Selects(r, row) <=> row \in node.rows
    BY <1>1, <2>1, <2>2 DEF MeansRows
  <2> QED
    BY <2>2, <2>3, <2>4 DEF KeepsMeaning
<1>3. CASE ~Sound(node)
  <2>1. Short(r)
    BY <1>3 DEF Translated
  <2>2. Refused(r)
    BY <1>1, <2>1, ShortRefused
  <2>3. "NOT" \in node.fns \/ \E i \in DOMAIN node.leaves : Refused(Transpile(node.leaves[i]))
    BY <1>1, <1>3 DEF Sound, Accepted
  <2> QED
    BY <2>2, <2>3 DEF KeepsMeaning
<1> QED
  BY <1>2, <1>3

-----------------------------------------------------------------------------
\* A comparison

\* What can be compared has a name.
LEMMA ColumnNamed ==
  ASSUME NEW name, IsColumn(name)
  PROVE  name # <<>>
  BY DEF IsColumn

\* A comparison has one placeholder, and no more than one value.
LEMMA LeafResult ==
  ASSUME NEW e, Single(e), NEW r, r = Transpile(e)
  PROVE  /\ r \in Result /\ Counted(r)
         /\ Accepted(e) => r.status = "ok" /\ Aligned(r.sql, r.vars, <<e>>)
         /\ ~Accepted(e) => Short(r)
<1>1. /\ r \in Result
      /\ r.status = "ok" =>
           /\ Len(r.sql) = 1 /\ r.sql[1].word \notin Marks
           /\ Len(r.vars) <= 1
           /\ Len(r.vars) = 1 /\ r.sql[1].name # <<>> =>
                IsPlain(e) /\ Compares(r.sql[1], r.vars[1]) = Meant(e)
  BY DEF Single
<1>2. Len(r.vars) \in Nat /\ (Accepted(e) <=> ~Refused(r))
  BY <1>1, ResultType DEF Accepted
<1>3. CASE r.status # "ok"
  BY <1>1, <1>2, <1>3 DEF Counted, Short, Refused
<1>4. CASE r.status = "ok"
  <2>1. Holes(r) = {1}
    <3>1. Holes(r) = Positions(r.sql)
      BY <1>1, HolesArePositions
    <3> QED
      BY <1>1, <1>4, <3>1 DEF Positions
  <2>2. Cardinality(Holes(r)) = 1
    BY <2>1, FS_Singleton
  <2>3. Counted(r)
    BY <1>1, <1>4, <2>2 DEF Counted
  <2>4. Nameless(r) <=> ~IsColumn(r.sql[1].name)
    BY <2>1 DEF Nameless
  <2>5. Refused(r) <=> Len(r.vars) # 1 \/ Nameless(r)
    BY <1>4, <2>2 DEF Refused, Nameless
  <2>6. ~Accepted(e) => Short(r)
    <3>1. ~Accepted(e) => Len(r.vars) # 1 \/ Nameless(r)
      BY <1>2, <2>5, Zenon
    <3>2. Len(r.vars) # 1 => Len(r.vars) < Cardinality(Holes(r))
      <4> DEFINE n == Len(r.vars)
      <4>1. n <= 1
        BY <1>1, <1>4
      <4>2. n \in Nat
        BY <1>2
      <4> HIDE DEF n
      <4>3. n # 1 => n < 1
        BY <4>1, <4>2
      <4> QED
        BY <2>2, <4>3 DEF n
    <3> QED
      BY <3>1, <3>2, Zenon DEF Short
  <2>7. ASSUME Accepted(e) PROVE Aligned(r.sql, r.vars, <<e>>)
    <3>1. Len(r.vars) = 1 /\ IsColumn(r.sql[1].name) /\ r.sql[1].name # <<>>
      BY <1>2, <2>4, <2>5, <2>7, ColumnNamed
    <3>2. Fits(r.sql[1], r.vars[1], e) /\ Len(r.sql) = 1
      BY <1>1, <1>4, <3>1 DEF Fits
    <3> DEFINE l == <<e>>
    <3>3. Len(l) = 1 /\ l[1] = e
      OBVIOUS
    <3> HIDE DEF l
    <3>4. /\ \A j \in 1..Len(l) : j = 1
          /\ 2 * Len(l) - 1 = 1 /\ 2 * 1 - 1 = 1 /\ 1..(Len(l) - 1) = {}
      BY <3>3
    <3>5. \A j \in 1..Len(l) : Fits(r.sql[2 * j - 1], r.vars[j], l[j])
      BY <3>2, <3>3, <3>4
    <3>6. Aligned(r.sql, r.vars, l)
      BY <3>1, <3>2, <3>3, <3>4, <3>5 DEF Aligned
    <3> QED
      BY <3>6 DEF l
  <2> QED
    BY <1>1, <1>4, <2>3, <2>6, <2>7
<1> QED
  BY <1>3, <1>4

\* The node of a comparison has the invariant.
LEMMA ComparedTranslated ==
  ASSUME NEW e \in Leaves
  PROVE  Translated(Compared(e))
<1> DEFINE n == Compared(e)
           l == <<e>>
           r == Transpile(e)
<1>1. Single(e) /\ e.fn \in Comparisons \cup {":"}
  <2>1. IsComparison(e)
    BY InputsAssumption
  <2> QED
    BY <2>1, LeafSingle DEF IsComparison
<1>2. /\ r \in Result /\ Counted(r)
      /\ Accepted(e) => r.status = "ok" /\ Aligned(r.sql, r.vars, l)
      /\ ~Accepted(e) => Short(r)
  BY <1>1, LeafResult
<1>3. /\ n.top = e.fn /\ n.leaves = l /\ n.fns = {} /\ n.mixed = FALSE
      /\ n.rows = {{Meant(e)}} /\ n.result = r
  BY DEF Compared
<1>4. l \in Seq(Leaves) /\ Len(l) = 1 /\ l[1] = e /\ AtomsOf(l) = {Meant(e)}
  BY OneElement DEF AtomsOf
<1>5. Meant(e) \in Meanings /\ e.fn \in Fns
  <2>1. Meant(e) \in Meanings
    BY DEF Meanings
  <2>2. e.fn \in Fns
    BY <1>1 DEF Fns
  <2> QED
    BY <2>1, <2>2
<1> HIDE DEF r, l
<1>6. n \in Nodes
  <2>1. {{Meant(e)}} \in SUBSET (SUBSET Meanings)
    BY <1>5
  <2> QED
    BY <1>2, <1>4, <1>5, <2>1 DEF Nodes, Compared, r, l
<1> HIDE DEF n
<1>7. Sound(n) <=> Accepted(e)
  BY <1>3, <1>4 DEF Sound
<1>8. NoOr(r.sql, l)
  BY <1>4 DEF NoOr
<1>9. MeansRows(n)
  <2>1. ASSUME NEW row \in SUBSET AtomsOf(l)
        PROVE  Holds(r.sql, l, row) <=> row \in {{Meant(e)}}
    <3>1. Holds(r.sql, l, row) <=> \A j \in 1..Len(l) : Meant(l[j]) \in row
      <4>1. Len(l) \in Nat /\ Len(l) > 0
        BY <1>4
      <4> QED
        BY <1>8, <4>1, HoldsAll
    <3>2. Holds(r.sql, l, row) <=> Meant(e) \in row
      BY <1>4, <3>1
    <3> QED
      BY <1>4, <3>2
  <2> QED
    BY <1>3, <2>1 DEF MeansRows
<1>10. Len(n.leaves) > 0
  BY <1>3, <1>4
<1> QED
  BY <1>2, <1>3, <1>6, <1>7, <1>8, <1>9, <1>10 DEF Translated, n

-----------------------------------------------------------------------------
\* NOT

\* NOT keeps the invariant: it drops the values, so that they are short.
LEMMA NotTranslated ==
  ASSUME NEW node, Translated(node)
  PROVE  Translated(Not(node))
<1> DEFINE n == Not(node)
           r == node.result
           q == TranspileNot(r)
<1>1. /\ node \in Nodes /\ Len(node.leaves) > 0 /\ Counted(r) /\ r \in Result
      /\ node.leaves \in Seq(Leaves) /\ node.fns \in SUBSET Fns
      /\ AtomsOf(node.leaves) \subseteq Meanings /\ Atoms(node) = AtomsOf(node.leaves)
  <2>1. node \in Nodes /\ Len(node.leaves) > 0 /\ Counted(r)
    BY DEF Translated
  <2> QED
    BY <2>1, NodeFields
<1>2. q \in Result /\ Counted(q) /\ Short(q)
  <2>1. CASE r.status # "ok"
    BY <1>1, <2>1 DEF TranspileNot, Counted, Short
  <2>2. CASE r.status = "ok"
    <3> DEFINE c == <<Word("NOT")>> \o r.sql
    <3>1. "NOT" \in Connectives /\ r.sql \in Seq(Token) /\ <<>> \in Seq(Value) /\ Len(<<>>) = 0
      BY <1>1, ResultType, NoElement DEF Connectives
    <3>2. c \in Seq(Token)
      BY <3>1, Prefix DEF IsInfix
    <3>3. q = Ok(c, <<>>)
      BY <2>2 DEF TranspileNot
    <3> HIDE DEF c
    <3>4. /\ Ok(c, <<>>) \in Result /\ Ok(c, <<>>).status = "ok"
          /\ Ok(c, <<>>).sql = c /\ Ok(c, <<>>).vars = <<>>
      BY <3>1, <3>2, OkType
    <3>5. q \in Result /\ q.status = "ok" /\ q.sql = c /\ Len(q.vars) = 0
      BY <3>1, <3>3, <3>4
    <3> HIDE DEF q
    <3>6. Cardinality(Holes(q)) = Cardinality(Holes(r))
      BY <1>1, <3>5, PrefixHoles DEF c
    <3>7. Cardinality(Holes(r)) >= 1 /\ Cardinality(Holes(r)) \in Nat
      BY <1>1, <2>2, ResultType DEF Counted
    <3> QED
      BY <3>5, <3>6, <3>7 DEF Counted, Short
  <2> QED
    BY <2>1, <2>2
<1> HIDE DEF q
<1>3. n = [node EXCEPT !.top = "NOT", !.fns = @ \cup {"NOT"},
                       !.rows = (SUBSET Atoms(node)) \ @, !.result = q]
  BY DEF Not, q
<1>4. n.leaves = node.leaves /\ n.fns = node.fns \cup {"NOT"} /\ n.result = q
  BY <1>1, <1>3 DEF Nodes
<1>5. n \in Nodes
  <2>1. "NOT" \in Fns /\ node.fns \cup {"NOT"} \in SUBSET Fns
    <3>1. "NOT" \in Fns
      BY DEF Fns, Connectives
    <3> QED
      BY <1>1, <3>1
  <2>2. (SUBSET Atoms(node)) \ node.rows \in SUBSET (SUBSET Meanings)
    BY <1>1
  <2> QED
    BY <1>1, <1>2, <1>3, <2>1, <2>2 DEF Nodes
<1> HIDE DEF n
<1>6. ~Sound(n)
  BY <1>4 DEF Sound
<1> QED
  BY <1>1, <1>2, <1>4, <1>5, <1>6 DEF Translated, n

\* A connective between two translations: the placeholders and the values of
\* both.
LEMMA JoinedResult ==
  ASSUME NEW l \in Result, NEW r \in Result, NEW fn \in {"AND", "OR"},
         NEW q, q = TranspileLogical(fn, l, r)
  PROVE  /\ q \in Result
         /\ q.status = "ok" <=> l.status = "ok" /\ r.status = "ok"
         /\ q.status = "ok" =>
              /\ IsInfix(q.sql, l.sql, fn, r.sql) /\ q.vars = l.vars \o r.vars
              /\ Len(q.vars) = Len(l.vars) + Len(r.vars)
              /\ Cardinality(Holes(q)) = Cardinality(Holes(l)) + Cardinality(Holes(r))
<1>1. CASE l.status # "ok" \/ r.status # "ok"
  BY <1>1 DEF TranspileLogical
<1>2. CASE l.status = "ok" /\ r.status = "ok"
  <2> DEFINE c == l.sql \o <<Word(fn)>> \o r.sql
             v == l.vars \o r.vars
  <2>1. /\ l.sql \in Seq(Token) /\ l.vars \in Seq(Value)
        /\ r.sql \in Seq(Token) /\ r.vars \in Seq(Value)
    BY ResultType
  <2>2. fn \in Connectives
    BY DEF Connectives
  <2>3. IsInfix(c, l.sql, fn, r.sql)
    BY <2>1, <2>2, Infix
  <2>4. c \in Seq(Token)
    BY <2>3 DEF IsInfix
  <2>5. v \in Seq(Value) /\ Len(v) = Len(l.vars) + Len(r.vars)
    BY <2>1, Concatenation
  <2>6. q = Ok(c, v)
    BY <1>2 DEF TranspileLogical
  <2> HIDE DEF c, v
  <2>7. /\ Ok(c, v) \in Result /\ Ok(c, v).status = "ok" /\ Ok(c, v).sql = c /\ Ok(c, v).vars = v
    BY <2>4, <2>5, OkType
  <2>8. q \in Result /\ q.status = "ok" /\ q.sql = c /\ q.vars = v
    BY <2>6, <2>7
  <2>9. Cardinality(Holes(q)) = Cardinality(Holes(l)) + Cardinality(Holes(r))
    <3>1. q.sql = l.sql \o <<Word(fn)>> \o r.sql
      BY <2>8 DEF c
    <3> QED
      BY <2>2, <2>8, <3>1, InfixHoles
  <2>10. q.vars = l.vars \o r.vars /\ Len(q.vars) = Len(l.vars) + Len(r.vars)
    BY <2>5, <2>8 DEF v
  <2>11. IsInfix(q.sql, l.sql, fn, r.sql)
    BY <2>3, <2>8
  <2> QED
    BY <1>2, <2>8, <2>9, <2>10, <2>11
<1> QED
  BY <1>1, <1>2

\* A predicate without a left side stays in the translation.
LEMMA NamelessInfix ==
  ASSUME NEW l \in Result, NEW r \in Result, NEW q \in Result, NEW fn,
         IsInfix(q.sql, l.sql, fn, r.sql), Nameless(l) \/ Nameless(r)
  PROVE  Nameless(q)
<1> DEFINE s == l.sql
           t == r.sql
           c == q.sql
           a == Len(s)
<1>1. /\ s \in Seq(Token) /\ Holes(l) = Positions(s)
      /\ t \in Seq(Token) /\ Holes(r) = Positions(t)
      /\ c \in Seq(Token) /\ Holes(q) = Positions(c)
  BY HolesArePositions
<1>2. a \in Nat /\ Len(t) \in Nat
  BY <1>1
<1>3. /\ Len(c) = a + 1 + Len(t)
      /\ \A i \in 1..a : c[i] = s[i]
      /\ \A i \in 1..Len(t) : c[a + 1 + i] = t[i]
  BY DEF IsInfix
<1>4. /\ Nameless(l) <=> \E i \in Positions(s) : ~IsColumn(s[i].name)
      /\ Nameless(r) <=> \E i \in Positions(t) : ~IsColumn(t[i].name)
      /\ Nameless(q) <=> \E i \in Positions(c) : ~IsColumn(c[i].name)
  BY <1>1 DEF Nameless
<1> HIDE DEF s, t, c, a
<1>5. CASE Nameless(l)
  <2>1. PICK i \in Positions(s) : ~IsColumn(s[i].name)
    BY <1>4, <1>5
  <2>2. i \in 1..a /\ s[i].word \notin Marks
    BY DEF Positions, a
  <2>3. i \in 1..Len(c) /\ c[i] = s[i]
    BY <1>2, <1>3, <2>2
  <2>4. i \in Positions(c) /\ ~IsColumn(c[i].name)
    BY <2>1, <2>2, <2>3 DEF Positions
  <2> QED
    BY <1>4, <2>4
<1>6. CASE Nameless(r)
  <2>1. PICK i \in Positions(t) : ~IsColumn(t[i].name)
    BY <1>4, <1>6
  <2>2. i \in 1..Len(t) /\ t[i].word \notin Marks
    BY DEF Positions
  <2>3. PICK p : p = a + 1 + i
    OBVIOUS
  <2>4. p \in 1..Len(c) /\ c[p] = t[i]
    BY <1>2, <1>3, <2>2, <2>3
  <2>5. p \in Positions(c) /\ ~IsColumn(c[p].name)
    BY <2>1, <2>2, <2>4 DEF Positions
  <2> QED
    BY <1>4, <2>5
<1> QED
  BY <1>5, <1>6

\* The comparisons of both operands, and which of them are accepted.
LEMMA AtomsOfBoth ==
  ASSUME NEW l \in Seq(Leaves), NEW m \in Seq(Leaves)
  PROVE  /\ AtomsOf(l \o m) = AtomsOf(l) \cup AtomsOf(m)
         /\ (\A i \in 1..Len(l \o m) : Accepted((l \o m)[i]))
              <=> (\A i \in 1..Len(l) : Accepted(l[i])) /\ (\A i \in 1..Len(m) : Accepted(m[i]))
<1> DEFINE k == l \o m
           a == Len(l)
           b == Len(m)
<1>1. /\ k \in Seq(Leaves) /\ Len(k) = a + b /\ a \in Nat /\ b \in Nat
      /\ \A i \in 1..a : k[i] = l[i]
      /\ \A i \in 1..b : k[a + i] = m[i]
  BY Concatenation
<1>2. DOMAIN k = 1..(a + b) /\ DOMAIN l = 1..a /\ DOMAIN m = 1..b
  BY <1>1
<1> HIDE DEF k, a, b
<1>3. /\ \A i \in 1..a : i \in 1..(a + b)
      /\ \A i \in 1..b : a + i \in 1..(a + b)
      /\ \A i \in 1..(a + b) : i \in 1..a \/ \E j \in 1..b : i = a + j
  <2>1. a \in Nat /\ b \in Nat
    BY <1>1
  <2>2. \A i \in 1..(a + b) : i \in 1..a \/ (i - a \in 1..b /\ i = a + (i - a))
    BY <2>1
  <2> QED
    BY <2>1, <2>2
<1>4. ASSUME NEW i \in 1..(a + b)
      PROVE  (\E j \in 1..a : k[i] = l[j]) \/ (\E j \in 1..b : k[i] = m[j])
  BY <1>1, <1>3
<1>5. /\ \A j \in 1..a : \E i \in 1..(a + b) : k[i] = l[j]
      /\ \A j \in 1..b : \E i \in 1..(a + b) : k[i] = m[j]
  BY <1>1, <1>3
<1>6. AtomsOf(k) = AtomsOf(l) \cup AtomsOf(m)
  <2>1. ASSUME NEW x \in AtomsOf(k) PROVE x \in AtomsOf(l) \cup AtomsOf(m)
    <3>1. PICK i \in 1..(a + b) : x = Meant(k[i])
      BY <1>2 DEF AtomsOf
    <3> QED
      BY <1>2, <1>4, <3>1 DEF AtomsOf
  <2>2. ASSUME NEW x \in AtomsOf(l) \cup AtomsOf(m) PROVE x \in AtomsOf(k)
    <3>1. (\E j \in 1..a : x = Meant(l[j])) \/ (\E j \in 1..b : x = Meant(m[j]))
      BY <1>2 DEF AtomsOf
    <3>2. \E i \in 1..(a + b) : x = Meant(k[i])
      BY <1>5, <3>1
    <3> QED
      BY <1>2, <3>2 DEF AtomsOf
  <2> QED
    BY <2>1, <2>2
<1>7. (\A i \in 1..(a + b) : Accepted(k[i]))
        <=> (\A i \in 1..a : Accepted(l[i])) /\ (\A i \in 1..b : Accepted(m[i]))
  <2>1. ASSUME \A i \in 1..(a + b) : Accepted(k[i])
        PROVE  (\A i \in 1..a : Accepted(l[i])) /\ (\A i \in 1..b : Accepted(m[i]))
    BY <1>5, <2>1
  <2>2. ASSUME \A i \in 1..a : Accepted(l[i]), \A i \in 1..b : Accepted(m[i])
        PROVE  \A i \in 1..(a + b) : Accepted(k[i])
    BY <1>4, <2>2
  <2> QED
    BY <2>1, <2>2
<1>8. Len(k) = a + b
  BY <1>1
<1> QED
  BY <1>6, <1>7, <1>8 DEF k, a, b

\* AND and OR keep the invariant.
LEMMA JoinedTranslated ==
  ASSUME NEW l, Translated(l), NEW r, Translated(r), NEW fn \in {"AND", "OR"}
  PROVE  Translated(Joined(fn, l, r))
<1> DEFINE n == Joined(fn, l, r)
           s == l.result
           t == r.result
           q == TranspileLogical(fn, s, t)
           k == l.leaves \o r.leaves
           A == AtomsOf(l.leaves)
           B == AtomsOf(r.leaves)
           rows == {row \in SUBSET (A \cup B) :
                      IF fn = "AND" THEN row \cap A \in l.rows /\ row \cap B \in r.rows
                      ELSE row \cap A \in l.rows \/ row \cap B \in r.rows}
<1>1. /\ l \in Nodes /\ Len(l.leaves) > 0 /\ Counted(s)
      /\ r \in Nodes /\ Len(r.leaves) > 0 /\ Counted(t)
  BY DEF Translated
<1>2. /\ l.leaves \in Seq(Leaves) /\ l.fns \in SUBSET Fns /\ l.mixed \in BOOLEAN /\ s \in Result
      /\ A \subseteq Meanings /\ Atoms(l) = A /\ l.top \in Fns
      /\ r.leaves \in Seq(Leaves) /\ r.fns \in SUBSET Fns /\ r.mixed \in BOOLEAN /\ t \in Result
      /\ B \subseteq Meanings /\ Atoms(r) = B /\ r.top \in Fns
  <2>1. l.top \in Fns /\ r.top \in Fns
    BY <1>1 DEF Nodes
  <2> QED
    BY <1>1, <2>1, NodeFields
<1>3. /\ q \in Result
      /\ q.status = "ok" <=> s.status = "ok" /\ t.status = "ok"
      /\ q.status = "ok" =>
           /\ IsInfix(q.sql, s.sql, fn, t.sql) /\ q.vars = s.vars \o t.vars
           /\ Len(q.vars) = Len(s.vars) + Len(t.vars)
           /\ Cardinality(Holes(q)) = Cardinality(Holes(s)) + Cardinality(Holes(t))
  BY <1>2, JoinedResult
<1>4. /\ k \in Seq(Leaves) /\ Len(k) = Len(l.leaves) + Len(r.leaves) /\ Len(k) > 0
      /\ Len(l.leaves) \in Nat /\ Len(r.leaves) \in Nat
  <2>1. k \in Seq(Leaves) /\ Len(k) = Len(l.leaves) + Len(r.leaves)
    BY <1>2, Concatenation
  <2>2. Len(l.leaves) \in Nat /\ Len(r.leaves) \in Nat
    BY <1>2
  <2> DEFINE a == Len(l.leaves)
             b == Len(r.leaves)
  <2>3. a > 0 /\ b > 0 /\ a \in Nat /\ b \in Nat
    BY <1>1, <2>2
  <2> HIDE DEF a, b, k
  <2>4. a + b > 0
    BY <2>3
  <2> QED
    BY <2>1, <2>2, <2>4 DEF a, b
<1>5. /\ AtomsOf(k) = A \cup B
      /\ (\A i \in 1..Len(k) : Accepted(k[i]))
           <=> /\ \A i \in 1..Len(l.leaves) : Accepted(l.leaves[i])
               /\ \A i \in 1..Len(r.leaves) : Accepted(r.leaves[i])
  BY <1>2, AtomsOfBoth
<1> DEFINE mixed == l.mixed \/ r.mixed \/ (fn = "AND" /\ "OR" \in {l.top, r.top})
           fns == {fn} \cup l.fns \cup r.fns
<1>6. n = [top |-> fn, leaves |-> k, fns |-> fns, mixed |-> mixed, rows |-> rows, result |-> q]
  BY <1>2 DEF Joined
<1>7. rows \in SUBSET (SUBSET Meanings) /\ mixed \in BOOLEAN /\ fn \in Fns /\ fns \in SUBSET Fns
  <2>1. fn \in Fns
    BY DEF Fns, Connectives
  <2>2. A \cup B \subseteq Meanings
    BY <1>2
  <2> QED
    BY <1>2, <2>1, <2>2
<1>8. "NOT" \in fns <=> "NOT" \in l.fns \/ "NOT" \in r.fns
  OBVIOUS
<1>9. \A row : row \in rows <=>
        /\ row \in SUBSET (A \cup B)
        /\ IF fn = "AND" THEN row \cap A \in l.rows /\ row \cap B \in r.rows
           ELSE row \cap A \in l.rows \/ row \cap B \in r.rows
  OBVIOUS
<1>10. ~mixed => ~l.mixed /\ ~r.mixed /\ (fn = "AND" => l.top # "OR" /\ r.top # "OR")
  OBVIOUS
<1> HIDE DEF rows, mixed, fns, q, k, n
<1>11. n \in Nodes
  BY <1>3, <1>4, <1>6, <1>7 DEF Nodes
<1>12. /\ n.top = fn /\ n.leaves = k /\ n.fns = fns /\ n.mixed = mixed /\ n.rows = rows /\ n.result = q
  BY <1>6
<1>13. Sound(n) <=> Sound(l) /\ Sound(r)
  BY <1>5, <1>8, <1>12 DEF Sound
<1>14. /\ Cardinality(Holes(s)) \in Nat /\ Len(s.vars) \in Nat
       /\ Cardinality(Holes(t)) \in Nat /\ Len(t.vars) \in Nat
  BY <1>2, ResultType
<1> DEFINE a == Len(s.vars)
           b == Len(t.vars)
           x == Cardinality(Holes(s))
           y == Cardinality(Holes(t))
<1>15. /\ a \in Nat /\ b \in Nat /\ x \in Nat /\ y \in Nat
       /\ q.status = "ok" =>
            /\ s.status = "ok" /\ t.status = "ok"
            /\ 1 <= x /\ a <= x /\ 1 <= y /\ b <= y
            /\ Len(q.vars) = a + b /\ Cardinality(Holes(q)) = x + y
  BY <1>1, <1>3, <1>14 DEF Counted
<1> HIDE DEF a, b, x, y
<1>16. Counted(q)
  <2>1. 1 <= x /\ a <= x /\ 1 <= y /\ b <= y => x + y >= 1 /\ a + b <= x + y
    BY <1>15
  <2> QED
    BY <1>15, <2>1 DEF Counted
<1>17. ASSUME ~Sound(n) PROVE Short(q)
  <2> SUFFICES ASSUME q.status = "ok"
               PROVE  Len(q.vars) < Cardinality(Holes(q)) \/ Nameless(q)
    BY DEF Short
  <2>1. s.status = "ok" /\ t.status = "ok"
    BY <1>3
  <2>2. Short(s) \/ Short(t)
    BY <1>13, <1>17 DEF Translated
  <2>3. CASE Nameless(s) \/ Nameless(t)
    <3>1. IsInfix(q.sql, s.sql, fn, t.sql) /\ q \in Result /\ s \in Result /\ t \in Result
      BY <1>2, <1>3
    <3> HIDE DEF s, t
    <3> QED
      BY <2>3, <3>1, NamelessInfix
  <2>4. CASE ~Nameless(s) /\ ~Nameless(t)
    <3>1. a < x \/ b < y
      BY <2>1, <2>2, <2>4 DEF Short, a, b, x, y
    <3>2. a + b < x + y
      <4>1. a <= x /\ b <= y
        BY <1>15
      <4> QED
        BY <1>15, <3>1, <4>1
    <3> QED
      BY <1>15, <3>2
  <2> QED
    BY <2>3, <2>4
<1>18. ASSUME Sound(n)
       PROVE  /\ q.status = "ok" /\ Aligned(q.sql, q.vars, k)
              /\ ~mixed => /\ fn # "OR" => NoOr(q.sql, k)
                           /\ MeansRows(n)
  <2>1. /\ s.status = "ok" /\ Aligned(s.sql, s.vars, l.leaves)
        /\ ~l.mixed => (l.top # "OR" => NoOr(s.sql, l.leaves)) /\ MeansRows(l)
        /\ t.status = "ok" /\ Aligned(t.sql, t.vars, r.leaves)
        /\ ~r.mixed => (r.top # "OR" => NoOr(t.sql, r.leaves)) /\ MeansRows(r)
    BY <1>13, <1>18 DEF Translated
  <2>2. /\ q.status = "ok" /\ IsInfix(q.sql, s.sql, fn, t.sql) /\ q.vars = s.vars \o t.vars
    BY <1>3, <2>1
  <2>3. /\ s.sql \in Seq(Token) /\ s.vars \in Seq(Value)
        /\ t.sql \in Seq(Token) /\ t.vars \in Seq(Value)
    BY <1>2, ResultType
  <2> HIDE DEF s, t
  <2>4. Aligned(q.sql, q.vars, k)
    <3>1. Aligned(s.sql, s.vars, l.leaves) /\ Aligned(t.sql, t.vars, r.leaves)
      BY <2>1
    <3>2. Aligned(q.sql, s.vars \o t.vars, l.leaves \o r.leaves)
      BY <1>2, <2>2, <2>3, <3>1, AlignedInfix
    <3> QED
      BY <2>2, <3>2 DEF k
  <2>5. ASSUME ~mixed
        PROVE  (fn # "OR" => NoOr(q.sql, k)) /\ MeansRows(n)
    <3>1. /\ Aligned(s.sql, s.vars, l.leaves) /\ Aligned(t.sql, t.vars, r.leaves)
          /\ MeansRows(l) /\ MeansRows(r)
      BY <1>10, <2>1, <2>5
    <3>2. ASSUME NEW row \in SUBSET (A \cup B)
          PROVE  /\ Holds(s.sql, l.leaves, row) <=> row \cap A \in l.rows
                 /\ Holds(t.sql, r.leaves, row) <=> row \cap B \in r.rows
      <4>1. Holds(s.sql, l.leaves, row \cap A) <=> row \cap A \in l.rows
        BY <3>1 DEF MeansRows, s
      <4>2. Holds(t.sql, r.leaves, row \cap B) <=> row \cap B \in r.rows
        BY <3>1 DEF MeansRows, t
      <4>3. Holds(s.sql, l.leaves, row) <=> Holds(s.sql, l.leaves, row \cap A)
        BY <1>2, HoldsWithin
      <4>4. Holds(t.sql, r.leaves, row) <=> Holds(t.sql, r.leaves, row \cap B)
        BY <1>2, HoldsWithin
      <4> QED
        BY <4>1, <4>2, <4>3, <4>4, Zenon
    <3>3. CASE fn = "AND"
      <4>1. NoOr(s.sql, l.leaves) /\ NoOr(t.sql, r.leaves)
        BY <1>10, <2>1, <2>5, <3>3
      <4>2. IsInfix(q.sql, s.sql, "AND", t.sql)
        BY <2>2, <3>3
      <4>3. \A row : /\ NoOr(q.sql, k)
                     /\ Holds(q.sql, k, row) <=>
                          Holds(s.sql, l.leaves, row) /\ Holds(t.sql, r.leaves, row)
        BY <1>2, <2>3, <3>1, <4>1, <4>2, AndHolds DEF k
      <4>4. ASSUME NEW row \in SUBSET (A \cup B)
            PROVE  Holds(q.sql, k, row) <=> row \in rows
        <5>1. row \in rows <=> row \cap A \in l.rows /\ row \cap B \in r.rows
          BY <1>9, <3>3
        <5> QED
          BY <3>2, <4>3, <5>1, Zenon
      <4> QED
        BY <1>5, <1>12, <4>3, <4>4 DEF MeansRows
    <3>4. CASE fn = "OR"
      <4>1. IsInfix(q.sql, s.sql, "OR", t.sql)
        BY <2>2, <3>4
      <4>2. \A row : Holds(q.sql, k, row) <=>
                       Holds(s.sql, l.leaves, row) \/ Holds(t.sql, r.leaves, row)
        BY <1>2, <2>3, <3>1, <4>1, OrHolds DEF k
      <4>3. ASSUME NEW row \in SUBSET (A \cup B)
            PROVE  Holds(q.sql, k, row) <=> row \in rows
        <5>1. row \in rows <=> row \cap A \in l.rows \/ row \cap B \in r.rows
          BY <1>9, <3>4
        <5> QED
          BY <3>2, <4>2, <5>1, Zenon
      <4> QED
        BY <1>5, <1>12, <3>4, <4>3 DEF MeansRows
    <3> QED
      BY <3>3, <3>4
  <2> QED
    BY <2>2, <2>4, <2>5
<1> QED
  BY <1>4, <1>11, <1>12, <1>16, <1>17, <1>18 DEF Translated, n

-----------------------------------------------------------------------------
\* Filters: the comparison that is hijacked

\* A comparison in Flux.
Operators == Comparisons \cup {":", "@"}

FluxPart == [op : Operators, name : Part, value : Part]

\* The Flux of a comparison, and the operator it has there.
FluxOf(fn, x, y) ==
  IF fn = ":" THEN FluxHas(x, y) ELSE FluxComparison(fn, FluxTerm(x), FluxTerm(y))

OperatorOf(fn, x) ==
  IF fn = ":" THEN ":" ELSE IF TypeOf[x.declared] = "timestamp" THEN "@" ELSE fn

\* Nothing was found.
Nil == [value |-> Empty, found |-> FALSE]

\* What hijacking puts in place of a comparison.
Put(e, h) == Call(e.fn, Replaced(e.left, h.name), Const(h.value))

PutPart(p, h) == [op |-> p.op, name |-> h.name, value |-> h.value]

\* A tree has these fields.
IsTree(tree) ==
  \E leaves, flux, extract : tree = [leaves |-> leaves, flux |-> flux, extract |-> extract]

\* What hijacking the i-th comparison of a tree returns.
Changed(tree, r, i, h) ==
  /\ r.value = h.value /\ r.found = TRUE
  /\ \E t : r = [tree |-> t, value |-> r.value, found |-> r.found]
  /\ IsTree(r.tree)
  /\ r.tree.extract[FALSE] = [value |-> h.value, found |-> TRUE]
  /\ r.tree.leaves = [tree.leaves EXCEPT ![i] = Put(tree.leaves[i], h)]
  /\ tree.flux.ok => /\ r.tree.flux.ok
                     /\ r.tree.flux.parts
                          = [tree.flux.parts EXCEPT ![i] = PutPart(tree.flux.parts[i], h)]

\* The least of a set of positions.
IsFirst(i, S) == i \in S /\ \A j \in S : i <= j

\* The inductive invariant of the nodes of a filter.
Hijacked(node, h) ==
  /\ IsTree(node.tree) /\ node.tree.leaves \in Seq(FluxLeaves) /\ Len(node.tree.leaves) > 0
  /\ node.tree.flux.ok => /\ node.tree.flux.parts \in Seq(FluxPart)
                          /\ Len(node.tree.flux.parts) = Len(node.tree.leaves)
  /\ Hijackable(node.tree.leaves, h) =>
       /\ node.tree.extract[FALSE] = Nil
       /\ Targets(node.tree.leaves, h) = {} =>
            node.hijack[FALSE] = [tree |-> node.tree, value |-> Empty, found |-> FALSE]
       /\ Targets(node.tree.leaves, h) # {} =>
            \E i : /\ IsFirst(i, Targets(node.tree.leaves, h))
                   /\ Changed(node.tree, node.hijack[FALSE], i, h)

\* The invariant implies what hijacking is to do.
LEMMA HijackedPrecise ==
  ASSUME NEW node, NEW h, Hijacked(node, h)
  PROVE  HijackedIsExtracted(node, h)
<1> DEFINE before  == node.tree
           r       == node.hijack[FALSE]
           targets == Targets(before.leaves, h)
           first   == CHOOSE i \in targets : \A j \in targets : i <= j
<1> DEFINE Goal == IF targets = {} THEN r.tree = before /\ ~r.found
                   ELSE /\ r.tree.extract[FALSE] = [value |-> h.value, found |-> TRUE]
                        /\ r.tree.leaves = [before.leaves EXCEPT ![first] =
                             Call(@.fn, [@.left EXCEPT !.path = <<h.name>>], Const(h.value))]
                        /\ before.flux.ok => r.tree.flux.parts =
                             [before.flux.parts EXCEPT ![first].name = h.name,
                                                       ![first].value = h.value]
<1>a. HijackedIsExtracted(node, h) <=> (Hijackable(before.leaves, h) => Goal)
  BY Zenon DEF HijackedIsExtracted
<1> HIDE DEF Goal
<1> SUFFICES ASSUME Hijackable(before.leaves, h)
             PROVE  Goal
  BY <1>a
<1> USE DEF Goal
<1>1. CASE targets = {}
  <2>1. r = [tree |-> before, value |-> Empty, found |-> FALSE]
    BY <1>1 DEF Hijacked
  <2> HIDE DEF r, before
  <2>2. r.tree = before /\ ~r.found
    BY <2>1
  <2> QED
    BY Zenon, <1>1, <2>2 DEF r, before
<1>2. CASE targets # {}
  <2>1. PICK i : IsFirst(i, targets) /\ Changed(before, r, i, h)
    BY <1>2 DEF Hijacked
  <2>2. targets \subseteq 1..Len(before.leaves) /\ Len(before.leaves) \in Nat
    BY DEF Targets, Hijacked
  <2>3. first = i
    <3>1. i \in targets /\ \A j \in targets : i <= j
      BY <2>1 DEF IsFirst
    <3>2. first \in targets /\ \A j \in targets : first <= j
      BY <3>1
    <3>3. i \in Int /\ first \in Int /\ i <= first /\ first <= i
      BY <2>2, <3>1, <3>2
    <3> HIDE DEF first, targets
    <3> QED
      BY <3>3
  <2> HIDE DEF first
  <2>4. /\ r.tree.extract[FALSE] = [value |-> h.value, found |-> TRUE]
        /\ r.tree.leaves = [before.leaves EXCEPT ![first] = Put(before.leaves[first], h)]
        /\ before.flux.ok => r.tree.flux.parts =
             [before.flux.parts EXCEPT ![first] = PutPart(before.flux.parts[first], h)]
    BY <2>1, <2>3 DEF Changed
  <2>5. Put(before.leaves[first], h) =
          Call(before.leaves[first].fn,
               [before.leaves[first].left EXCEPT !.path = <<h.name>>], Const(h.value))
    BY DEF Put, Replaced
  <2>6. before.flux.ok =>
          [before.flux.parts EXCEPT ![first] = PutPart(before.flux.parts[first], h)]
          = [before.flux.parts EXCEPT ![first].name = h.name, ![first].value = h.value]
    <3> SUFFICES ASSUME before.flux.ok
                 PROVE  [before.flux.parts EXCEPT ![first] = PutPart(before.flux.parts[first], h)]
                        = [before.flux.parts EXCEPT ![first].name = h.name,
                                                    ![first].value = h.value]
      OBVIOUS
    <3> DEFINE p == before.flux.parts
    <3>1. p \in Seq(FluxPart) /\ first \in DOMAIN p
      <4>1. p \in Seq(FluxPart) /\ Len(p) = Len(before.leaves)
        BY DEF Hijacked
      <4>2. first \in 1..Len(before.leaves)
        BY <2>1, <2>2, <2>3 DEF IsFirst
      <4> QED
        BY <4>1, <4>2
    <3> HIDE DEF p
    <3>2. PutPart(p[first], h) = [p[first] EXCEPT !.name = h.name, !.value = h.value]
      <4>1. p[first] \in FluxPart
        BY <3>1
      <4>2. ASSUME NEW q \in FluxPart
            PROVE  PutPart(q, h) = [q EXCEPT !.name = h.name, !.value = h.value]
        <5>1. q = [op |-> q.op, name |-> q.name, value |-> q.value]
          BY DEF FluxPart
        <5>2. [q EXCEPT !.name = h.name] = [op |-> q.op, name |-> h.name, value |-> q.value]
          BY <5>1
        <5>3. [[op |-> q.op, name |-> h.name, value |-> q.value] EXCEPT !.value = h.value]
              = [op |-> q.op, name |-> h.name, value |-> h.value]
          OBVIOUS
        <5> QED
          BY Zenon, <5>2, <5>3 DEF PutPart
      <4> QED
        BY Zenon, <4>1, <4>2
    <3>3. [p EXCEPT ![first] = [p[first] EXCEPT !.name = h.name, !.value = h.value]]
          = [p EXCEPT ![first].name = h.name, ![first].value = h.value]
      BY <3>1
    <3> QED
      BY <3>2, <3>3 DEF p
  <2> QED
    BY <1>2, <2>4, <2>5, <2>6
<1> QED
  BY <1>1, <1>2

-----------------------------------------------------------------------------
\* A comparison

\* What is extracted from a term and from a call.
LEMMA TermFinds ==
  ASSUME NEW x, NEW name
  PROVE  /\ Names(x, name) =>
              /\ ExtractTerm(x, name)[FALSE] = [value |-> Empty, found |-> TRUE]
              /\ ExtractTerm(x, name)[TRUE] = [value |-> Empty, found |-> TRUE]
         /\ ~Names(x, name) =>
              /\ ExtractTerm(x, name)[FALSE] = Nil
              /\ ExtractTerm(x, name)[TRUE] = [value |-> StringOf(x), found |-> TRUE]
  BY DEF ExtractTerm, Nil

LEMMA CallFinds ==
  ASSUME NEW l, NEW r
  PROVE  ExtractCall(l, r)[FALSE] =
           IF Hit(l[FALSE]) THEN l[FALSE]
           ELSE IF Hit(r[l[FALSE].found]) THEN r[l[FALSE].found] ELSE Nil
  BY DEF ExtractCall, Nil

\* Nothing is no hit.
LEMMA NilMisses ==
  ~Hit(Nil) /\ Nil.found = FALSE
  BY DEF Nil, Hit

\* Types of the Flux of terms and calls.
LEMMA FluxTermType ==
  ASSUME NEW x, IsTerm(x), FluxTerm(x).ok
  PROVE  FluxTerm(x).text \in Part
<1>1. x.path \in Seq(Part) /\ x.value \in Part /\ (x.kind = "ident" => Len(x.path) = 1)
  BY TermFields
<1>2. CASE x.kind = "ident"
  <2>1. x.path[1] \in Part
    BY <1>1, <1>2, OnlyElement
  <2> QED
    BY <1>2, <2>1 DEF FluxTerm, FluxIdent, Text, Fail
<1>3. CASE x.kind \in {"string", "number", "timestamp"}
  BY <1>1, <1>3 DEF FluxTerm, FluxConst, FluxTimestamp, Text
<1>4. CASE x.kind = "select"
  BY <1>4 DEF FluxTerm, Fail
<1> QED
  BY <1>2, <1>3, <1>4, TermFields

LEMMA DoneParts ==
  ASSUME NEW parts
  PROVE  Done(parts).ok /\ Done(parts).parts = parts
  BY DEF Done

\* What is translated is a part that names the left side, if that is an
\* identifier.
IsLeafFlux(fn, x, f) ==
  /\ f.parts \in Seq(FluxPart) /\ Len(f.parts) = 1
  /\ x.kind = "ident" =>
       /\ x.declared \in DOMAIN TypeOf
       /\ fn = ":" => TypeOf[x.declared] = "strings"
       /\ f.parts[1] = [op |-> OperatorOf(fn, x), name |-> x.path[1],
                        value |-> f.parts[1].value]

\* So it is of every comparison.
LEMMA FluxLeaf ==
  ASSUME NEW fn \in Comparisons \cup {":"}, NEW x, IsTerm(x), NEW y, IsTerm(y),
         FluxOf(fn, x, y).ok
  PROVE  IsLeafFlux(fn, x, FluxOf(fn, x, y))
<1> DEFINE f == FluxOf(fn, x, y)
<1>0. f = FluxOf(fn, x, y) /\ f.ok
  OBVIOUS
<1> SUFFICES IsLeafFlux(fn, x, f)
  OBVIOUS
<1> HIDE DEF f
<1>1. /\ x.path \in Seq(Part) /\ y.value \in Part
      /\ x.kind = "ident" => Len(x.path) = 1
  BY TermFields
<1>2. x.kind = "ident" => x.path[1] \in Part
  BY <1>1, OnlyElement
<1>3. ASSUME NEW p \in FluxPart, f = Done(<<p>>)
      PROVE  f.parts \in Seq(FluxPart) /\ Len(f.parts) = 1 /\ f.parts[1] = p
  <2>1. f.parts = <<p>>
    BY Zenon, <1>3, DoneParts
  <2> QED
    BY <2>1, OneElement
<1>4. CASE fn = ":"
  <2> DEFINE p == [op |-> ":", name |-> x.path[1], value |-> y.value]
  <2>1. /\ f = Done(<<p>>)
        /\ x.kind = "ident" /\ x.declared \in DOMAIN TypeOf /\ TypeOf[x.declared] = "strings"
    BY <1>0, <1>4 DEF FluxOf, FluxHas, Fail
  <2>2. p \in FluxPart
    BY <1>1, <1>2, <2>1 DEF FluxPart, Operators
  <2>3. f.parts \in Seq(FluxPart) /\ Len(f.parts) = 1 /\ f.parts[1] = p
    <3> HIDE DEF p
    <3> QED
      BY <1>3, <2>1, <2>2
  <2>4. f.parts[1].value = y.value
    BY <2>3
  <2> QED
    BY <1>4, <2>1, <2>3, <2>4 DEF OperatorOf, IsLeafFlux
<1>5. CASE fn # ":"
  <2> DEFINE i == FluxTerm(x)
             c == FluxTerm(y)
             p == [op |-> IF i.type = "timestamp" THEN "@" ELSE fn,
                   name |-> i.text, value |-> c.text]
  <2>1. i.ok /\ c.ok /\ f = Done(<<p>>)
    BY <1>0, <1>5 DEF FluxOf, FluxComparison, Fail
  <2>2. i.text \in Part /\ c.text \in Part
    BY <2>1, FluxTermType
  <2>3. p \in FluxPart
    <3>1. (IF i.type = "timestamp" THEN "@" ELSE fn) \in Operators
      BY <1>5 DEF Operators
    <3> HIDE DEF i, c
    <3> QED
      BY <2>2, <3>1 DEF FluxPart
  <2>4. f.parts \in Seq(FluxPart) /\ Len(f.parts) = 1 /\ f.parts[1] = p
    <3> HIDE DEF p
    <3> QED
      BY <1>3, <2>1, <2>3
  <2>5. x.kind = "ident" =>
          /\ x.declared \in DOMAIN TypeOf /\ i.text = x.path[1] /\ i.type = TypeOf[x.declared]
    BY <2>1 DEF FluxTerm, FluxIdent, Text, Fail
  <2> HIDE DEF i, c
  <2>6. x.kind = "ident" => p.op = OperatorOf(fn, x) /\ p.name = x.path[1]
    BY <1>5, <2>5 DEF OperatorOf
  <2>7. p = [op |-> p.op, name |-> p.name, value |-> p.value]
    OBVIOUS
  <2> HIDE DEF p
  <2> QED
    BY <1>5, <2>4, <2>5, <2>6, <2>7 DEF IsLeafFlux
<1> QED
  BY <1>0, <1>4, <1>5

\* So is what hijacking puts in its place.
LEMMA FluxPut ==
  ASSUME NEW fn \in Comparisons \cup {":"}, NEW x, IsTerm(x), x.kind = "ident",
         x.declared \in DOMAIN TypeOf, fn = ":" => TypeOf[x.declared] = "strings",
         NEW h
  PROVE  /\ FluxOf(fn, Replaced(x, h.name), Const(h.value)).ok
         /\ FluxOf(fn, Replaced(x, h.name), Const(h.value)).parts
              = <<[op |-> OperatorOf(fn, x), name |-> h.name, value |-> h.value]>>
<1> DEFINE y == Replaced(x, h.name)
           c == Const(h.value)
           f == FluxOf(fn, y, c)
<1>1. y.kind = "ident" /\ y.declared = x.declared /\ y.path[1] = h.name
  BY DEF Replaced, IsTerm
<1>2. c.kind = "string" /\ c.value = h.value
  BY DEF Const
<1>a. f = FluxOf(fn, y, c)
  OBVIOUS
<1> HIDE DEF y, c, f
<1>3. CASE fn = ":"
  <2>1. f = Done(<<[op |-> ":", name |-> h.name, value |-> h.value]>>)
    BY <1>1, <1>2, <1>3, <1>a DEF FluxOf, FluxHas
  <2>2. OperatorOf(fn, x) = ":"
    BY <1>3 DEF OperatorOf
  <2> QED
    BY Zenon, <2>1, <2>2, DoneParts DEF f, y, c
<1>4. CASE fn # ":"
  <2>1. FluxTerm(y) = Text(h.name, TypeOf[x.declared]) /\ FluxTerm(c) = Text(h.value, "none")
    BY <1>1, <1>2 DEF FluxTerm, FluxIdent, FluxConst
  <2>2. f = FluxComparison(fn, Text(h.name, TypeOf[x.declared]), Text(h.value, "none"))
    BY <1>4, <2>1, <1>a DEF FluxOf
  <2>3. f = Done(<<[op |-> OperatorOf(fn, x), name |-> h.name, value |-> h.value]>>)
    BY <1>4, <2>2 DEF FluxComparison, Text, OperatorOf
  <2> QED
    BY Zenon, <2>3, DoneParts DEF f, y, c
<1> QED
  BY <1>3, <1>4

\* A term as it was, under its new name, and with its new value.
TermOf(x, h)  == [tree |-> TermTree(x, h), value |-> Empty, found |-> FALSE]
Renamed(x, h) == [tree |-> TermTree(Replaced(x, h.name), h), value |-> Empty, found |-> TRUE]
NewValue(h)   == [tree |-> TermTree(Const(h.value), h), value |-> h.value, found |-> TRUE]

\* One of these is what hijacking a term returns.
LEMMA TermHijacks ==
  ASSUME NEW x, NEW h
  PROVE  /\ Names(x, h.target) => HijackTerm(x, h)[FALSE] = Renamed(x, h)
         /\ ~Names(x, h.target) => /\ HijackTerm(x, h)[FALSE] = TermOf(x, h)
                                   /\ HijackTerm(x, h)[TRUE] = NewValue(h)
  BY DEF HijackTerm, TermOf, Renamed, NewValue

\* The tree of a comparison,
LEMMA LeafTree ==
  ASSUME NEW fn \in Comparisons \cup {":"}, NEW x, NEW y, NEW h
  PROVE  CallTree(fn, TermTree(x, h), TermTree(y, h)) =
           [leaves  |-> <<Call(fn, x, y)>>,
            flux    |-> FluxOf(fn, x, y),
            extract |-> ExtractCall(ExtractTerm(x, h.name), ExtractTerm(y, h.name))]
<1>1. fn \notin Connectives
  BY DEF Comparisons, Connectives
<1>2. <<x>>[1] = x /\ <<y>>[1] = y
  OBVIOUS
<1>3. /\ TermTree(x, h).leaves = <<x>> /\ TermTree(y, h).leaves = <<y>>
      /\ TermTree(x, h).flux = FluxTerm(x) /\ TermTree(y, h).flux = FluxTerm(y)
      /\ TermTree(x, h).extract = ExtractTerm(x, h.name)
      /\ TermTree(y, h).extract = ExtractTerm(y, h.name)
  BY DEF TermTree
<1> QED
  BY Zenon, <1>1, <1>2, <1>3 DEF CallTree, FluxOf

\* A term is hijacked only if it is an identifier.
LEMMA RenamedNames ==
  ASSUME NEW x, NEW h
  PROVE  /\ Names(x, h.target) => Names(Replaced(x, h.name), h.name)
         /\ ~Names(Const(h.value), h.name) /\ StringOf(Const(h.value)) = h.value
  BY DEF Names, Replaced, Const, StringOf

\* what hijacking it returns,
LEMMA LeafHijack ==
  ASSUME NEW e, IsComparison(e), NEW h, h.value # Empty,
         ~Names(e.right, h.target), NEW r, r = ComparisonNode(e, h).hijack[FALSE]
  PROVE  IF Names(e.left, h.target)
         THEN r = [tree  |-> CallTree(e.fn, TermTree(Replaced(e.left, h.name), h),
                                      TermTree(Const(h.value), h)),
                   value |-> h.value, found |-> TRUE]
         ELSE r = [tree  |-> ComparisonNode(e, h).tree, value |-> Empty, found |-> FALSE]
<1> DEFINE l == TermNode(e.left, h)
           m == TermNode(e.right, h)
<1>1. /\ r = HijackCall(e.fn, l, m, h)[FALSE]
      /\ ComparisonNode(e, h).tree = CallTree(e.fn, TermTree(e.left, h), TermTree(e.right, h))
  BY DEF ComparisonNode, CallNode, TermNode
<1>2. l.hijack = HijackTerm(e.left, h) /\ m.hijack = HijackTerm(e.right, h)
  BY DEF TermNode
<1> HIDE DEF l, m
<1> DEFINE a == l.hijack[FALSE]
           b == m.hijack[a.found]
<1>b. HijackCall(e.fn, l, m, h)[FALSE]
        = IF Hit(a) THEN [a EXCEPT !.tree = CallTree(e.fn, a.tree, m.tree)]
          ELSE IF Hit(b) THEN [b EXCEPT !.tree = CallTree(e.fn, a.tree, b.tree)]
          ELSE [tree |-> CallTree(e.fn, a.tree, b.tree), value |-> Empty, found |-> FALSE]
  BY DEF HijackCall
<1>a. r = IF Hit(a) THEN [a EXCEPT !.tree = CallTree(e.fn, a.tree, m.tree)]
          ELSE IF Hit(b) THEN [b EXCEPT !.tree = CallTree(e.fn, a.tree, b.tree)]
          ELSE [tree |-> CallTree(e.fn, a.tree, b.tree), value |-> Empty, found |-> FALSE]
  BY Zenon, <1>1, <1>b
<1>3. CASE Names(e.left, h.target)
  <2>1. l.hijack[FALSE] = Renamed(e.left, h) /\ Renamed(e.left, h).found = TRUE
    BY <1>2, <1>3, TermHijacks DEF Renamed
  <2>2. m.hijack[Renamed(e.left, h).found] = NewValue(h)
    BY <1>2, <2>1, TermHijacks
  <2>3. ~Hit(Renamed(e.left, h)) /\ Hit(NewValue(h))
    BY DEF Hit, Renamed, NewValue
  <2>4. r = [NewValue(h) EXCEPT !.tree = CallTree(e.fn, Renamed(e.left, h).tree, NewValue(h).tree)]
    <3>1. a = Renamed(e.left, h) /\ b = NewValue(h)
      BY Zenon, <2>1, <2>2
    <3> HIDE DEF a, b
    <3> QED
      BY Zenon, <1>a, <2>3, <3>1
  <2>5. r = [tree  |-> CallTree(e.fn, Renamed(e.left, h).tree, NewValue(h).tree),
             value |-> h.value, found |-> TRUE]
    BY <2>4 DEF NewValue
  <2>6. /\ Renamed(e.left, h).tree = TermTree(Replaced(e.left, h.name), h)
        /\ NewValue(h).tree = TermTree(Const(h.value), h)
    BY DEF Renamed, NewValue
  <2> QED
    BY Zenon, <1>3, <2>5, <2>6
<1>4. CASE ~Names(e.left, h.target)
  <2>1. l.hijack[FALSE] = TermOf(e.left, h) /\ TermOf(e.left, h).found = FALSE
    BY <1>2, <1>4, TermHijacks DEF TermOf
  <2>2. m.hijack[TermOf(e.left, h).found] = TermOf(e.right, h)
    BY <1>2, <2>1, TermHijacks
  <2>3. ~Hit(TermOf(e.left, h)) /\ ~Hit(TermOf(e.right, h))
    BY DEF Hit, TermOf
  <2>4. r = [tree  |-> CallTree(e.fn, TermOf(e.left, h).tree, TermOf(e.right, h).tree),
             value |-> Empty, found |-> FALSE]
    <3>1. a = TermOf(e.left, h) /\ b = TermOf(e.right, h)
      BY Zenon, <2>1, <2>2
    <3> HIDE DEF a, b
    <3> QED
      BY Zenon, <1>a, <2>3, <3>1
  <2>5. /\ TermOf(e.left, h).tree = TermTree(e.left, h)
        /\ TermOf(e.right, h).tree = TermTree(e.right, h)
    BY DEF TermOf
  <2> QED
    BY Zenon, <1>1, <1>4, <2>4, <2>5
<1> QED
  BY <1>3, <1>4

\* and what is extracted before
LEMMA LeafMisses ==
  ASSUME NEW x, NEW y, NEW name, ~Names(x, name), ~Names(y, name)
  PROVE  ExtractCall(ExtractTerm(x, name), ExtractTerm(y, name))[FALSE] = Nil
<1>1. ExtractTerm(x, name)[FALSE] = Nil /\ ExtractTerm(y, name)[FALSE] = Nil
  BY TermFinds
<1> QED
  BY <1>1, NilMisses, CallFinds

\* and after.
LEMMA LeafExtract ==
  ASSUME NEW x, NEW h, h.value # Empty, Names(x, h.target)
  PROVE  ExtractCall(ExtractTerm(Replaced(x, h.name), h.name),
                     ExtractTerm(Const(h.value), h.name))[FALSE]
         = [value |-> h.value, found |-> TRUE]
<1> DEFINE f == ExtractTerm(Replaced(x, h.name), h.name)
           g == ExtractTerm(Const(h.value), h.name)
           a == [value |-> Empty, found |-> TRUE]
           b == [value |-> h.value, found |-> TRUE]
<1>1. f[FALSE] = a
  BY RenamedNames, TermFinds
<1>2. g[TRUE] = b
  BY RenamedNames, TermFinds
<1>3. ~Hit(a) /\ a.found = TRUE /\ Hit(b)
  BY DEF Hit
<1> HIDE DEF f, g, a, b
<1>4. ExtractCall(f, g)[FALSE] = b
  BY <1>1, <1>2, <1>3, CallFinds
<1> QED
  BY <1>4 DEF f, g, b

\* The comparison is the only one of its node.
LEMMA LeafTargets ==
  ASSUME NEW e, NEW h, Hijackable(<<e>>, h)
  PROVE  /\ ~Names(e.left, h.name) /\ ~Names(e.right, h.name) /\ ~Names(e.right, h.target)
         /\ Names(e.left, h.target) => IsFirst(1, Targets(<<e>>, h))
         /\ ~Names(e.left, h.target) => Targets(<<e>>, h) = {}
<1>1. DOMAIN <<e>> = {1} /\ <<e>>[1] = e
  OBVIOUS
<1>2. /\ ~Names(e.left, h.name) /\ ~Names(e.right, h.name) /\ ~Names(e.right, h.target)
  BY <1>1 DEF Hijackable
<1>3. Targets(<<e>>, h) = {i \in {1} : Names(e.left, h.target)}
  BY <1>1 DEF Targets
<1>4. Names(e.left, h.target) => IsFirst(1, Targets(<<e>>, h))
  BY <1>3 DEF IsFirst
<1> QED
  BY <1>2, <1>3, <1>4

\* A sequence of one element that is changed.
LEMMA OneChanged ==
  ASSUME NEW S, NEW s \in Seq(S), NEW z, Len(s) = 1
  PROVE  [s EXCEPT ![1] = z] = <<z>>
<1>1. DOMAIN s = {1} /\ s = [i \in {1} |-> s[i]]
  OBVIOUS
<1>2. DOMAIN <<z>> = {1} /\ <<z>> = [i \in {1} |-> z]
  OBVIOUS
<1> QED
  BY <1>1, <1>2

\* A comparison of the target is replaced.
LEMMA LeafChanged ==
  ASSUME NEW e, IsComparison(e), NEW h, h.value # Empty, Names(e.left, h.target),
         NEW tree, tree.leaves = <<e>>, tree.flux = FluxOf(e.fn, e.left, e.right),
         NEW r, r = [tree  |-> CallTree(e.fn, TermTree(Replaced(e.left, h.name), h),
                                        TermTree(Const(h.value), h)),
                     value |-> h.value, found |-> TRUE]
  PROVE  Changed(tree, r, 1, h)
<1> DEFINE x == Replaced(e.left, h.name)
           y == Const(h.value)
           t == [leaves  |-> <<Call(e.fn, x, y)>>,
                 flux    |-> FluxOf(e.fn, x, y),
                 extract |-> ExtractCall(ExtractTerm(x, h.name), ExtractTerm(y, h.name))]
<1>1. /\ e.fn \in Comparisons \cup {":"} /\ IsTerm(e.left) /\ IsTerm(e.right)
      /\ e.left.kind = "ident"
  BY DEF IsComparison, Names
<1>2. CallTree(e.fn, TermTree(x, h), TermTree(y, h)) = t
  <2> HIDE DEF x, y
  <2> QED
    BY <1>1, LeafTree
<1>3. r = [tree |-> t, value |-> h.value, found |-> TRUE]
  <2> HIDE DEF t
  <2> QED
    BY <1>2
<1>4. t.extract[FALSE] = [value |-> h.value, found |-> TRUE]
  BY LeafExtract
<1>5. t.leaves = [tree.leaves EXCEPT ![1] = Put(e, h)]
  <2>1. Put(e, h) = Call(e.fn, x, y)
    BY DEF Put
  <2>2. [<<e>> EXCEPT ![1] = Put(e, h)] = <<Put(e, h)>>
    OBVIOUS
  <2>3. t.leaves = <<Call(e.fn, x, y)>>
    BY Zenon
  <2> HIDE DEF t, x, y
  <2> QED
    BY Zenon, <2>1, <2>2, <2>3
<1>6. ASSUME tree.flux.ok
      PROVE  /\ t.flux.ok
             /\ t.flux.parts = [tree.flux.parts EXCEPT ![1] = PutPart(tree.flux.parts[1], h)]
  <2> DEFINE f == tree.flux
             p == f.parts[1]
             o == OperatorOf(e.fn, e.left)
  <2>1. /\ f.parts \in Seq(FluxPart) /\ Len(f.parts) = 1
        /\ e.left.declared \in DOMAIN TypeOf
        /\ e.fn = ":" => TypeOf[e.left.declared] = "strings"
        /\ p = [op |-> o, name |-> e.left.path[1], value |-> p.value]
    <3> DEFINE g == FluxOf(e.fn, e.left, e.right)
    <3>1. f = g
      OBVIOUS
    <3>a. g.ok
      BY <1>6
    <3>2. IsLeafFlux(e.fn, e.left, g)
      BY <1>1, <3>a, FluxLeaf
    <3> HIDE DEF f, g
    <3> QED
      BY <1>1, <3>1, <3>2 DEF IsLeafFlux
  <2>2. t.flux = FluxOf(e.fn, x, y)
    BY Zenon
  <2>3. /\ t.flux.ok
        /\ t.flux.parts = <<[op |-> o, name |-> h.name, value |-> h.value]>>
    <3>1. /\ FluxOf(e.fn, x, y).ok
          /\ FluxOf(e.fn, x, y).parts = <<[op |-> o, name |-> h.name, value |-> h.value]>>
      BY <1>1, <2>1, FluxPut
    <3> HIDE DEF t, x, y, o
    <3> QED
      BY Zenon, <2>2, <3>1
  <2>4. PutPart(p, h) = [op |-> o, name |-> h.name, value |-> h.value]
    <3>1. p.op = o
      <4> HIDE DEF p, o
      <4> QED
        BY <2>1
    <3> HIDE DEF p, o
    <3> QED
      BY <3>1 DEF PutPart
  <2>5. [f.parts EXCEPT ![1] = PutPart(p, h)] = <<PutPart(p, h)>>
    <3> HIDE DEF f, p, o
    <3> QED
      BY <2>1, OneChanged
  <2> HIDE DEF t, o
  <2> QED
    BY Zenon, <2>3, <2>4, <2>5
<1>7. IsTree(t)
  BY Zenon DEF IsTree
<1>8. r.value = h.value /\ r.found = TRUE /\ r.tree = t
  BY <1>3
<1>9. \E u : r = [tree |-> u, value |-> r.value, found |-> r.found]
  BY <1>3, <1>8
<1>10. tree.leaves[1] = e
  OBVIOUS
<1> HIDE DEF t, x, y
<1> QED
  BY Zenon, <1>4, <1>5, <1>6, <1>7, <1>8, <1>9, <1>10 DEF Changed

\* The node of a comparison has the invariant.
LEMMA LeafHijacked ==
  ASSUME NEW e \in FluxLeaves, NEW h \in Hijacks
  PROVE  Hijacked(ComparisonNode(e, h), h)
<1> DEFINE n == ComparisonNode(e, h)
           x == ExtractCall(ExtractTerm(e.left, h.name), ExtractTerm(e.right, h.name))
<1>1. IsComparison(e) /\ h.value # Empty
  BY InputsAssumption
<1>2. /\ e.fn \in Comparisons \cup {":"} /\ IsTerm(e.left) /\ IsTerm(e.right)
      /\ Call(e.fn, e.left, e.right) = e
  BY <1>1 DEF IsComparison
<1>3. n.tree = [leaves |-> <<e>>, flux |-> FluxOf(e.fn, e.left, e.right), extract |-> x]
  <2>1. n.tree = CallTree(e.fn, TermTree(e.left, h), TermTree(e.right, h))
    BY DEF ComparisonNode, CallNode, TermNode
  <2>2. CallTree(e.fn, TermTree(e.left, h), TermTree(e.right, h))
        = [leaves |-> <<Call(e.fn, e.left, e.right)>>, flux |-> FluxOf(e.fn, e.left, e.right),
           extract |-> x]
    BY <1>2, LeafTree
  <2> HIDE DEF n, x
  <2> QED
    BY Zenon, <1>2, <2>1, <2>2
<1>4. /\ n.tree.leaves = <<e>> /\ n.tree.flux = FluxOf(e.fn, e.left, e.right)
      /\ n.tree.extract = x
  <2> HIDE DEF n, x
  <2> QED
    BY <1>3
<1>5. IsTree(n.tree)
  <2> HIDE DEF n, x
  <2> QED
    BY <1>3 DEF IsTree
<1>6. <<e>> \in Seq(FluxLeaves) /\ Len(<<e>>) = 1
  BY OneElement
<1>7. ASSUME n.tree.flux.ok
      PROVE  n.tree.flux.parts \in Seq(FluxPart) /\ Len(n.tree.flux.parts) = 1
  <2>1. FluxOf(e.fn, e.left, e.right).ok
    BY <1>4, <1>7
  <2>2. IsLeafFlux(e.fn, e.left, FluxOf(e.fn, e.left, e.right))
    BY <1>2, <2>1, FluxLeaf
  <2> HIDE DEF n
  <2> QED
    BY <1>4, <2>2 DEF IsLeafFlux
<1>8. ASSUME Hijackable(<<e>>, h)
      PROVE  /\ n.tree.extract[FALSE] = Nil
             /\ Targets(<<e>>, h) = {} =>
                  n.hijack[FALSE] = [tree |-> n.tree, value |-> Empty, found |-> FALSE]
             /\ Targets(<<e>>, h) # {} =>
                  \E i : /\ IsFirst(i, Targets(<<e>>, h))
                         /\ Changed(n.tree, n.hijack[FALSE], i, h)
  <2>1. /\ ~Names(e.left, h.name) /\ ~Names(e.right, h.name) /\ ~Names(e.right, h.target)
        /\ Names(e.left, h.target) => IsFirst(1, Targets(<<e>>, h))
        /\ ~Names(e.left, h.target) => Targets(<<e>>, h) = {}
    BY <1>8, LeafTargets
  <2>2. n.tree.extract[FALSE] = Nil
    <3>1. x[FALSE] = Nil
      BY <2>1, LeafMisses
    <3> HIDE DEF n, x
    <3> QED
      BY <1>4, <3>1
  <2>3. CASE Names(e.left, h.target)
    <3>1. n.hijack[FALSE]
          = [tree  |-> CallTree(e.fn, TermTree(Replaced(e.left, h.name), h),
                                TermTree(Const(h.value), h)),
             value |-> h.value, found |-> TRUE]
      BY Zenon, <1>1, <2>1, <2>3, LeafHijack
    <3> HIDE DEF n, x
    <3>2. Changed(n.tree, n.hijack[FALSE], 1, h)
      BY <1>1, <1>4, <2>3, <3>1, LeafChanged
    <3>3. Targets(<<e>>, h) # {}
      BY <2>1, <2>3 DEF IsFirst
    <3> QED
      BY Zenon, <2>1, <2>2, <2>3, <3>2, <3>3
  <2>4. CASE ~Names(e.left, h.target)
    <3>1. n.hijack[FALSE] = [tree |-> n.tree, value |-> Empty, found |-> FALSE]
      BY Zenon, <1>1, <2>1, <2>4, LeafHijack
    <3> HIDE DEF n, x
    <3> QED
      BY Zenon, <2>1, <2>2, <2>4, <3>1
  <2> QED
    BY <2>3, <2>4
<1>9. Len(n.tree.leaves) = 1 /\ n.tree.leaves \in Seq(FluxLeaves)
  <2> HIDE DEF n, x
  <2> QED
    BY <1>4, <1>6
<1> HIDE DEF n, x
<1>10. Hijacked(n, h)
  <2>1. Len(n.tree.leaves) > 0
    BY <1>9
  <2> QED
    BY Zenon, <1>4, <1>5, <1>7, <1>8, <1>9, <2>1 DEF Hijacked
<1> QED
  BY <1>10 DEF n

\* A sequence with one element changed.
LEMMA ExceptIndex ==
  ASSUME NEW S, NEW s \in Seq(S), NEW i \in 1..Len(s), NEW z
  PROVE  /\ [s EXCEPT ![i] = z] \in Seq(S \cup {z}) /\ Len([s EXCEPT ![i] = z]) = Len(s)
         /\ [s EXCEPT ![i] = z][i] = z
         /\ \A j \in 1..Len(s) : j # i => [s EXCEPT ![i] = z][j] = s[j]
  OBVIOUS

\* A change of one operand of a concatenation is one of the concatenation.
PutLeft(s, t, i, z) ==
  /\ [s EXCEPT ![i] = z] \o t = [(s \o t) EXCEPT ![i] = z]
  /\ (s \o t)[i] = s[i]

PutRight(s, t, i, z) ==
  /\ s \o [t EXCEPT ![i] = z] = [(s \o t) EXCEPT ![Len(s) + i] = z]
  /\ (s \o t)[Len(s) + i] = t[i]

\* It is, on either side.
LEMMA ExceptLeft ==
  ASSUME NEW S, NEW s \in Seq(S), NEW t \in Seq(S), NEW i \in 1..Len(s), NEW z
  PROVE  PutLeft(s, t, i, z)
<1> DEFINE T == S \cup {z}
           a == [s EXCEPT ![i] = z]
           c == s \o t
           x == a \o t
           y == [c EXCEPT ![i] = z]
<1>1. a \in Seq(T) /\ Len(a) = Len(s) /\ a[i] = z /\ \A j \in 1..Len(s) : j # i => a[j] = s[j]
  BY ExceptIndex
<1>2. s \in Seq(T) /\ t \in Seq(T) /\ Len(s) \in Nat /\ Len(t) \in Nat
  OBVIOUS
<1>3. /\ c \in Seq(T) /\ Len(c) = Len(s) + Len(t)
      /\ \A j \in 1..Len(s) : c[j] = s[j]
      /\ \A j \in 1..Len(t) : c[Len(s) + j] = t[j]
  BY <1>2, Concatenation
<1>4. i \in 1..Len(c)
  BY <1>2, <1>3
<1>6. T \cup {z} = T
  OBVIOUS
<1>12. c[i] = s[i]
  BY <1>3
<1>13. a \in Seq(T)
  BY <1>1
<1>14. c \in Seq(T)
  BY <1>3
<1> HIDE DEF T, a, c
<1>5. /\ y \in Seq(T \cup {z}) /\ Len(y) = Len(c) /\ y[i] = z
      /\ \A j \in 1..Len(c) : j # i => y[j] = c[j]
  BY <1>4, <1>14, ExceptIndex
<1>7. /\ x \in Seq(T) /\ Len(x) = Len(a) + Len(t)
      /\ \A j \in 1..Len(a) : x[j] = a[j]
      /\ \A j \in 1..Len(t) : x[Len(a) + j] = t[j]
  BY <1>2, <1>13, Concatenation
<1> HIDE DEF x, y
<1>8. ASSUME NEW j \in 1..(Len(s) + Len(t))
      PROVE  x[j] = y[j]
  <2>1. CASE j \in 1..Len(s)
    BY <1>1, <1>2, <1>3, <1>5, <1>7, <2>1
  <2>2. CASE j \notin 1..Len(s)
    <3>1. PICK k \in 1..Len(t) : j = Len(s) + k
      <4>1. j - Len(s) \in 1..Len(t) /\ j = Len(s) + (j - Len(s))
        BY <1>2, <2>2
      <4> QED
        BY <4>1
    <3>2. x[j] = t[k] /\ c[j] = t[k]
      BY <1>1, <1>3, <1>7, <3>1
    <3>3. j # i /\ j \in 1..Len(c)
      BY <1>3, <2>2
    <3> QED
      BY <1>5, <3>2, <3>3
  <2> QED
    BY <2>1, <2>2
<1>9. Len(x) = Len(s) + Len(t) /\ Len(y) = Len(s) + Len(t)
  BY <1>1, <1>3, <1>5, <1>7
<1>10. y \in Seq(T)
  BY <1>5, <1>6
<1>11. x = y
  BY <1>7, <1>8, <1>9, <1>10, EqualSequences
<1> QED
  BY <1>11, <1>12 DEF x, y, a, c, PutLeft

LEMMA ExceptRight ==
  ASSUME NEW S, NEW s \in Seq(S), NEW t \in Seq(S), NEW i \in 1..Len(t), NEW z
  PROVE  PutRight(s, t, i, z)
<1> DEFINE T == S \cup {z}
           a == [t EXCEPT ![i] = z]
           c == s \o t
           x == s \o a
           k == Len(s) + i
           y == [c EXCEPT ![k] = z]
<1>1. a \in Seq(T) /\ Len(a) = Len(t) /\ a[i] = z /\ \A j \in 1..Len(t) : j # i => a[j] = t[j]
  BY ExceptIndex
<1>2. s \in Seq(T) /\ t \in Seq(T) /\ Len(s) \in Nat /\ Len(t) \in Nat
  OBVIOUS
<1>3. /\ c \in Seq(T) /\ Len(c) = Len(s) + Len(t)
      /\ \A j \in 1..Len(s) : c[j] = s[j]
      /\ \A j \in 1..Len(t) : c[Len(s) + j] = t[j]
  BY <1>2, Concatenation
<1>4. k \in 1..Len(c)
  BY <1>2, <1>3
<1>12. k = Len(s) + i /\ c[k] = t[i]
  BY <1>3
<1>6. T \cup {z} = T
  OBVIOUS
<1>13. s \in Seq(T) /\ a \in Seq(T)
  BY <1>1, <1>2
<1>14. c \in Seq(T)
  BY <1>3
<1> HIDE DEF T, a, c, k
<1>5. /\ y \in Seq(T \cup {z}) /\ Len(y) = Len(c) /\ y[k] = z
      /\ \A j \in 1..Len(c) : j # k => y[j] = c[j]
  BY <1>4, <1>14, ExceptIndex
<1>7. /\ x \in Seq(T) /\ Len(x) = Len(s) + Len(a)
      /\ \A j \in 1..Len(s) : x[j] = s[j]
      /\ \A j \in 1..Len(a) : x[Len(s) + j] = a[j]
  BY <1>13, Concatenation
<1> HIDE DEF x, y
<1>8. ASSUME NEW j \in 1..(Len(s) + Len(t))
      PROVE  x[j] = y[j]
  <2>1. CASE j \in 1..Len(s)
    <3>1. x[j] = s[j] /\ c[j] = s[j]
      BY <1>3, <1>7, <2>1
    <3>2. j # k /\ j \in 1..Len(c)
      BY <1>2, <1>3, <1>12, <2>1
    <3> QED
      BY <1>5, <3>1, <3>2
  <2>2. CASE j \notin 1..Len(s)
    <3>1. PICK m \in 1..Len(t) : j = Len(s) + m
      <4>1. j - Len(s) \in 1..Len(t) /\ j = Len(s) + (j - Len(s))
        BY <1>2, <2>2
      <4> QED
        BY <4>1
    <3>2. x[j] = a[m] /\ c[j] = t[m]
      BY <1>1, <1>3, <1>7, <3>1
    <3>3. CASE m = i
      BY <1>1, <1>5, <1>12, <3>1, <3>2, <3>3
    <3>4. CASE m # i
      <4>1. j # k /\ j \in 1..Len(c)
        BY <1>2, <1>3, <1>12, <3>1, <3>4
      <4> QED
        BY <1>1, <1>5, <3>2, <3>4, <4>1
    <3> QED
      BY <3>3, <3>4
  <2> QED
    BY <2>1, <2>2
<1>9. Len(x) = Len(s) + Len(t) /\ Len(y) = Len(s) + Len(t)
  BY <1>1, <1>3, <1>5, <1>7
<1>10. y \in Seq(T)
  BY <1>5, <1>6
<1>11. x = y
  BY <1>7, <1>8, <1>9, <1>10, EqualSequences
<1> QED
  BY <1>11, <1>12 DEF x, y, a, c, k, PutRight

\* The connectives of two operands.
Binary == {"AND", "OR"}

\* The tree of a connective.
LEMMA CallTreeIs ==
  ASSUME NEW fn \in Binary, NEW s, NEW t
  PROVE  CallTree(fn, s, t) =
           [leaves  |-> s.leaves \o t.leaves,
            flux    |-> IF fn = "AND" THEN FluxAnd(s.flux, t.flux) ELSE Fail,
            extract |-> ExtractCall(s.extract, t.extract)]
  BY DEF CallTree, Connectives, Binary

\* The tree of a call, but for its Flux.
JoinedTree(u, s, t) ==
  /\ IsTree(u) /\ u.leaves = s.leaves \o t.leaves
  /\ u.extract = ExtractCall(s.extract, t.extract)

\* That is the tree of a connective,
LEMMA CallTreeFields ==
  ASSUME NEW fn \in Binary, NEW s, NEW t
  PROVE  JoinedTree(CallTree(fn, s, t), s, t)
<1> DEFINE a == s.leaves \o t.leaves
           b == IF fn = "AND" THEN FluxAnd(s.flux, t.flux) ELSE Fail
           c == ExtractCall(s.extract, t.extract)
           u == CallTree(fn, s, t)
<1>1. u = [leaves |-> a, flux |-> b, extract |-> c]
  BY CallTreeIs
<1> HIDE DEF a, b, c, u
<1>2. IsTree(u) /\ u.leaves = a /\ u.extract = c
  BY <1>1 DEF IsTree
<1> QED
  BY <1>2 DEF a, c, u, JoinedTree

\* The Flux of a tree, of that of its operands.
JoinedFlux(f, fn, g, k) ==
  /\ f.ok => fn = "AND" /\ g.ok /\ k.ok
  /\ fn = "AND" /\ g.ok /\ k.ok => f.ok /\ f.parts = g.parts \o k.parts

\* and this is its Flux.
LEMMA CallTreeFlux ==
  ASSUME NEW fn \in Binary, NEW s, NEW t
  PROVE  JoinedFlux(CallTree(fn, s, t).flux, fn, s.flux, t.flux)
<1> DEFINE p == s.flux.parts \o t.flux.parts
           f == CallTree(fn, s, t).flux
<1>1. f = IF fn = "AND" THEN FluxAnd(s.flux, t.flux) ELSE Fail
  BY DEF CallTree, Connectives, Binary
<1>2. FluxAnd(s.flux, t.flux) = IF s.flux.ok /\ t.flux.ok THEN Done(p) ELSE Fail
  BY DEF FluxAnd
<1>3. Done(p).ok /\ Done(p).parts = p
  BY DoneParts
<1>4. ~Fail.ok
  BY DEF Fail
<1> HIDE DEF f, p
<1>5. JoinedFlux(f, fn, s.flux, t.flux)
  BY Zenon, <1>1, <1>2, <1>3, <1>4 DEF JoinedFlux, p
<1> QED
  BY <1>5 DEF f

\* The tree of NOT.
LEMMA NotTreeFields ==
  ASSUME NEW t, IsTree(t)
  PROVE  /\ IsTree(NotTree(t)) /\ NotTree(t).leaves = t.leaves /\ ~NotTree(t).flux.ok
         /\ NotTree(t).extract = ExtractCall(t.extract, Nothing)
<1>1. PICK a, b, c : t = [leaves |-> a, flux |-> b, extract |-> c]
  BY DEF IsTree
<1>2. NotTree(t) = [[t EXCEPT !.flux = Fail] EXCEPT !.extract = ExtractCall(t.extract, Nothing)]
  BY <1>1 DEF NotTree
<1> DEFINE d == ExtractCall(t.extract, Nothing)
<1> HIDE DEF d
<1>3. [t EXCEPT !.flux = Fail] = [leaves |-> a, flux |-> Fail, extract |-> c]
  BY <1>1
<1>4. [[leaves |-> a, flux |-> Fail, extract |-> c] EXCEPT !.extract = d]
      = [leaves |-> a, flux |-> Fail, extract |-> d]
  OBVIOUS
<1>5. NotTree(t) = [leaves |-> a, flux |-> Fail, extract |-> d]
  BY Zenon, <1>2, <1>3, <1>4 DEF d
<1>6. /\ NotTree(t).leaves = a /\ NotTree(t).flux = Fail /\ NotTree(t).extract = d
      /\ IsTree(NotTree(t))
  <2> DEFINE u == NotTree(t)
  <2>1. u = [leaves |-> a, flux |-> Fail, extract |-> d]
    BY <1>5
  <2> HIDE DEF u
  <2>2. u.leaves = a /\ u.flux = Fail /\ u.extract = d
    BY <2>1
  <2>3. \E x, y, z : u = [leaves |-> x, flux |-> y, extract |-> z]
    BY <2>1
  <2> QED
    BY Zenon, <2>2, <2>3 DEF u, IsTree
<1>7. t.leaves = a
  BY <1>1
<1>8. ~Fail.ok
  BY DEF Fail
<1> QED
  BY <1>6, <1>7, <1>8 DEF d

\* What an operand finds is found.
LEMMA ExtractFirst ==
  ASSUME NEW h, h.value # Empty, NEW f, NEW g,
         f[FALSE] = [value |-> h.value, found |-> TRUE]
         \/ (f[FALSE] = Nil /\ g[FALSE] = [value |-> h.value, found |-> TRUE])
  PROVE  ExtractCall(f, g)[FALSE] = [value |-> h.value, found |-> TRUE]
<1> DEFINE x == [value |-> h.value, found |-> TRUE]
<1>1. Hit(x)
  BY DEF Hit
<1> SUFFICES ExtractCall(f, g)[FALSE] = x
  OBVIOUS
<1>0. ExtractCall(f, g)[FALSE] =
        IF Hit(f[FALSE]) THEN f[FALSE]
        ELSE IF Hit(g[f[FALSE].found]) THEN g[f[FALSE].found] ELSE Nil
  BY CallFinds
<1> HIDE DEF x
<1>2. CASE f[FALSE] = x
  <2>1. Hit(f[FALSE])
    BY <1>1, <1>2
  <2> QED
    BY Zenon, <1>0, <1>2, <2>1
<1>3. CASE f[FALSE] = Nil /\ g[FALSE] = x
  <2>1. ~Hit(f[FALSE]) /\ f[FALSE].found = FALSE
    BY <1>3, NilMisses
  <2>2. g[f[FALSE].found] = x
    BY <1>3, <2>1
  <2>3. Hit(g[f[FALSE].found])
    BY <1>1, <2>2
  <2> QED
    BY Zenon, <1>0, <2>1, <2>2, <2>3
<1> QED
  BY <1>2, <1>3 DEF x

\* What no operand finds is not found.
LEMMA ExtractMisses ==
  ASSUME NEW f, NEW g, f[FALSE] = Nil, g[FALSE] = Nil
  PROVE  ExtractCall(f, g)[FALSE] = Nil
  BY NilMisses, CallFinds

\* The comparisons of both operands.
LEMMA BothTargets ==
  ASSUME NEW l \in Seq(FluxLeaves), NEW m \in Seq(FluxLeaves), NEW h, Hijackable(l \o m, h)
  PROVE  /\ Hijackable(l, h) /\ Hijackable(m, h)
         /\ \A i : IsFirst(i, Targets(l, h)) => IsFirst(i, Targets(l \o m, h))
         /\ Targets(l, h) = {} =>
              \A i : IsFirst(i, Targets(m, h)) => IsFirst(Len(l) + i, Targets(l \o m, h))
         /\ Targets(l, h) = {} /\ Targets(m, h) = {} => Targets(l \o m, h) = {}
<1> DEFINE k == l \o m
           Bad(e) == Names(e.left, h.name) \/ Names(e.right, h.name) \/ Names(e.right, h.target)
           Hits(e) == Names(e.left, h.target)
<1>1. /\ k \in Seq(FluxLeaves) /\ Len(k) = Len(l) + Len(m)
      /\ \A i \in 1..Len(l) : k[i] = l[i]
      /\ \A i \in 1..Len(m) : k[Len(l) + i] = m[i]
  BY Concatenation
<1>2. /\ DOMAIN l = 1..Len(l) /\ DOMAIN m = 1..Len(m) /\ DOMAIN k = 1..Len(k)
      /\ Len(l) \in Nat /\ Len(m) \in Nat
  BY <1>1
<1>3. \A i \in DOMAIN k : ~Bad(k[i])
  BY DEF Hijackable
<1>4. /\ Targets(l, h) = {i \in 1..Len(l) : Hits(l[i])}
      /\ Targets(m, h) = {i \in 1..Len(m) : Hits(m[i])}
      /\ Targets(k, h) = {i \in 1..Len(k) : Hits(k[i])}
  BY <1>2 DEF Targets
<1> HIDE DEF k, Bad, Hits
<1>5. (\A i \in 1..Len(l) : ~Bad(l[i])) /\ (\A i \in 1..Len(m) : ~Bad(m[i]))
  <2>1. ASSUME NEW i \in 1..Len(l)
        PROVE  ~Bad(l[i])
    <3>1. i \in DOMAIN k /\ k[i] = l[i]
      BY <1>1, <1>2
    <3> QED
      BY <1>3, <3>1
  <2>2. ASSUME NEW i \in 1..Len(m)
        PROVE  ~Bad(m[i])
    <3>1. Len(l) + i \in DOMAIN k /\ k[Len(l) + i] = m[i]
      BY <1>1, <1>2
    <3> QED
      BY <1>3, <3>1
  <2> QED
    BY <2>1, <2>2
<1>6. Hijackable(l, h) /\ Hijackable(m, h)
  BY <1>2, <1>5 DEF Hijackable, Bad
<1>7. ASSUME NEW i, IsFirst(i, Targets(l, h))
      PROVE  IsFirst(i, Targets(k, h))
  <2>1. i \in 1..Len(l) /\ Hits(l[i])
    BY <1>4, <1>7 DEF IsFirst
  <2>2. i \in Targets(k, h)
    BY <1>1, <1>2, <1>4, <2>1
  <2>3. ASSUME NEW j \in Targets(k, h)
        PROVE  i <= j
    <3>1. CASE j \in 1..Len(l)
      <4>1. j \in Targets(l, h)
        BY <1>1, <1>4, <2>3, <3>1
      <4> QED
        BY <1>7, <4>1 DEF IsFirst
    <3>2. CASE j \notin 1..Len(l)
      <4>1. j \in 1..Len(k)
        BY <1>4
      <4> QED
        BY <1>2, <1>1, <2>1, <3>2, <4>1
    <3> QED
      BY <3>1, <3>2
  <2> QED
    BY <2>2, <2>3 DEF IsFirst
<1>8. ASSUME Targets(l, h) = {}, NEW j \in Targets(k, h)
      PROVE  \E i \in Targets(m, h) : j = Len(l) + i
  <2>1. j \in 1..Len(k) /\ Hits(k[j])
    BY <1>4
  <2>2. j \notin 1..Len(l)
    BY <1>1, <1>4, <1>8, <2>1
  <2>3. j - Len(l) \in 1..Len(m) /\ j = Len(l) + (j - Len(l))
    BY <1>1, <1>2, <2>1, <2>2
  <2>4. PICK i \in 1..Len(m) : j = Len(l) + i
    BY <2>3
  <2>5. i \in Targets(m, h)
    BY <1>1, <1>4, <2>1, <2>4
  <2> QED
    BY <2>4, <2>5
<1>9. ASSUME Targets(l, h) = {}, NEW i, IsFirst(i, Targets(m, h))
      PROVE  IsFirst(Len(l) + i, Targets(k, h))
  <2>1. i \in 1..Len(m) /\ Hits(m[i])
    BY <1>4, <1>9 DEF IsFirst
  <2>2. Len(l) + i \in Targets(k, h)
    BY <1>1, <1>2, <1>4, <2>1
  <2>3. ASSUME NEW j \in Targets(k, h)
        PROVE  Len(l) + i <= j
    <3>1. PICK n \in Targets(m, h) : j = Len(l) + n
      BY <1>8, <1>9
    <3>2. i <= n /\ n \in 1..Len(m)
      BY <1>4, <1>9 DEF IsFirst
    <3> QED
      BY <1>2, <2>1, <3>1, <3>2
  <2> QED
    BY <2>2, <2>3 DEF IsFirst
<1>10. Targets(l, h) = {} /\ Targets(m, h) = {} => Targets(k, h) = {}
  BY <1>8
<1> QED
  BY <1>6, <1>7, <1>9, <1>10 DEF k

\* The parts of Hijacked.
Kept(tree) ==
  /\ IsTree(tree) /\ tree.leaves \in Seq(FluxLeaves) /\ Len(tree.leaves) > 0
  /\ tree.flux.ok => /\ tree.flux.parts \in Seq(FluxPart)
                     /\ Len(tree.flux.parts) = Len(tree.leaves)

\* Hijacked, by its parts.
LEMMA HijackedParts ==
  ASSUME NEW node, NEW h
  PROVE  /\ Hijacked(node, h) => Kept(node.tree)
         /\ Hijacked(node, h) /\ Hijackable(node.tree.leaves, h) =>
              /\ node.tree.extract[FALSE] = Nil
              /\ Targets(node.tree.leaves, h) = {} =>
                   node.hijack[FALSE] = [tree |-> node.tree, value |-> Empty, found |-> FALSE]
              /\ Targets(node.tree.leaves, h) # {} =>
                   \E i : /\ IsFirst(i, Targets(node.tree.leaves, h))
                          /\ Changed(node.tree, node.hijack[FALSE], i, h)
  BY DEF Hijacked, Kept

\* A connective keeps the types.
LEMMA CallKept ==
  ASSUME NEW fn \in Binary, NEW s, Kept(s), NEW t, Kept(t)
  PROVE  Kept(CallTree(fn, s, t))
<1> DEFINE u == CallTree(fn, s, t)
<1>1. IsTree(u) /\ u.leaves = s.leaves \o t.leaves
  BY CallTreeFields DEF JoinedTree
<1>2. /\ s.leaves \in Seq(FluxLeaves) /\ Len(s.leaves) > 0
      /\ t.leaves \in Seq(FluxLeaves) /\ Len(t.leaves) > 0
  BY DEF Kept
<1>3. s.leaves \o t.leaves \in Seq(FluxLeaves)
      /\ Len(s.leaves \o t.leaves) = Len(s.leaves) + Len(t.leaves)
  BY <1>2, Concatenation
<1>4. JoinedFlux(u.flux, fn, s.flux, t.flux)
  BY CallTreeFlux
<1> HIDE DEF u
<1>5. ASSUME u.flux.ok
      PROVE  u.flux.parts \in Seq(FluxPart) /\ Len(u.flux.parts) = Len(u.leaves)
  <2>1. /\ s.flux.parts \in Seq(FluxPart) /\ Len(s.flux.parts) = Len(s.leaves)
        /\ t.flux.parts \in Seq(FluxPart) /\ Len(t.flux.parts) = Len(t.leaves)
    BY <1>4, <1>5 DEF Kept, JoinedFlux
  <2>2. /\ s.flux.parts \o t.flux.parts \in Seq(FluxPart)
        /\ Len(s.flux.parts \o t.flux.parts) = Len(s.flux.parts) + Len(t.flux.parts)
    BY <2>1, Concatenation
  <2>3. u.flux.parts = s.flux.parts \o t.flux.parts
    BY <1>4, <1>5 DEF JoinedFlux
  <2> QED
    BY <1>1, <1>3, <2>1, <2>2, <2>3
<1>6. Len(u.leaves) > 0 /\ u.leaves \in Seq(FluxLeaves)
  <2> DEFINE k == Len(s.leaves)
             m == Len(t.leaves)
  <2>1. k \in Nat /\ m \in Nat /\ k > 0 /\ m > 0
    BY <1>2
  <2>2. Len(u.leaves) = k + m
    BY <1>1, <1>3
  <2> HIDE DEF k, m
  <2>3. Len(u.leaves) > 0
    BY <2>1, <2>2
  <2> QED
    BY <1>1, <1>3, <2>3
<1>7. Kept(u)
  BY <1>1, <1>5, <1>6 DEF Kept
<1> QED
  BY <1>7 DEF u

\* A record with a new tree.
LEMMA NewTree ==
  ASSUME NEW u, NEW t, NEW v, NEW r, r = [tree |-> u, value |-> v, found |-> TRUE]
  PROVE  [r EXCEPT !.tree = t] = [tree |-> t, value |-> v, found |-> TRUE]
<1> DEFINE s == [r EXCEPT !.tree = t]
           q == [tree |-> t, value |-> v, found |-> TRUE]
<1>1. /\ DOMAIN s = {"tree", "value", "found"}
      /\ s = [f \in {"tree", "value", "found"} |-> s[f]]
  OBVIOUS
<1>2. /\ DOMAIN q = {"tree", "value", "found"}
      /\ q = [f \in {"tree", "value", "found"} |-> q[f]]
  OBVIOUS
<1>3. s["tree"] = q["tree"] /\ s["value"] = q["value"] /\ s["found"] = q["found"]
  OBVIOUS
<1> HIDE DEF s, q
<1>4. s = q
  BY <1>1, <1>2, <1>3
<1> QED
  BY <1>4 DEF s, q

\* The first comparison is in the left operand.
LEMMA ChangedLeft ==
  ASSUME NEW fn \in Binary, NEW s, Kept(s), NEW t, Kept(t), NEW h, h.value # Empty,
         NEW a, NEW i \in 1..Len(s.leaves), Changed(s, a, i, h)
  PROVE  Changed(CallTree(fn, s, t),
                 [tree |-> CallTree(fn, a.tree, t), value |-> h.value, found |-> TRUE], i, h)
<1> DEFINE u == CallTree(fn, s, t)
           w == CallTree(fn, a.tree, t)
           r == [tree |-> w, value |-> h.value, found |-> TRUE]
<1>1. u.leaves = s.leaves \o t.leaves /\ u.extract = ExtractCall(s.extract, t.extract)
  BY CallTreeFields DEF JoinedTree
<1>2. /\ IsTree(w) /\ w.leaves = a.tree.leaves \o t.leaves
      /\ w.extract = ExtractCall(a.tree.extract, t.extract)
  <2>1. JoinedTree(w, a.tree, t)
    BY CallTreeFields
  <2> HIDE DEF w
  <2> QED
    BY <2>1 DEF JoinedTree
<1>3. JoinedFlux(u.flux, fn, s.flux, t.flux)
  BY CallTreeFlux
<1>4. JoinedFlux(w.flux, fn, a.tree.flux, t.flux)
  BY CallTreeFlux
<1>6. r.tree = w /\ r.value = h.value /\ r.found = TRUE
  OBVIOUS
<1>7. \E x : r = [tree |-> x, value |-> r.value, found |-> r.found]
  OBVIOUS
<1>8. w.extract[FALSE] = [value |-> h.value, found |-> TRUE]
  <2>1. a.tree.extract[FALSE] = [value |-> h.value, found |-> TRUE]
    BY DEF Changed
  <2>2. ExtractCall(a.tree.extract, t.extract)[FALSE] = [value |-> h.value, found |-> TRUE]
    BY <2>1, ExtractFirst
  <2> HIDE DEF w
  <2> QED
    BY <1>2, <2>2
<1> HIDE DEF u, w, r
<1>9. w.leaves = [u.leaves EXCEPT ![i] = Put(u.leaves[i], h)]
  <2> DEFINE z == Put(s.leaves[i], h)
  <2>1. s.leaves \in Seq(FluxLeaves) /\ t.leaves \in Seq(FluxLeaves)
    BY DEF Kept
  <2>2. a.tree.leaves = [s.leaves EXCEPT ![i] = z]
    BY DEF Changed
  <2> HIDE DEF z
  <2>3. PutLeft(s.leaves, t.leaves, i, z)
    BY <2>1, ExceptLeft
  <2> QED
    BY Zenon, <1>1, <1>2, <2>2, <2>3 DEF z, PutLeft
<1>10. ASSUME u.flux.ok
       PROVE  w.flux.ok /\ w.flux.parts = [u.flux.parts EXCEPT ![i] = PutPart(u.flux.parts[i], h)]
  <2> DEFINE z == PutPart(s.flux.parts[i], h)
  <2>1. fn = "AND" /\ s.flux.ok /\ t.flux.ok
    BY <1>3, <1>10 DEF JoinedFlux
  <2>2. /\ s.flux.parts \in Seq(FluxPart) /\ Len(s.flux.parts) = Len(s.leaves)
        /\ t.flux.parts \in Seq(FluxPart)
    BY <2>1 DEF Kept
  <2>3. a.tree.flux.ok /\ a.tree.flux.parts = [s.flux.parts EXCEPT ![i] = z]
    BY <2>1 DEF Changed
  <2> HIDE DEF z
  <2>4. i \in 1..Len(s.flux.parts)
    BY <2>2
  <2>5. s.flux.parts \in Seq(FluxPart) /\ t.flux.parts \in Seq(FluxPart)
    BY <2>2
  <2>6. PutLeft(s.flux.parts, t.flux.parts, i, z)
    BY <2>4, <2>5, ExceptLeft
  <2>7. w.flux.ok /\ w.flux.parts = a.tree.flux.parts \o t.flux.parts
    BY <1>4, <2>1, <2>3 DEF JoinedFlux
  <2>8. u.flux.parts = s.flux.parts \o t.flux.parts
    BY <1>3, <2>1 DEF JoinedFlux
  <2> QED
    BY Zenon, <2>3, <2>6, <2>7, <2>8 DEF z, PutLeft
<1>11. Changed(u, r, i, h)
  BY Zenon, <1>2, <1>6, <1>7, <1>8, <1>9, <1>10 DEF Changed
<1> QED
  BY <1>11 DEF u, w, r

\* The first comparison is in the right operand.
LEMMA ChangedRight ==
  ASSUME NEW fn \in Binary, NEW s, Kept(s), NEW t, Kept(t), NEW h, h.value # Empty,
         NEW a, NEW i \in 1..Len(t.leaves), Changed(t, a, i, h),
         s.extract[FALSE] = Nil
  PROVE  Changed(CallTree(fn, s, t),
                 [tree |-> CallTree(fn, s, a.tree), value |-> h.value, found |-> TRUE],
                 Len(s.leaves) + i, h)
<1> DEFINE u == CallTree(fn, s, t)
           w == CallTree(fn, s, a.tree)
           r == [tree |-> w, value |-> h.value, found |-> TRUE]
           n == Len(s.leaves) + i
<1>1. u.leaves = s.leaves \o t.leaves /\ u.extract = ExtractCall(s.extract, t.extract)
  BY CallTreeFields DEF JoinedTree
<1>2. /\ IsTree(w) /\ w.leaves = s.leaves \o a.tree.leaves
      /\ w.extract = ExtractCall(s.extract, a.tree.extract)
  <2>1. JoinedTree(w, s, a.tree)
    BY CallTreeFields
  <2> HIDE DEF w
  <2> QED
    BY <2>1 DEF JoinedTree
<1>3. JoinedFlux(u.flux, fn, s.flux, t.flux)
  BY CallTreeFlux
<1>4. JoinedFlux(w.flux, fn, s.flux, a.tree.flux)
  BY CallTreeFlux
<1>6. r.tree = w /\ r.value = h.value /\ r.found = TRUE
  OBVIOUS
<1>7. \E x : r = [tree |-> x, value |-> r.value, found |-> r.found]
  OBVIOUS
<1>8. w.extract[FALSE] = [value |-> h.value, found |-> TRUE]
  <2>1. a.tree.extract[FALSE] = [value |-> h.value, found |-> TRUE]
    BY DEF Changed
  <2>2. ExtractCall(s.extract, a.tree.extract)[FALSE] = [value |-> h.value, found |-> TRUE]
    BY <2>1, ExtractFirst
  <2> HIDE DEF w
  <2> QED
    BY <1>2, <2>2
<1> HIDE DEF u, w, r
<1>9. w.leaves = [u.leaves EXCEPT ![n] = Put(u.leaves[n], h)]
  <2> DEFINE z == Put(t.leaves[i], h)
  <2>1. s.leaves \in Seq(FluxLeaves) /\ t.leaves \in Seq(FluxLeaves)
    BY DEF Kept
  <2>2. a.tree.leaves = [t.leaves EXCEPT ![i] = z]
    BY DEF Changed
  <2> HIDE DEF z
  <2>3. PutRight(s.leaves, t.leaves, i, z)
    BY <2>1, ExceptRight
  <2> QED
    BY Zenon, <1>1, <1>2, <2>2, <2>3 DEF z, PutRight
<1>10. ASSUME u.flux.ok
       PROVE  w.flux.ok /\ w.flux.parts = [u.flux.parts EXCEPT ![n] = PutPart(u.flux.parts[n], h)]
  <2> DEFINE z == PutPart(t.flux.parts[i], h)
  <2>1. fn = "AND" /\ s.flux.ok /\ t.flux.ok
    BY <1>3, <1>10 DEF JoinedFlux
  <2>2. /\ s.flux.parts \in Seq(FluxPart) /\ Len(s.flux.parts) = Len(s.leaves)
        /\ t.flux.parts \in Seq(FluxPart) /\ Len(t.flux.parts) = Len(t.leaves)
    BY <2>1 DEF Kept
  <2>3. a.tree.flux.ok /\ a.tree.flux.parts = [t.flux.parts EXCEPT ![i] = z]
    BY <2>1 DEF Changed
  <2> HIDE DEF z
  <2>4. i \in 1..Len(t.flux.parts) /\ n = Len(s.flux.parts) + i
    BY <2>2
  <2>9. i \in 1..Len(t.flux.parts)
    BY <2>4
  <2>5. s.flux.parts \in Seq(FluxPart) /\ t.flux.parts \in Seq(FluxPart)
    BY <2>2
  <2>6. PutRight(s.flux.parts, t.flux.parts, i, z)
    BY <2>5, <2>9, ExceptRight
  <2>7. w.flux.ok /\ w.flux.parts = s.flux.parts \o a.tree.flux.parts
    BY <1>4, <2>1, <2>3 DEF JoinedFlux
  <2>8. u.flux.parts = s.flux.parts \o t.flux.parts
    BY <1>3, <2>1 DEF JoinedFlux
  <2> QED
    BY Zenon, <2>3, <2>4, <2>6, <2>7, <2>8 DEF z, PutRight
<1>11. Changed(u, r, n, h)
  BY Zenon, <1>2, <1>6, <1>7, <1>8, <1>9, <1>10 DEF Changed
<1> QED
  BY <1>11 DEF u, w, r, n

\* The loop over the operands of a connective.
Loop(x, fn, a, b, t) ==
  /\ Hit(a) => x = [a EXCEPT !.tree = CallTree(fn, a.tree, t)]
  /\ a.found = FALSE /\ ~Hit(a) /\ Hit(b) => x = [b EXCEPT !.tree = CallTree(fn, a.tree, b.tree)]
  /\ a.found = FALSE /\ ~Hit(a) /\ ~Hit(b) =>
       x = [tree |-> CallTree(fn, a.tree, b.tree), value |-> Empty, found |-> FALSE]

\* It is what hijacking a connective runs.
LEMMA CallHijacks ==
  ASSUME NEW fn, NEW l, NEW r, NEW h
  PROVE  Loop(CallNode(fn, l, r, h).hijack[FALSE], fn, l.hijack[FALSE], r.hijack[FALSE], r.tree)
<1> DEFINE a == l.hijack[FALSE]
           b == r.hijack[a.found]
           x == HijackCall(fn, l, r, h)[FALSE]
<1>1. CallNode(fn, l, r, h).hijack = HijackCall(fn, l, r, h)
  BY DEF CallNode
<1>2. x = IF Hit(a) THEN [a EXCEPT !.tree = CallTree(fn, a.tree, r.tree)]
          ELSE IF Hit(b) THEN [b EXCEPT !.tree = CallTree(fn, a.tree, b.tree)]
          ELSE [tree |-> CallTree(fn, a.tree, b.tree), value |-> Empty, found |-> FALSE]
  BY DEF HijackCall
<1>3. a.found = FALSE => b = r.hijack[FALSE]
  BY Zenon
<1> HIDE DEF a, b, x
<1>4. Loop(x, fn, a, r.hijack[FALSE], r.tree)
  BY Zenon, <1>2, <1>3 DEF Loop
<1> QED
  BY Zenon, <1>1, <1>4 DEF a, x

\* A comparison that was replaced ends the loop.
LEMMA ChangedHits ==
  ASSUME NEW tree, NEW r, NEW i, NEW h, h.value # Empty, Changed(tree, r, i, h)
  PROVE  /\ Hit(r)
         /\ \A t : [r EXCEPT !.tree = t] = [tree |-> t, value |-> h.value, found |-> TRUE]
<1>1. r.value = h.value /\ r.found = TRUE /\ \E u : r = [tree |-> u, value |-> r.value, found |-> r.found]
  BY DEF Changed
<1>2. PICK u : r = [tree |-> u, value |-> h.value, found |-> TRUE]
  BY Zenon, <1>1
<1>3. ASSUME NEW t
      PROVE  [r EXCEPT !.tree = t] = [tree |-> t, value |-> h.value, found |-> TRUE]
  BY <1>2, NewTree
<1> QED
  BY <1>1, <1>3 DEF Hit

\* What Hijacked says of a tree that may be hijacked.
Replaces(tree, r, h) ==
  /\ tree.extract[FALSE] = Nil
  /\ Targets(tree.leaves, h) = {} => r = [tree |-> tree, value |-> Empty, found |-> FALSE]
  /\ Targets(tree.leaves, h) # {} =>
       \E i : IsFirst(i, Targets(tree.leaves, h)) /\ Changed(tree, r, i, h)

\* Hijacked, by these.
LEMMA HijackedIs ==
  ASSUME NEW node, NEW h
  PROVE  Hijacked(node, h) <=>
           /\ Kept(node.tree)
           /\ Hijackable(node.tree.leaves, h) => Replaces(node.tree, node.hijack[FALSE], h)
  BY Zenon DEF Hijacked, Kept, Replaces

\* AND and OR keep the invariant.
LEMMA CallHijacked ==
  ASSUME NEW fn \in Binary, NEW h, h.value # Empty,
         NEW l, Hijacked(l, h), NEW r, Hijacked(r, h)
  PROVE  Hijacked(CallNode(fn, l, r, h), h)
<1> DEFINE n == CallNode(fn, l, r, h)
           s == l.tree
           t == r.tree
           u == CallTree(fn, s, t)
           a == l.hijack[FALSE]
           b == r.hijack[FALSE]
           x == n.hijack[FALSE]
<1>1. n.tree = u
  BY DEF CallNode
<1>2. Kept(s) /\ Kept(t)
  BY HijackedIs
<1>3. Kept(u)
  BY <1>2, CallKept
<1>4. JoinedTree(u, s, t)
  BY CallTreeFields
<1>5. s.leaves \in Seq(FluxLeaves) /\ t.leaves \in Seq(FluxLeaves)
  BY <1>2 DEF Kept
<1>6. ASSUME Hijackable(u.leaves, h)
      PROVE  Replaces(u, x, h)
  <2>1. Hijackable(s.leaves \o t.leaves, h) /\ u.leaves = s.leaves \o t.leaves
    BY <1>4, <1>6 DEF JoinedTree
  <2>2. /\ Hijackable(s.leaves, h) /\ Hijackable(t.leaves, h)
        /\ \A i : IsFirst(i, Targets(s.leaves, h)) => IsFirst(i, Targets(u.leaves, h))
        /\ Targets(s.leaves, h) = {} =>
             \A i : IsFirst(i, Targets(t.leaves, h)) =>
               IsFirst(Len(s.leaves) + i, Targets(u.leaves, h))
        /\ Targets(s.leaves, h) = {} /\ Targets(t.leaves, h) = {} => Targets(u.leaves, h) = {}
    <3> HIDE DEF s, t, u
    <3> QED
      BY <1>5, <2>1, BothTargets
  <2>3. Replaces(s, a, h) /\ Replaces(t, b, h)
    BY <2>2, HijackedIs
  <2>4. u.extract[FALSE] = Nil
    <3>1. s.extract[FALSE] = Nil /\ t.extract[FALSE] = Nil
      BY <2>3 DEF Replaces
    <3> HIDE DEF s, t, u
    <3> QED
      BY <1>4, <3>1, ExtractMisses DEF JoinedTree
  <2>5. Loop(x, fn, a, b, t)
    BY CallHijacks
  <2> HIDE DEF n, s, t, a, b, x
  <2>6. CASE Targets(s.leaves, h) # {}
    <3>1. PICK i : IsFirst(i, Targets(s.leaves, h)) /\ Changed(s, a, i, h)
      BY <2>3, <2>6 DEF Replaces
    <3>2. i \in 1..Len(s.leaves)
      BY <1>5, <3>1 DEF IsFirst, Targets
    <3>3. /\ Hit(a)
          /\ [a EXCEPT !.tree = CallTree(fn, a.tree, t)]
             = [tree |-> CallTree(fn, a.tree, t), value |-> h.value, found |-> TRUE]
      BY <3>1, ChangedHits
    <3>4. Changed(u, [tree |-> CallTree(fn, a.tree, t), value |-> h.value, found |-> TRUE], i, h)
      BY <1>2, <3>1, <3>2, ChangedLeft
    <3>5. Changed(u, x, i, h)
      <4> HIDE DEF u
      <4> QED
        BY Zenon, <2>5, <3>3, <3>4 DEF Loop
    <3>6. IsFirst(i, Targets(u.leaves, h))
      BY <2>2, <3>1
    <3> HIDE DEF u
    <3>7. Targets(u.leaves, h) # {}
      BY <3>6 DEF IsFirst
    <3> QED
      BY Zenon, <2>4, <3>5, <3>6, <3>7 DEF Replaces
  <2>7. CASE Targets(s.leaves, h) = {} /\ Targets(t.leaves, h) # {}
    <3>1. PICK i : IsFirst(i, Targets(t.leaves, h)) /\ Changed(t, b, i, h)
      BY <2>3, <2>7 DEF Replaces
    <3>2. i \in 1..Len(t.leaves)
      BY <1>5, <3>1 DEF IsFirst, Targets
    <3>3. a = [tree |-> s, value |-> Empty, found |-> FALSE]
      BY <2>3, <2>7 DEF Replaces
    <3>4. ~Hit(a) /\ a.found = FALSE /\ a.tree = s
      BY <3>3 DEF Hit
    <3>5. /\ Hit(b)
          /\ [b EXCEPT !.tree = CallTree(fn, s, b.tree)]
             = [tree |-> CallTree(fn, s, b.tree), value |-> h.value, found |-> TRUE]
      BY <3>1, ChangedHits
    <3>6. s.extract[FALSE] = Nil
      BY <2>3 DEF Replaces
    <3>7. Changed(u, [tree |-> CallTree(fn, s, b.tree), value |-> h.value, found |-> TRUE],
                  Len(s.leaves) + i, h)
      BY <1>2, <3>1, <3>2, <3>6, ChangedRight
    <3>8. Changed(u, x, Len(s.leaves) + i, h)
      <4> HIDE DEF u
      <4> QED
        BY Zenon, <2>5, <3>4, <3>5, <3>7 DEF Loop
    <3>9. IsFirst(Len(s.leaves) + i, Targets(u.leaves, h))
      BY <2>2, <2>7, <3>1
    <3> HIDE DEF u
    <3>10. Targets(u.leaves, h) # {}
      BY <3>9 DEF IsFirst
    <3> QED
      BY Zenon, <2>4, <3>8, <3>9, <3>10 DEF Replaces
  <2>8. CASE Targets(s.leaves, h) = {} /\ Targets(t.leaves, h) = {}
    <3>1. /\ a = [tree |-> s, value |-> Empty, found |-> FALSE]
          /\ b = [tree |-> t, value |-> Empty, found |-> FALSE]
      BY <2>3, <2>8 DEF Replaces
    <3>2. /\ ~Hit(a) /\ a.found = FALSE /\ a.tree = s
          /\ ~Hit(b) /\ b.tree = t
      BY <3>1 DEF Hit
    <3>3. x = [tree |-> u, value |-> Empty, found |-> FALSE]
      BY Zenon, <2>5, <3>2 DEF Loop
    <3> HIDE DEF u
    <3> QED
      BY Zenon, <2>2, <2>4, <2>8, <3>3 DEF Replaces
  <2> QED
    BY <2>6, <2>7, <2>8
<1>7. Kept(n.tree) /\ (Hijackable(n.tree.leaves, h) => Replaces(n.tree, n.hijack[FALSE], h))
  <2> HIDE DEF n, u
  <2> QED
    BY Zenon, <1>1, <1>3, <1>6
<1> QED
  BY <1>7, HijackedIs

\* NOT is not translated to Flux, so that only the comparisons matter.
LEMMA NotHijacked ==
  ASSUME NEW h, h.value # Empty, NEW node, Hijacked(node, h)
  PROVE  Hijacked(NotNode(node, h), h)
<1> DEFINE n == NotNode(node, h)
           t == node.tree
           u == NotTree(t)
           a == node.hijack[FALSE]
           x == n.hijack[FALSE]
<1>1. n.tree = u
  BY DEF NotNode
<1>2. Kept(t)
  BY HijackedIs
<1>3. /\ IsTree(u) /\ u.leaves = t.leaves /\ ~u.flux.ok
      /\ u.extract = ExtractCall(t.extract, Nothing)
  BY <1>2, NotTreeFields DEF Kept
<1>4. Nothing[FALSE] = Nil
  BY DEF Nothing, Nil
<1>5. Kept(u)
  BY <1>2, <1>3 DEF Kept
<1>6. ASSUME Hijackable(u.leaves, h)
      PROVE  Replaces(u, x, h)
  <2>1. Replaces(t, a, h)
    BY <1>3, <1>6, HijackedIs
  <2>2. u.extract[FALSE] = Nil
    <3>1. t.extract[FALSE] = Nil
      BY <2>1 DEF Replaces
    <3> HIDE DEF t, u
    <3> QED
      BY <1>3, <1>4, <3>1, ExtractMisses
  <2>3. x = IF Hit(a) THEN [a EXCEPT !.tree = NotTree(a.tree)]
            ELSE [tree |-> NotTree(a.tree), value |-> Empty, found |-> FALSE]
    BY DEF NotNode, HijackNot
  <2> HIDE DEF n, t, a, x
  <2>4. CASE Targets(t.leaves, h) # {}
    <3>1. PICK i : IsFirst(i, Targets(t.leaves, h)) /\ Changed(t, a, i, h)
      BY <2>1, <2>4 DEF Replaces
    <3> DEFINE w == NotTree(a.tree)
    <3>2. Hit(a) /\ [a EXCEPT !.tree = w] = [tree |-> w, value |-> h.value, found |-> TRUE]
      BY <3>1, ChangedHits
    <3>3. IsTree(a.tree)
      BY <3>1 DEF Changed
    <3>4. /\ IsTree(w) /\ w.leaves = a.tree.leaves
          /\ w.extract = ExtractCall(a.tree.extract, Nothing)
      BY <3>3, NotTreeFields
    <3>5. x = [tree |-> w, value |-> h.value, found |-> TRUE]
      BY Zenon, <2>3, <3>2
    <3> HIDE DEF w, u
    <3>6. w.extract[FALSE] = [value |-> h.value, found |-> TRUE]
      <4>1. a.tree.extract[FALSE] = [value |-> h.value, found |-> TRUE]
        BY <3>1 DEF Changed
      <4>2. ExtractCall(a.tree.extract, Nothing)[FALSE] = [value |-> h.value, found |-> TRUE]
        BY <4>1, ExtractFirst
      <4> QED
        BY <3>4, <4>2
    <3>7. w.leaves = [u.leaves EXCEPT ![i] = Put(u.leaves[i], h)]
      <4>1. a.tree.leaves = [t.leaves EXCEPT ![i] = Put(t.leaves[i], h)]
        BY <3>1 DEF Changed
      <4> QED
        BY Zenon, <1>3, <3>4, <4>1
    <3>8. x.tree = w /\ x.value = h.value /\ x.found = TRUE
      BY <3>5
    <3>9. \E y : x = [tree |-> y, value |-> x.value, found |-> x.found]
      BY Zenon, <3>5, <3>8
    <3>10. Changed(u, x, i, h)
      BY Zenon, <1>3, <3>4, <3>6, <3>7, <3>8, <3>9 DEF Changed
    <3> QED
      BY Zenon, <1>3, <2>2, <2>4, <3>1, <3>10 DEF Replaces
  <2>5. CASE Targets(t.leaves, h) = {}
    <3>1. a = [tree |-> t, value |-> Empty, found |-> FALSE]
      BY <2>1, <2>5 DEF Replaces
    <3>2. ~Hit(a) /\ a.tree = t
      BY <3>1 DEF Hit
    <3>3. x = [tree |-> u, value |-> Empty, found |-> FALSE]
      BY Zenon, <2>3, <3>2
    <3> HIDE DEF u
    <3> QED
      BY Zenon, <1>3, <2>2, <2>5, <3>3 DEF Replaces
  <2> QED
    BY <2>4, <2>5
<1>7. Kept(n.tree) /\ (Hijackable(n.tree.leaves, h) => Replaces(n.tree, n.hijack[FALSE], h))
  <2> HIDE DEF n, u
  <2> QED
    BY Zenon, <1>1, <1>5, <1>6
<1> QED
  BY <1>7, HijackedIs

-----------------------------------------------------------------------------
\* Charts: every trigger is counted in one window, and in one status

\* A finite set of subsets has a least one.
LEMMA MinimalSubset ==
  ASSUME NEW D, IsFiniteSet(D), NEW Bad \in SUBSET (SUBSET D), Bad # {}
  PROVE  \E s \in Bad : \A t \in Bad : t \subseteq s => t = s
<1>1. FiniteSubsetsOf(D) = SUBSET D
  BY FS_FiniteSubsetsOfFinite
<1>2. IsWellFoundedOn(StrictSubsetOrdering(D), SUBSET D)
  BY <1>1, FS_StrictSubsetOrderingWellFounded
<1>3. \E s \in Bad : \A t \in Bad : ~(<<t, s>> \in StrictSubsetOrdering(D))
  BY <1>2, WFMin
<1>4. PICK s \in Bad : \A t \in Bad : ~(<<t, s>> \in StrictSubsetOrdering(D))
  BY <1>3
<1>5. ASSUME NEW t \in Bad, t \subseteq s
      PROVE  t = s
  BY <1>4, <1>5 DEF StrictSubsetOrdering
<1> QED
  BY <1>5

\* A sum, as the properties write it.
Total(f) == FoldFunction(+, 0, f)

\* The element that a fold takes next.
Some(s) == CHOOSE x \in s : TRUE

\* The sums of f over each subset of D, as FoldFunction adds them up.
PartialSums(g, f, D) ==
  /\ g = [s \in SUBSET D |-> g[s]] /\ g[{}] = 0
  /\ \A s \in SUBSET D : s # {} => g[s] = f[Some(s)] + g[s \ {Some(s)}]

\* A sum, of the partial sums.
LEMMA SumIs ==
  ASSUME NEW D, IsFiniteSet(D), NEW f, DOMAIN f = D, NEW g, PartialSums(g, f, D)
  PROVE  Total(f) = g[D]
<1> DEFINE Step(h) == [s \in SUBSET D |->
             IF s = {} THEN 0
             ELSE f[Some(s)] + h[s \ {Some(s)}]]
           iter == CHOOSE h : h = Step(h)
<1>0. /\ g = [s \in SUBSET D |-> g[s]] /\ g[{}] = 0
      /\ \A s \in SUBSET D : s # {} => g[s] = f[Some(s)] + g[s \ {Some(s)}]
  BY DEF PartialSums
<1>1. Total(f) = iter[D]
  BY DEF Total, Some, FoldFunction, FoldFunctionOnSet, MapThenFoldSet
<1>2. g = Step(g)
  <2>1. ASSUME NEW s \in SUBSET D
        PROVE  g[s] = Step(g)[s]
    <3>1. CASE s = {}
      BY <1>0, <3>1
    <3>2. CASE s # {}
      BY <1>0, <3>2
    <3> QED
      BY <3>1, <3>2
  <2> HIDE DEF Step
  <2>2. Step(g) = [s \in SUBSET D |-> Step(g)[s]]
    BY DEF Step
  <2> QED
    BY Zenon, <1>0, <2>1, <2>2
<1>3. iter = Step(iter)
  <2> HIDE DEF Step
  <2> QED
    BY <1>2
<1> HIDE DEF iter
<1>4. \A s \in SUBSET D : iter[s] = g[s]
  <2> DEFINE Bad == {s \in SUBSET D : iter[s] # g[s]}
  <2> SUFFICES ASSUME Bad # {}
               PROVE  FALSE
    OBVIOUS
  <2>1. PICK s \in Bad : \A t \in Bad : t \subseteq s => t = s
    <3>1. Bad \in SUBSET (SUBSET D)
      OBVIOUS
    <3> HIDE DEF Bad
    <3> QED
      BY <3>1, MinimalSubset
  <2>2. s # {}
    <3>1. Step(iter)[{}] = 0
      OBVIOUS
    <3> HIDE DEF Step
    <3>2. iter[{}] = 0
      BY Zenon, <1>3, <3>1
    <3> QED
      BY <1>0, <3>2
  <2> DEFINE x == Some(s)
             t == s \ {x}
  <2>3. x \in s /\ t \in SUBSET D /\ t \subseteq s /\ t # s
    BY <2>2 DEF Some
  <2>4. iter[t] = g[t]
    BY <2>1, <2>3
  <2>5. iter[s] = f[x] + iter[t]
    <3>1. Step(iter)[s] = f[x] + iter[t]
      BY <2>2
    <3> HIDE DEF Step, x, t
    <3> QED
      BY Zenon, <1>3, <3>1
  <2>6. g[s] = f[x] + g[t]
    BY <1>0, <2>2
  <2> QED
    BY <2>4, <2>5, <2>6
<1> QED
  BY <1>1, <1>4

\* The sizes of the parts of a set add up to its own.
LEMMA SumOfParts ==
  ASSUME NEW T, IsFiniteSet(T), NEW D, IsFiniteSet(D), NEW P,
         \A i \in D : P[i] \subseteq T,
         \A x \in T : \E i \in D : x \in P[i],
         \A x \in T : \A i, j \in D : x \in P[i] /\ x \in P[j] => i = j,
         NEW f, DOMAIN f = D, \A i \in D : f[i] = Cardinality(P[i])
  PROVE  Total(f) = Cardinality(T)
<1> DEFINE Of(s) == {x \in T : \E i \in s : x \in P[i]}
           g     == [s \in SUBSET D |-> Cardinality(Of(s))]
<1>1. Of({}) = {} /\ Of(D) = T
  OBVIOUS
<1>2. \A s \in SUBSET D : g[s] = Cardinality(Of(s))
  OBVIOUS
<1>3. ASSUME NEW s \in SUBSET D, NEW i \in s
      PROVE  g[s] = f[i] + g[s \ {i}]
  <2>1. /\ Of(s) = P[i] \cup Of(s \ {i})
        /\ P[i] \cap Of(s \ {i}) = {}
    OBVIOUS
  <2>2. IsFiniteSet(P[i]) /\ IsFiniteSet(Of(s \ {i}))
    <3>1. P[i] \in SUBSET T /\ Of(s \ {i}) \in SUBSET T
      OBVIOUS
    <3> HIDE DEF Of
    <3> QED
      BY <3>1, FS_Subset
  <2> HIDE DEF Of, g
  <2>3. Cardinality(P[i] \cup Of(s \ {i})) = Cardinality(P[i]) + Cardinality(Of(s \ {i}))
    BY <2>1, <2>2, DisjointUnion
  <2>4. g[s] = Cardinality(Of(s)) /\ g[s \ {i}] = Cardinality(Of(s \ {i}))
    BY <1>2
  <2>5. f[i] = Cardinality(P[i])
    OBVIOUS
  <2> QED
    BY <2>1, <2>3, <2>4, <2>5
<1>4. g[{}] = 0 /\ g[D] = Cardinality(T)
  <2> HIDE DEF Of, g
  <2> QED
    BY <1>1, <1>2, FS_EmptySet
<1>5. g = [s \in SUBSET D |-> g[s]]
  OBVIOUS
<1> HIDE DEF g
<1>6. ASSUME NEW s \in SUBSET D, s # {}
      PROVE  g[s] = f[Some(s)] + g[s \ {Some(s)}]
  <2>1. Some(s) \in s
    BY <1>6 DEF Some
  <2> QED
    BY <1>3, <2>1
<1>7. PartialSums(g, f, D)
  BY <1>4, <1>5, <1>6 DEF PartialSums
<1> QED
  BY <1>4, <1>7, SumIs

\* A count that fits an int32 is kept.
LEMMA FitsInt32 ==
  ASSUME NEW n \in Nat, n < Half
  PROVE  ToInt32(n) = n
<1>1. Half \in Nat \ {0}
  BY MetricsAssumption
<1>2. n + Half \in 0..(2 * Half - 1) /\ 2 * Half \in Nat \ {0}
  BY <1>1
<1>3. (n + Half) % (2 * Half) = n + Half
  BY <1>2
<1> QED
  BY <1>1, <1>3 DEF ToInt32

\* A part of a set whose size fits.
LEMMA PartFits ==
  ASSUME NEW T, IsFiniteSet(T), Cardinality(T) < Half, NEW s \in SUBSET T
  PROVE  ToInt32(Cardinality(s)) = Cardinality(s)
<1>1. IsFiniteSet(s) /\ Cardinality(s) <= Cardinality(T)
  BY FS_Subset
<1>2. Cardinality(s) \in Nat /\ Cardinality(T) \in Nat
  BY <1>1, FS_CardinalityType
<1>3. Half \in Nat
  BY MetricsAssumption
<1>4. Cardinality(s) < Half
  BY <1>1, <1>2, <1>3
<1> QED
  BY <1>2, <1>4, FitsInt32

\* The caller's own triggers in the range of a request.
Own(stored, req, now) ==
  {x \in stored : x.uid = req.authenticated /\ InRange(Params(req, now), x)}

\* A request that is granted asks for the caller's own triggers.
LEMMA GrantedIsOwn ==
  ASSUME NEW stored, NEW req, NEW now,
         GrantedNamespaceUID(req.id, req.authenticated) # NilUID
  PROVE  Matching(stored, GrantedNamespaceUID(req.id, req.authenticated), Params(req, now))
           = Own(stored, req, now)
<1>1. GrantedNamespaceUID(req.id, req.authenticated) = req.authenticated
  BY DEF GrantedNamespaceUID
<1> QED
  BY <1>1 DEF Matching, Own

\* What a count has of them.
CountsOf(own) == [s \in {x.status : x \in own} |-> ToInt32(Cardinality({x \in own : x.status = s}))]

\* A count that is answered counts the caller's own triggers.
LEMMA CountIs ==
  ASSUME NEW stored, NEW req, NEW now, Count(stored, req, now).status = "ok"
  PROVE  Count(stored, req, now).counts = CountsOf(Own(stored, req, now))
<1> DEFINE uid == GrantedNamespaceUID(req.id, req.authenticated)
           p   == Params(req, now)
           c   == CountsOf(Matching(stored, uid, p))
<1>1. Count(stored, req, now) =
        CASE uid = NilUID -> Unauthorized
          [] uid # NilUID /\ ~Queried(p) -> InvalidArgument
          [] OTHER -> [status |-> "ok", counts |-> c]
  BY DEF Count, CountsOf
<1> HIDE DEF uid, p, c
<1>2. uid # NilUID /\ Queried(p)
  BY <1>1 DEF Unauthorized, InvalidArgument
<1>3. Count(stored, req, now).counts = c
  BY <1>1, <1>2
<1>4. Matching(stored, uid, p) = Own(stored, req, now)
  BY <1>2, GrantedIsOwn DEF uid, p
<1> QED
  BY <1>3, <1>4 DEF c

\* A trigger has one status, so that the counts of all add up.
LEMMA CountTotal ==
  ASSUME NEW own, IsFiniteSet(own), Cardinality(own) < Half
  PROVE  Total(CountsOf(own)) = Cardinality(own)
<1> DEFINE D == {x.status : x \in own}
           P == [s \in D |-> {x \in own : x.status = s}]
           f == CountsOf(own)
<1>1. IsFiniteSet(D)
  <2> DEFINE g == [x \in own |-> x.status]
  <2>1. g \in [own -> D] /\ \A s \in D : \E x \in own : g[x] = s
    OBVIOUS
  <2>2. g \in Surjection(own, D)
    BY <2>1 DEF Surjection
  <2> HIDE DEF g, D
  <2> QED
    BY <2>2, FS_Surjection
<1>2. /\ \A s \in D : P[s] \subseteq own
      /\ \A x \in own : \E s \in D : x \in P[s]
      /\ \A x \in own : \A s, t \in D : x \in P[s] /\ x \in P[t] => s = t
  OBVIOUS
<1>3. DOMAIN f = D
  BY DEF CountsOf
<1>4. ASSUME NEW s \in D
      PROVE  f[s] = Cardinality(P[s])
  <2>1. f[s] = ToInt32(Cardinality(P[s]))
    BY DEF CountsOf
  <2>2. P[s] \in SUBSET own
    OBVIOUS
  <2> HIDE DEF f, P
  <2> QED
    BY <2>1, <2>2, PartFits
<1> HIDE DEF D, P, f
<1>5. Total(f) = Cardinality(own)
  BY <1>1, <1>2, <1>3, <1>4, SumOfParts
<1> QED
  BY <1>5 DEF f

\* The triggers in a window.
Within(own, w) == {x \in own : w.from <= x.time /\ x.time < w.to}

\* What a chart has of triggers.
BucketsOf(own, p) ==
  IF own = {} THEN <<>>
  ELSE [i \in DOMAIN Windows(p) |->
          [time |-> Windows(p)[i].to, count |-> ToInt32(Cardinality(Within(own, Windows(p)[i])))]]

\* A chart that is answered is one of the caller's own triggers.
LEMMA ChartIs ==
  ASSUME NEW stored, NEW req, NEW now, Chart(stored, req, now).status = "ok"
  PROVE  /\ Queried(Params(req, now))
         /\ Chart(stored, req, now).buckets = BucketsOf(Own(stored, req, now), Params(req, now))
<1> DEFINE uid == GrantedNamespaceUID(req.id, req.authenticated)
           p   == Params(req, now)
           b   == BucketsOf(Matching(stored, uid, p), p)
<1>1. Chart(stored, req, now) =
        CASE uid = NilUID -> Unauthorized
          [] uid # NilUID /\ ~Queried(p) -> InvalidArgument
          [] OTHER -> [status |-> "ok", buckets |-> b]
  BY DEF Chart, BucketsOf, Within
<1> HIDE DEF uid, p, b
<1>2. uid # NilUID /\ Queried(p)
  BY <1>1 DEF Unauthorized, InvalidArgument
<1>3. Chart(stored, req, now).buckets = b
  BY <1>1, <1>2
<1>4. Matching(stored, uid, p) = Own(stored, req, now)
  BY <1>2, GrantedIsOwn DEF uid, p
<1> QED
  BY <1>2, <1>3, <1>4 DEF b, p

\* The counts of buckets.
CountOf(b) == [i \in DOMAIN b |-> b[i].count]

\* Each trigger in the range is in one window.
LEMMA ChartTotal ==
  ASSUME NEW own, IsFiniteSet(own), Cardinality(own) < Half,
         NEW p, p.start \in Int, p.stop \in Int, p.window \in Nat \ {0},
         \A x \in own : x.time \in Int /\ InRange(p, x)
  PROVE  Total(CountOf(BucketsOf(own, p))) = Cardinality(own)
<1> DEFINE b == BucketsOf(own, p)
           D == DOMAIN b
           w == Windows(p)
           P == [i \in D |-> Within(own, w[i])]
           f == CountOf(b)
<1>1. CASE own = {}
  <2>1. D = {}
    BY <1>1 DEF BucketsOf
  <2>2. IsFiniteSet(D)
    BY <2>1, FS_EmptySet
  <2>3. DOMAIN f = D
    BY DEF CountOf
  <2>4. /\ \A i \in D : P[i] \subseteq own
        /\ \A x \in own : \E i \in D : x \in P[i]
        /\ \A x \in own : \A i, j \in D : x \in P[i] /\ x \in P[j] => i = j
        /\ \A i \in D : f[i] = Cardinality(P[i])
    BY <1>1, <2>1
  <2> HIDE DEF D, P, f
  <2>5. Total(f) = Cardinality(own)
    BY <2>2, <2>3, <2>4, SumOfParts
  <2> QED
    BY <2>5 DEF f
<1>2. CASE own # {}
  <2>1. /\ D = DOMAIN w
        /\ \A i \in D : b[i].count = ToInt32(Cardinality(Within(own, w[i])))
    BY <1>2 DEF BucketsOf
  <2>2. \E n \in Int : DOMAIN w = 1..n
    <3> DEFINE first == p.start - ((p.start - AggregationWindowOffset(p.start)) % p.window)
    <3>1. AggregationWindowOffset(p.start) \in Int
      BY MetricsAssumption DEF AggregationWindowOffset, Midnight
    <3>2. first \in Int
      BY <3>1
    <3>3. DOMAIN w = 1..((p.stop - 1 - first) \div p.window + 1)
      BY DEF Windows
    <3> HIDE DEF first
    <3>4. (p.stop - 1 - first) \div p.window + 1 \in Int
      BY <3>2
    <3> QED
      BY <3>3, <3>4
  <2>3. IsFiniteSet(DOMAIN w)
    BY <2>2, FS_Interval
  <2>4. ASSUME NEW x \in own
        PROVE  /\ \E i \in DOMAIN w : x \in Within(own, w[i])
               /\ \A i, j \in DOMAIN w : x \in Within(own, w[i]) /\ x \in Within(own, w[j]) => i = j
    <3>1. x.time \in Int /\ p.start <= x.time /\ x.time < p.stop
      BY DEF InRange
    <3>2. /\ \E i \in DOMAIN w : w[i].from <= x.time /\ x.time < w[i].to
          /\ \A i, j \in DOMAIN w :
               /\ w[i].from <= x.time /\ x.time < w[i].to
               /\ w[j].from <= x.time /\ x.time < w[j].to
               => i = j
      BY <3>1, WindowsPartition
    <3> HIDE DEF w
    <3> QED
      BY <3>2 DEF Within
  <2>5. \A i \in D : Within(own, w[i]) \in SUBSET own
    BY DEF Within
  <2> HIDE DEF b, w
  <2>6. DOMAIN f = D /\ \A i \in D : f[i] = b[i].count
    BY DEF CountOf
  <2>7. ASSUME NEW i \in D
        PROVE  f[i] = Cardinality(P[i])
    <3>1. f[i] = ToInt32(Cardinality(Within(own, w[i]))) /\ P[i] = Within(own, w[i])
      BY <2>1, <2>6
    <3> HIDE DEF f, P
    <3> QED
      BY <2>5, <3>1, PartFits
  <2>8. /\ \A i \in D : P[i] \subseteq own
        /\ \A x \in own : \E i \in D : x \in P[i]
        /\ \A x \in own : \A i, j \in D : x \in P[i] /\ x \in P[j] => i = j
    BY <2>1, <2>4, <2>5
  <2>9. IsFiniteSet(D)
    BY <2>1, <2>3
  <2> HIDE DEF D, P, f
  <2>10. Total(f) = Cardinality(own)
    BY <2>6, <2>7, <2>8, <2>9, SumOfParts
  <2> QED
    BY <2>10 DEF f, b
<1> QED
  BY <1>1, <1>2

\* influx.go:131 and 221: the chart and the count of a request add up to the
\* same number.
THEOREM ChartAgreesWithCount ==
  ASSUME NEW stored, IsFiniteSet(stored), \A x \in stored : x.time \in Int,
         NEW req, NEW now \in Int, req.start \in Int \/ req.start = NoTime,
         req.stop \in Int \/ req.stop = NoTime, req.window \in Nat \/ req.window = NoTime
  PROVE  TotalsAgree(stored, req, now)
<1> DEFINE p     == Params(req, now)
           count == Count(stored, req, now)
           chart == Chart(stored, req, now)
           own   == Own(stored, req, now)
<1>1. ASSUME count.status = "ok", chart.status = "ok", Cardinality(own) < Half
      PROVE  Total(count.counts) = Cardinality(own) /\ Total(CountOf(chart.buckets)) = Cardinality(own)
  <2>1. count.counts = CountsOf(own)
    BY <1>1, CountIs
  <2>2. Queried(p) /\ chart.buckets = BucketsOf(own, p)
    BY <1>1, ChartIs
  <2>3. p.start \in Int /\ p.stop \in Int /\ p.window \in Nat \ {0}
    BY <2>2, ParamsType DEF Queried
  <2>4. own \in SUBSET stored /\ \A x \in own : x.time \in Int /\ InRange(p, x)
    BY DEF Own
  <2> HIDE DEF p, own
  <2>5. IsFiniteSet(own)
    BY <2>4, FS_Subset
  <2>6. Total(CountsOf(own)) = Cardinality(own)
    BY <1>1, <2>5, CountTotal
  <2>7. Total(CountOf(BucketsOf(own, p))) = Cardinality(own)
    BY <1>1, <2>3, <2>4, <2>5, ChartTotal
  <2> QED
    BY <2>1, <2>2, <2>6, <2>7
<1>2. TotalsAgree(stored, req, now)
      <=> (count.status = "ok" /\ chart.status = "ok" /\ Cardinality(own) < Half
           => /\ Total(count.counts) = Cardinality(own)
              /\ Total(CountOf(chart.buckets)) = Cardinality(own))
  BY DEF TotalsAgree, Total, CountOf, Own
<1> QED
  BY <1>1, <1>2

-----------------------------------------------------------------------------
\* Inputs

\* A stack of nodes with a property.
FilterStack(s) == \E S : s \in Seq(S) /\ \A n \in S : Translated(n)

FluxStack(s, h) == \E S : s \in Seq(S) /\ \A n \in S : Hijacked(n, h)

\* The inputs of each part.
FilterInput(x) ==
  DOMAIN x = {"part", "stack", "nodes"} /\ x.part = "filter" /\ FilterStack(x.stack)

FluxInput(x) ==
  /\ DOMAIN x = {"part", "hijack", "stack", "nodes"} /\ x.part = "flux"
  /\ x.hijack \in Hijacks /\ FluxStack(x.stack, x.hijack)

MetricsInput(x) ==
  /\ DOMAIN x = {"part", "req", "now", "stored"} /\ x.part = "metrics"
  /\ x.req \in Requests /\ x.now \in Nows
  /\ x.stored \subseteq Triggers /\ IsFiniteSet(x.stored)

NamespaceInput(x) ==
  /\ DOMAIN x = {"part", "id", "taken", "failing"} /\ x.part = "namespace"
  /\ x.id \in Ids /\ x.taken \subseteq Ids

\* What every input is, whichever part it is for.
InputInv == FilterInput(input) \/ FluxInput(input) \/ MetricsInput(input) \/ NamespaceInput(input)

\* Nodes of a set of such nodes make such a stack.
LEMMA StackOf ==
  ASSUME NEW S, NEW s \in Seq(S)
  PROVE  /\ (\A n \in S : Translated(n)) => FilterStack(s)
         /\ \A h : (\A n \in S : Hijacked(n, h)) => FluxStack(s, h)
<1>1. (\A n \in S : Translated(n)) => FilterStack(s)
  BY Zenon DEF FilterStack
<1>2. ASSUME NEW h, \A n \in S : Hijacked(n, h)
      PROVE  FluxStack(s, h)
  BY Zenon, <1>2 DEF FluxStack
<1> QED
  BY <1>1, <1>2

\* An empty stack has no nodes.
LEMMA EmptyStacks ==
  /\ FilterStack(<<>>)
  /\ \A h : FluxStack(<<>>, h)
<1>1. PICK S : S = {}
  OBVIOUS
<1>2. <<>> \in Seq(S) /\ \A n \in S : FALSE
  BY <1>1
<1>3. FilterStack(<<>>)
  BY <1>2, StackOf
<1>4. ASSUME NEW h
      PROVE  FluxStack(<<>>, h)
  BY <1>2, StackOf
<1> QED
  BY <1>3, <1>4

\* The first inputs have the invariant.
LEMMA InitInput ==
  ASSUME Init
  PROVE  InputInv
<1>1. CASE input = [part |-> "filter", stack |-> <<>>, nodes |-> 0]
  <2>1. /\ DOMAIN input = {"part", "stack", "nodes"} /\ input.part = "filter"
        /\ input.stack = <<>>
    BY <1>1
  <2> QED
    BY Zenon, <2>1, EmptyStacks DEF InputInv, FilterInput
<1>2. CASE input \in [part : {"flux"}, hijack : Hijacks, stack : {<<>>}, nodes : {0}]
  <2>1. /\ DOMAIN input = {"part", "hijack", "stack", "nodes"} /\ input.part = "flux"
        /\ input.hijack \in Hijacks /\ input.stack = <<>>
    BY <1>2
  <2> QED
    BY Zenon, <2>1, EmptyStacks DEF InputInv, FluxInput
<1>3. CASE input \in [part : {"metrics"}, req : Requests, now : Nows, stored : {{}}]
  <2>1. /\ DOMAIN input = {"part", "req", "now", "stored"} /\ input.part = "metrics"
        /\ input.req \in Requests /\ input.now \in Nows /\ input.stored = {}
    BY <1>3
  <2>2. IsFiniteSet(input.stored) /\ input.stored \subseteq Triggers
    BY <2>1, FS_EmptySet
  <2> QED
    BY Zenon, <2>1, <2>2 DEF InputInv, MetricsInput
<1>4. CASE input \in [part : {"namespace"}, id : Ids, taken : {{}}, failing : {{}}]
  <2>1. /\ DOMAIN input = {"part", "id", "taken", "failing"} /\ input.part = "namespace"
        /\ input.id \in Ids /\ input.taken = {}
    BY <1>4
  <2>2. input.taken \subseteq Ids
    BY <2>1
  <2> QED
    BY Zenon, <2>1, <2>2 DEF InputInv, NamespaceInput
<1> QED
  BY <1>1, <1>2, <1>3, <1>4 DEF Init

\* What a connective takes off the stack, and what it leaves there.
LEMMA FilterPop ==
  ASSUME NEW s, FilterStack(s), s # <<>>
  PROVE  FilterStack(Front(s)) /\ Translated(Last(s))
<1>1. PICK S : s \in Seq(S) /\ \A n \in S : Translated(n)
  BY DEF FilterStack
<1>2. Len(s) > 0 /\ s \in Seq(S)
  BY <1>1
<1>3. Front(s) \in Seq(S) /\ Last(s) \in S
  BY <1>2, FrontAndLast
<1> QED
  BY <1>1, <1>3 DEF FilterStack

LEMMA FluxPop ==
  ASSUME NEW s, NEW h, FluxStack(s, h), s # <<>>
  PROVE  FluxStack(Front(s), h) /\ Hijacked(Last(s), h)
<1>1. PICK S : s \in Seq(S) /\ \A n \in S : Hijacked(n, h)
  BY DEF FluxStack
<1>2. Len(s) > 0 /\ s \in Seq(S)
  BY <1>1
<1>3. Front(s) \in Seq(S) /\ Last(s) \in S
  BY <1>2, FrontAndLast
<1> QED
  BY <1>1, <1>3 DEF FluxStack

\* A node more is a node of a larger set.
LEMMA AppendElement ==
  ASSUME NEW S, NEW s \in Seq(S), NEW x
  PROVE  Append(s, x) \in Seq(S \cup {x})
<1>1. s \in Seq(S \cup {x})
  OBVIOUS
<1> QED
  BY <1>1

\* A node with the invariant is put on the stack.
LEMMA FilterPush ==
  ASSUME NEW s, FilterStack(s), NEW n, Translated(n)
  PROVE  FilterStack(Append(s, n))
<1>1. PICK S : s \in Seq(S) /\ \A m \in S : Translated(m)
  BY DEF FilterStack
<1>2. s \in Seq(S)
  BY <1>1
<1>3. Append(s, n) \in Seq(S \cup {n})
  BY <1>2, AppendElement
<1> QED
  BY <1>1, <1>3 DEF FilterStack

LEMMA FluxPush ==
  ASSUME NEW s, NEW h, FluxStack(s, h), NEW n, Hijacked(n, h)
  PROVE  FluxStack(Append(s, n), h)
<1>1. PICK S : s \in Seq(S) /\ \A m \in S : Hijacked(m, h)
  BY DEF FluxStack
<1>2. s \in Seq(S)
  BY <1>1
<1>3. Append(s, n) \in Seq(S \cup {n})
  BY <1>2, AppendElement
<1> QED
  BY <1>1, <1>3 DEF FluxStack

\* Returning from a node.
LEMMA VisitFilter ==
  ASSUME FilterInput(input), NEW rest, FilterStack(rest), NEW n, Translated(n), Visit(n, rest)
  PROVE  FilterInput(input')
<1>1. FilterStack(Append(rest, n))
  BY FilterPush
<1>2. /\ DOMAIN input' = {"part", "stack", "nodes"} /\ input'.part = "filter"
      /\ input'.stack = Append(rest, n)
  BY DEF FilterInput, Visit
<1> QED
  BY Zenon, <1>1, <1>2 DEF FilterInput

LEMMA VisitFlux ==
  ASSUME FluxInput(input), NEW rest, FluxStack(rest, input.hijack),
         NEW n, Hijacked(n, input.hijack), Visit(n, rest)
  PROVE  FluxInput(input')
<1>1. FluxStack(Append(rest, n), input.hijack)
  BY FluxPush
<1>2. /\ DOMAIN input' = {"part", "hijack", "stack", "nodes"} /\ input'.part = "flux"
      /\ input'.hijack = input.hijack /\ input'.stack = Append(rest, n)
  BY DEF FluxInput, Visit
<1> QED
  BY Zenon, <1>1, <1>2 DEF FluxInput

\* Two operands are on the stack.
LEMMA FrontNotEmpty ==
  ASSUME NEW S, NEW s \in Seq(S), Len(s) > 1
  PROVE  s # <<>> /\ Front(s) # <<>>
<1>0. Len(s) > 0
  OBVIOUS
<1>1. Len(Front(s)) = Len(s) - 1 /\ Front(s) \in Seq(S)
  BY <1>0, FrontAndLast
<1>2. Len(Front(s)) # 0 /\ Len(s) # 0
  BY <1>1
<1> QED
  BY <1>2

\* Every step keeps the invariant.
LEMMA NextInput ==
  ASSUME InputInv, [Next]_input
  PROVE  InputInv'
<1>0. ASSUME NEW h \in Hijacks
      PROVE  h.value # Empty
  BY InputsAssumption
<1>1. ASSUME FilterInput(input), Push
      PROVE  FilterInput(input')
  <2>1. input.part = "filter" /\ FilterStack(input.stack)
    BY <1>1 DEF FilterInput
  <2>2. PICK e \in Leaves : Visit(Compared(e), input.stack)
    BY <1>1, <2>1 DEF Push
  <2>3. Translated(Compared(e))
    BY ComparedTranslated
  <2> QED
    BY <1>1, <2>1, <2>2, <2>3, VisitFilter
<1>2. ASSUME FluxInput(input), Push
      PROVE  FluxInput(input')
  <2>1. input.part = "flux" /\ FluxStack(input.stack, input.hijack) /\ input.hijack \in Hijacks
    BY <1>2 DEF FluxInput
  <2>2. PICK e \in FluxLeaves : Visit(ComparisonNode(e, input.hijack), input.stack)
    BY <1>2, <2>1 DEF Push
  <2>3. Hijacked(ComparisonNode(e, input.hijack), input.hijack)
    BY <2>1, LeafHijacked
  <2> QED
    BY <1>2, <2>1, <2>2, <2>3, VisitFlux
<1>3. ASSUME FilterInput(input), Negate
      PROVE  FilterInput(input')
  <2>1. input.part = "filter" /\ FilterStack(input.stack) /\ input.stack # <<>>
    BY <1>3 DEF FilterInput, Negate
  <2>2. Visit(Not(Last(input.stack)), Front(input.stack))
    BY <1>3, <2>1 DEF Negate
  <2>3. FilterStack(Front(input.stack)) /\ Translated(Last(input.stack))
    BY <2>1, FilterPop
  <2>4. Translated(Not(Last(input.stack)))
    BY <2>3, NotTranslated
  <2> QED
    BY <1>3, <2>2, <2>3, <2>4, VisitFilter
<1>4. ASSUME FluxInput(input), Negate
      PROVE  FluxInput(input')
  <2>1. /\ input.part = "flux" /\ FluxStack(input.stack, input.hijack) /\ input.stack # <<>>
        /\ input.hijack.value # Empty
    BY <1>0, <1>4 DEF FluxInput, Negate
  <2>2. Visit(NotNode(Last(input.stack), input.hijack), Front(input.stack))
    BY <1>4, <2>1 DEF Negate
  <2>3. FluxStack(Front(input.stack), input.hijack) /\ Hijacked(Last(input.stack), input.hijack)
    BY <2>1, FluxPop
  <2>4. Hijacked(NotNode(Last(input.stack), input.hijack), input.hijack)
    BY <2>1, <2>3, NotHijacked
  <2> QED
    BY <1>4, <2>2, <2>3, <2>4, VisitFlux
<1>5. ASSUME FilterInput(input), Join
      PROVE  FilterInput(input')
  <2>1. PICK fn \in {"AND", "OR"} :
          /\ Len(input.stack) > 1
          /\ Visit(IF input.part = "filter"
                   THEN Joined(fn, Last(Front(input.stack)), Last(input.stack))
                   ELSE CallNode(fn, Last(Front(input.stack)), Last(input.stack), input.hijack),
                   Front(Front(input.stack)))
    BY <1>5 DEF Join
  <2>2. input.part = "filter" /\ FilterStack(input.stack)
    BY <1>5 DEF FilterInput
  <2>3. input.stack # <<>> /\ Front(input.stack) # <<>>
    BY <2>1, <2>2, FrontNotEmpty DEF FilterStack
  <2>4. FilterStack(Front(input.stack)) /\ Translated(Last(input.stack))
    BY <2>2, <2>3, FilterPop
  <2>5. FilterStack(Front(Front(input.stack))) /\ Translated(Last(Front(input.stack)))
    BY <2>3, <2>4, FilterPop
  <2>6. Translated(Joined(fn, Last(Front(input.stack)), Last(input.stack)))
    BY <2>4, <2>5, JoinedTranslated
  <2>7. Visit(Joined(fn, Last(Front(input.stack)), Last(input.stack)), Front(Front(input.stack)))
    BY <2>1, <2>2
  <2> QED
    BY <1>5, <2>5, <2>6, <2>7, VisitFilter
<1>6. ASSUME FluxInput(input), Join
      PROVE  FluxInput(input')
  <2>1. PICK fn \in {"AND", "OR"} :
          /\ Len(input.stack) > 1
          /\ Visit(IF input.part = "filter"
                   THEN Joined(fn, Last(Front(input.stack)), Last(input.stack))
                   ELSE CallNode(fn, Last(Front(input.stack)), Last(input.stack), input.hijack),
                   Front(Front(input.stack)))
    BY <1>6 DEF Join
  <2>2. /\ input.part # "filter" /\ FluxStack(input.stack, input.hijack)
        /\ input.hijack.value # Empty
    BY <1>0, <1>6 DEF FluxInput
  <2>3. input.stack # <<>> /\ Front(input.stack) # <<>>
    BY <2>1, <2>2, FrontNotEmpty DEF FluxStack
  <2>4. FluxStack(Front(input.stack), input.hijack) /\ Hijacked(Last(input.stack), input.hijack)
    BY <2>2, <2>3, FluxPop
  <2>5. /\ FluxStack(Front(Front(input.stack)), input.hijack)
        /\ Hijacked(Last(Front(input.stack)), input.hijack)
    BY <2>3, <2>4, FluxPop
  <2>6. fn \in Binary
    BY DEF Binary
  <2>7. Hijacked(CallNode(fn, Last(Front(input.stack)), Last(input.stack), input.hijack),
                 input.hijack)
    BY <2>2, <2>4, <2>5, <2>6, CallHijacked
  <2>8. Visit(CallNode(fn, Last(Front(input.stack)), Last(input.stack), input.hijack),
              Front(Front(input.stack)))
    BY <2>1, <2>2
  <2> QED
    BY <1>6, <2>5, <2>7, <2>8, VisitFlux
<1>7. ASSUME MetricsInput(input), Trigger
      PROVE  MetricsInput(input')
  <2>1. PICK x \in Triggers : input' = [input EXCEPT !.stored = @ \cup {x}]
    BY <1>7 DEF Trigger
  <2>2. IsFiniteSet(input.stored \cup {x})
    BY <1>7, FS_AddElement DEF MetricsInput
  <2>3. /\ DOMAIN input' = {"part", "req", "now", "stored"} /\ input'.part = "metrics"
        /\ input'.req = input.req /\ input'.now = input.now
        /\ input'.stored = input.stored \cup {x}
    BY <1>7, <2>1 DEF MetricsInput
  <2> QED
    BY <1>7, <2>2, <2>3 DEF MetricsInput
<1>8. ASSUME NamespaceInput(input), Take
      PROVE  NamespaceInput(input')
  <2>1. PICK id \in Ids, fails \in BOOLEAN :
          input' = [input EXCEPT !.taken = @ \cup {id},
                                 !.failing = IF fails THEN @ \cup {id} ELSE @]
    BY <1>8 DEF Take
  <2>2. /\ DOMAIN input' = {"part", "id", "taken", "failing"} /\ input'.part = "namespace"
        /\ input'.id = input.id /\ input'.taken = input.taken \cup {id}
    BY <1>8, <2>1 DEF NamespaceInput
  <2> QED
    BY <1>8, <2>2 DEF NamespaceInput
<1>9. CASE input' = input
  BY <1>9 DEF InputInv
<1>10. CASE Next
  <2>1. /\ Push => input.part \in {"filter", "flux"}
        /\ Negate => input.part \in {"filter", "flux"}
        /\ Join => input.part \in {"filter", "flux"}
        /\ Trigger => input.part = "metrics"
        /\ Take => input.part = "namespace"
    BY DEF Push, Negate, Join, Trigger, Take
  <2>2. /\ FilterInput(input) => input.part = "filter"
        /\ FluxInput(input) => input.part = "flux"
        /\ MetricsInput(input) => input.part = "metrics"
        /\ NamespaceInput(input) => input.part = "namespace"
    BY DEF FilterInput, FluxInput, MetricsInput, NamespaceInput
  <2>3. InputInv' <=> \/ FilterInput(input') \/ FluxInput(input')
                      \/ MetricsInput(input') \/ NamespaceInput(input')
    BY DEF InputInv
  <2> QED
    BY <1>1, <1>2, <1>3, <1>4, <1>5, <1>6, <1>7, <1>8, <1>10, <2>1, <2>2, <2>3 DEF InputInv, Next
<1> QED
  BY <1>9, <1>10

\* Every input is built as the transpilers return from its nodes: a filter waits
\* on the stack as nodes with the invariant of its translation (Translated) or of
\* its hijacking (Hijacked), a request has finitely many triggers, and the ids
\* that are taken are ids.
THEOREM InputsAreBuilt == Spec => []InputInv
<1>1. Init => InputInv
  BY InitInput
<1>2. InputInv /\ [Next]_input => InputInv'
  BY NextInput
<1> QED
  BY <1>1, <1>2, PTL DEF Spec

\* transpiler.go:135-249: the SQL of every filter, of any size and over any
\* comparisons and table of types, selects the rows that the filter means although
\* it has no parentheses, unless an OR is below an AND; and it is refused only
\* when a comparison is, or when it has a NOT.
THEOREM FilterMeaning == Spec => []FilterKeepsMeaning
<1>1. InputInv => FilterKeepsMeaning
  <2> SUFFICES ASSUME InputInv, input.part = "filter", NEW i \in DOMAIN input.stack
               PROVE  KeepsMeaning(input.stack[i])
    BY DEF FilterKeepsMeaning
  <2>1. FilterStack(input.stack)
    BY DEF InputInv, FilterInput, FluxInput, MetricsInput, NamespaceInput
  <2>2. PICK S : input.stack \in Seq(S) /\ \A n \in S : Translated(n)
    BY <2>1 DEF FilterStack
  <2>3. Translated(input.stack[i])
    BY <2>2
  <2> QED
    BY <2>3, TranslatedKeepsMeaning
<1> QED
  BY <1>1, InputsAreBuilt, PTL

\* influx_transpiler.go:139-210 and 283-333: in every filter HijackConstExpr
\* replaces the first comparison of the target and nothing else, in the tree and
\* in its Flux, and ExtractConstExpr then finds the value that was put.
THEOREM HijackPrecise == Spec => []HijackIsPrecise
<1>1. InputInv => HijackIsPrecise
  <2> SUFFICES ASSUME InputInv, input.part = "flux", NEW i \in DOMAIN input.stack
               PROVE  HijackedIsExtracted(input.stack[i], input.hijack)
    BY DEF HijackIsPrecise
  <2>1. FluxStack(input.stack, input.hijack)
    BY DEF InputInv, FilterInput, FluxInput, MetricsInput, NamespaceInput
  <2>2. PICK S : input.stack \in Seq(S) /\ \A n \in S : Hijacked(n, input.hijack)
    BY <2>1 DEF FluxStack
  <2>3. Hijacked(input.stack[i], input.hijack)
    BY <2>2
  <2> QED
    BY <2>3, HijackedPrecise
<1> QED
  BY <1>1, InputsAreBuilt, PTL

\* The types of a request that an input has.
LEMMA MetricsFields ==
  ASSUME InputInv, input.part = "metrics"
  PROVE  /\ IsFiniteSet(input.stored) /\ \A x \in input.stored : x.time \in Int
         /\ input.now \in Int
         /\ input.req.start \in Int \/ input.req.start = NoTime
         /\ input.req.stop \in Int \/ input.req.stop = NoTime
         /\ input.req.window \in Nat \/ input.req.window = NoTime
<1>1. MetricsInput(input)
  BY DEF InputInv, FilterInput, FluxInput, MetricsInput, NamespaceInput
<1> QED
  BY <1>1, InputsAssumption DEF MetricsInput, Optional

\* influx.go:131 and 221: for all triggers, ranges and windows, the buckets of a
\* chart and the counts of its statuses add up to the number of the caller's own
\* triggers in the range, while that fits an int32.
THEOREM ChartTotals == Spec => []ChartTotalsAgree
<1>1. InputInv => ChartTotalsAgree
  BY MetricsFields, ChartAgreesWithCount DEF ChartTotalsAgree
<1> QED
  BY <1>1, InputsAreBuilt, PTL

\* influx.go:363-371: for every range, and every window that divides a day, the
\* buckets of a chart begin at the start of the range and last a window each.
THEOREM ChartBuckets == Spec => []ChartBucketsFromStart
<1>1. InputInv => ChartBucketsFromStart
  BY MetricsFields, ChartFromStart DEF ChartBucketsFromStart
<1> QED
  BY <1>1, InputsAreBuilt, PTL

\* publichandler.go:261-288: an id of any length that is available collides with
\* none that is taken, but for failed look-ups and ids with both separators.
THEOREM NamespaceFree == Spec => []NamespaceIsFree
<1>1. InputInv => NamespaceIsFree
  <2> SUFFICES ASSUME InputInv, input.part = "namespace"
               PROVE  AvailableIsFree(input.id, input.taken, input.failing)
    BY DEF NamespaceIsFree
  <2>1. NamespaceInput(input)
    BY DEF InputInv, FilterInput, FluxInput, MetricsInput, NamespaceInput
  <2>2. Ids \subseteq Seq(Characters)
    BY DEF Ids
  <2>3. input.id \in Seq(Characters) /\ input.taken \in SUBSET Seq(Characters)
    BY <2>1, <2>2 DEF NamespaceInput
  <2> QED
    BY <2>3, AvailableIdIsFree
<1> QED
  BY <1>1, InputsAreBuilt, PTL

\* publichandler.go:262 and privatehandler.go:166: the public and the private
\* check agree on every id that the private one does not refuse.
THEOREM NamespaceAgrees == Spec => []NamespaceChecksAgree
<1>1. NamespaceChecksAgree
  BY HandlersAgree DEF NamespaceChecksAgree
<1> QED
  BY <1>1, PTL
=============================================================================
