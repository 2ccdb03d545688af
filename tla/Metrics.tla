------------------------------ MODULE Metrics ------------------------------
(***************************************************************************)
(* Trigger counts and charts (pkg/service/metric.go and                    *)
(* pkg/repository/influx.go) as operators on what InfluxDB has stored.     *)
(* Pipelines and models differ in the measurement only.                    *)
(*                                                                         *)
(* Times are ticks since the Unix epoch, in UTC, as the timestamps of      *)
(* requests and time.Now().UTC() are.                                      *)
(***************************************************************************)
EXTENDS Integers, Sequences, FiniteSets, SequencesExt, FiniteSetsExt

CONSTANTS
  Day,        \* ticks in a day
  Hour,       \* ticks in an hour, the default window
  Half,       \* 2^31: half the range of the int32 fields of a response
  OwnerOf,    \* the uid of each id in the owner table
  NoTime      \* a field the request leaves out

ASSUME MetricsAssumption ==
  /\ Day \in Nat \ {0} /\ Hour \in Nat \ {0} /\ Half \in Nat \ {0}

Unauthorized    == [status |-> "unauthorized"]
InvalidArgument == [status |-> "invalid"]
NilUID          == "nil"  \* uuid.Nil

Midnight(t) == t - (t % Day)

ToInt32(n) == ((n + Half) % (2 * Half)) - Half

\* The uid of the namespace, if it is the caller's; who asks for another cannot
\* tell whether it exists.
GrantedNamespaceUID(id, authenticated) ==
  IF id \in DOMAIN OwnerOf /\ OwnerOf[id] = authenticated
  THEN authenticated ELSE NilUID

\* The range and window of a request, at the time now.
Params(req, now) ==
  [start  |-> IF req.start = NoTime THEN Midnight(now) ELSE req.start,
   stop   |-> IF req.stop = NoTime THEN now ELSE req.stop,
   window |-> IF req.window = NoTime THEN Hour ELSE req.window]

\* InfluxDB refuses a range that is empty, and a window that is not positive;
\* the service one that cannot be parsed, which is a window of 0 here.
\* Times and windows are whole seconds: of others the code makes durations such as
\* 10h0m0.5s, which Flux refuses.
Queried(p) == p.start < p.stop /\ p.window > 0

InRange(p, x) == p.start <= x.time /\ x.time < p.stop

\* A mutant of Matching: the filter on requester_uid is missing.
MatchingAnyone(stored, uid, p) == {x \in stored : InRange(p, x)}

\* The range and filters that both queries start with.
Matching(stored, uid, p) == {x \in stored : x.uid = uid /\ InRange(p, x)}

\* getTriggerCount: a record for each status there are triggers of, nothing
\* when there are none.
Count(stored, req, now) ==
  LET uid == GrantedNamespaceUID(req.id, req.authenticated)
      p   == Params(req, now)
      of  == Matching(stored, uid, p)
  IN  CASE uid = NilUID -> Unauthorized
        [] uid # NilUID /\ ~Queried(p) -> InvalidArgument
        [] OTHER -> [status |-> "ok",
                     counts |-> [s \in {x.status : x \in of} |->
                       ToInt32(Cardinality({x \in of : x.status = s}))]]

\* A mutant of AggregationWindowOffset: windows start at the epoch.
AggregationWindowOffsetNone(t) == 0

AggregationWindowOffset(t) == t - Midnight(t)

\* aggregateWindow: windows start at the offset and at every multiple of their
\* length from there; the first and the last are cut at the ends of the range.
Windows(p) ==
  LET first   == p.start - ((p.start - AggregationWindowOffset(p.start)) % p.window)
      From(i) == first + (i - 1) * p.window
  IN  [i \in 1..((p.stop - 1 - first) \div p.window + 1) |->
         [from |-> Max({From(i), p.start}), to |-> Min({From(i + 1), p.stop})]]

\* listTriggerChartRecords: a bucket for each window in their order, an empty
\* window too; no buckets when InfluxDB has nothing of the namespace.
Chart(stored, req, now) ==
  LET uid == GrantedNamespaceUID(req.id, req.authenticated)
      p   == Params(req, now)
      of  == Matching(stored, uid, p)
      In(w) == {x \in of : w.from <= x.time /\ x.time < w.to}
  IN  CASE uid = NilUID -> Unauthorized
        [] uid # NilUID /\ ~Queried(p) -> InvalidArgument
        [] OTHER ->
             [status  |-> "ok",
              buckets |->
                IF of = {} THEN <<>>
                ELSE [i \in DOMAIN Windows(p) |->
                        LET w == Windows(p)[i]
                        IN  [time |-> w.to, count |-> ToInt32(Cardinality(In(w)))]]]

-----------------------------------------------------------------------------
\* Properties of a request

\* influx.go:131 and 221: the chart and the count of the same request, which
\* group by window and by status, add up to the same number: that of the
\* caller's own triggers in the range, while they fit an int32.
TotalsAgree(stored, req, now) ==
  LET p     == Params(req, now)
      count == Count(stored, req, now)
      chart == Chart(stored, req, now)
      own   == {x \in stored : x.uid = req.authenticated /\ InRange(p, x)}
  IN  count.status = "ok" /\ chart.status = "ok" /\ Cardinality(own) < Half
        => /\ FoldFunction(+, 0, count.counts) = Cardinality(own)
           /\ FoldFunction(+, 0, [i \in DOMAIN chart.buckets |-> chart.buckets[i].count])
                = Cardinality(own)

\* influx.go:363-371: the offset makes the buckets begin at the start of the
\* range, whenever the window divides a day: all but the last last a window.
BucketsFromStart(stored, req, now) ==
  LET p == Params(req, now)
      b == Chart(stored, req, now).buckets
  IN  Queried(p) /\ Day % p.window = 0 /\ Chart(stored, req, now).status = "ok"
        => \A i \in DOMAIN b : b[i].time = Min({p.start + i * p.window, p.stop})
=============================================================================
