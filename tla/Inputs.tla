------------------------------- MODULE Inputs -------------------------------
(***************************************************************************)
(* What the operators of Filter, InfluxFilter, Metrics and Namespace are   *)
(* applied to: a behavior builds one input step by step, and the           *)
(* invariants say what the operators make of it.  A filter is built as the *)
(* transpilers return from its nodes, on a stack of the nodes that have    *)
(* been returned from and wait for a connective.                           *)
(***************************************************************************)
EXTENDS InfluxFilter, Metrics, Namespace

CONSTANTS
  Leaves,       \* the comparisons of filters that are translated to SQL
  FluxLeaves,   \* those of filters that are translated to Flux
  Hijacks,      \* what is hijacked: a target, its new name and its value, a UID
  Requests,     \* metrics requests
  Nows,         \* times at which they are made
  Triggers,     \* the triggers InfluxDB may have stored
  Characters,   \* those of ids
  MaxLength,    \* bound: the characters an id has
  MaxNodes,     \* bound: how many nodes a filter has, comparisons and connectives
  MaxTriggers,  \* bound: how many triggers InfluxDB has
  MaxTaken      \* bound: how many ids are taken

Optional(S) == S \cup {NoTime}

ASSUME InputsAssumption ==
  /\ \A e \in Leaves \cup FluxLeaves : IsComparison(e)
  /\ \A h \in Hijacks : h.value # Empty
  /\ \A req \in Requests :
       req.start \in Optional(Int) /\ req.stop \in Optional(Int) /\ req.window \in Optional(Nat)
  /\ Nows \subseteq Int
  /\ \A x \in Triggers : x.time \in Int
  /\ MaxLength \in Nat

VARIABLE input  \* the input so far, and which operators it is for

-----------------------------------------------------------------------------
\* Filters: a comparison is put on the stack, a connective takes its operands
\* off and puts itself there

Visit(node, rest) ==
  /\ input' = [input EXCEPT !.stack = Append(rest, node), !.nodes = @ + 1]
  /\ input'.nodes + Len(input'.stack) - 1 <= MaxNodes

Push ==
  \/ /\ input.part = "filter"
     /\ \E e \in Leaves : Visit(Compared(e), input.stack)
  \/ /\ input.part = "flux"
     /\ \E e \in FluxLeaves : Visit(ComparisonNode(e, input.hijack), input.stack)

Negate ==
  /\ input.part \in {"filter", "flux"} /\ input.stack # <<>>
  /\ LET top == Last(input.stack)
     IN  Visit(IF input.part = "filter" THEN Not(top) ELSE NotNode(top, input.hijack),
               Front(input.stack))

Join ==
  \E fn \in {"AND", "OR"} :
    /\ input.part \in {"filter", "flux"} /\ Len(input.stack) > 1
    /\ LET r    == Last(input.stack)
           l    == Last(Front(input.stack))
       IN  Visit(IF input.part = "filter" THEN Joined(fn, l, r)
                 ELSE CallNode(fn, l, r, input.hijack),
                 Front(Front(input.stack)))

-----------------------------------------------------------------------------
\* Metrics: a request, and triggers InfluxDB has stored

Trigger ==
  \E x \in Triggers :
    /\ input.part = "metrics"
    /\ Cardinality(input.stored) < MaxTriggers
    /\ input' = [input EXCEPT !.stored = @ \cup {x}]

-----------------------------------------------------------------------------
\* Namespaces: an id to check, ids that are taken, and look-ups that fail

Ids == UNION {[1..n -> Characters] : n \in 1..MaxLength}

Take ==
  \E id \in Ids, fails \in BOOLEAN :
    /\ input.part = "namespace"
    /\ Cardinality(input.taken) < MaxTaken
    /\ input' = [input EXCEPT !.taken = @ \cup {id},
                              !.failing = IF fails THEN @ \cup {id} ELSE @]

-----------------------------------------------------------------------------
Init ==
  \/ input = [part |-> "filter", stack |-> <<>>, nodes |-> 0]
  \/ input \in [part : {"flux"}, hijack : Hijacks, stack : {<<>>}, nodes : {0}]
  \/ input \in [part : {"metrics"}, req : Requests, now : Nows, stored : {{}}]
  \/ input \in [part : {"namespace"}, id : Ids, taken : {{}}, failing : {{}}]

Next == Push \/ Negate \/ Join \/ Trigger \/ Take

Spec == Init /\ [][Next]_input

-----------------------------------------------------------------------------
\* Properties, each of the inputs of its part

\* Filter!KeepsMeaning: the SQL of a filter selects the rows it means.
FilterKeepsMeaning ==
  input.part = "filter" => \A i \in DOMAIN input.stack : KeepsMeaning(input.stack[i])

\* InfluxFilter!HijackedIsExtracted: one comparison is replaced, and found.
HijackIsPrecise ==
  input.part = "flux" =>
    \A i \in DOMAIN input.stack : HijackedIsExtracted(input.stack[i], input.hijack)

\* Metrics!TotalsAgree: the chart and the count of a range add up to the same.
ChartTotalsAgree ==
  input.part = "metrics" => TotalsAgree(input.stored, input.req, input.now)

\* Metrics!BucketsFromStart: windows that divide a day begin with the range.
ChartBucketsFromStart ==
  input.part = "metrics" => BucketsFromStart(input.stored, input.req, input.now)

\* Namespace!AvailableIsFree: an available id collides with none that is taken.
NamespaceIsFree ==
  input.part = "namespace" => AvailableIsFree(input.id, input.taken, input.failing)

\* Namespace!ChecksAgree: the public and the private check agree.
NamespaceChecksAgree ==
  input.part = "namespace" => ChecksAgree(input.id, input.taken, input.failing)
=============================================================================
