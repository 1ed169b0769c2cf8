---------------------------- MODULE FlowSummary ----------------------------
(***************************************************************************)
(* dashboard/hubble_flows.py: what the dashboard makes of one list of      *)
(* flows.  summarize filters the list, counts namespaces, verdicts and     *)
(* connections, and keeps the most frequent connections; _assign_layers    *)
(* lays their ends out by hops.                                            *)
(*                                                                         *)
(* An end of a flow has a label, a namespace (None for host, world and the *)
(* like) and a workload, which Hubble may not know.  The protocol and port *)
(* of a flow are its service; its time is its place in the list.           *)
(***************************************************************************)
EXTENDS Integers, SequencesExt

CONSTANTS
  SystemNamespaces,   \* SYSTEM_NAMESPACES
  TopN,               \* top_n
  None                \* no namespace, no workload, no filter

ASSUME FlowSummaryAssumption ==
  /\ TopN \in Nat \ {0}
  /\ None \notin SystemNamespaces

----------------------------------------------------------------------------
(* The filters.  A view is the scope, namespace and focus of a page. *)

\* _is_system_endpoint
IsSystemEndpoint(end) == end.namespace = None \/ end.namespace \in SystemNamespaces

\* is_application_flow
IsApplicationFlow(flow) == ~(IsSystemEndpoint(flow.src) /\ IsSystemEndpoint(flow.dst))

\* _flow_namespaces
FlowNamespaces(flow) == {flow.src.namespace, flow.dst.namespace} \ {None}

\* Mutant of FlowInNamespace: only what goes into the namespace.
FlowIntoNamespace(flow, namespace) == flow.dst.namespace = namespace

\* _flow_in_namespace
FlowInNamespace(flow, namespace) ==
  flow.src.namespace = namespace \/ flow.dst.namespace = namespace

\* _flow_touches
FlowTouches(flow, label) == flow.src.label = label \/ flow.dst.label = label

\* A selection is a set of places in the list, which stay in its order.
Scoped(flows, scope) == {i \in DOMAIN flows : scope = "all" \/ IsApplicationFlow(flows[i])}

Selected(flows, view) ==
  {i \in Scoped(flows, view.scope) :
     /\ view.namespace # None => FlowInNamespace(flows[i], view.namespace)
     /\ view.focus # None => FlowTouches(flows[i], view.focus)}

----------------------------------------------------------------------------
(* Counting.  key[i] is what the flow at i is counted under. *)

Occurrences(key, k) == {i \in DOMAIN key : key[i] = k}

Counter(key) == [k \in Range(key) |-> Cardinality(Occurrences(key, k))]

\* ns_counter: how many flows of the scope each namespace has a part in.
NamespaceCounts(flows, scope) ==
  LET scoped == Scoped(flows, scope)
  IN  [namespace \in UNION {FlowNamespaces(flows[i]) : i \in scoped} |->
         Cardinality({i \in scoped : namespace \in FlowNamespaces(flows[i])})]

Verdicts(flows, selected) == Counter([i \in selected |-> flows[i].verdict])

PairOf(flow) == [src |-> flow.src.label, dst |-> flow.dst.label, service |-> flow.service]

PairsOf(flows, selected) == [i \in selected |-> PairOf(flows[i])]

\* The members of S, each behind those that are ahead of it.
InOrder(S, ahead) ==
  [n \in 1..Cardinality(S) |-> CHOOSE k \in S : Cardinality(ahead[k]) = n - 1]

\* Counter.most_common: by count, and of equals the one that was added first.
MostCommon(key) ==
  LET count == Counter(key)
      first == [k \in Range(key) |-> Min(Occurrences(key, k))]
  IN  InOrder(Range(key), [k \in Range(key) |->
        {l \in Range(key) : \/ count[l] > count[k]
                            \/ count[l] = count[k] /\ first[l] < first[k]}])

\* A row of the table: last_seen is overwritten by every later flow, and the
\* verdict a connection is drawn with is its most frequent one.
PairRow(flows, pairs, pair) ==
  LET mine == Occurrences(pairs, pair)
  IN  [pair      |-> pair,
       count     |-> Cardinality(mine),
       last_seen |-> Max(mine),
       verdict   |-> MostCommon([i \in mine |-> flows[i].verdict])[1]]

UpTo(n, seq) == IF Len(seq) <= n THEN seq ELSE SubSeq(seq, 1, n)

\* Mutant of TopPairs: the first connections of the list.
TopPairsUnsorted(flows, selected) ==
  LET pairs == PairsOf(flows, selected)
      seen  == InOrder(Range(pairs), [k \in Range(pairs) |->
                 {l \in Range(pairs) : Min(Occurrences(pairs, l)) < Min(Occurrences(pairs, k))}])
      top   == UpTo(TopN, seen)
  IN  [i \in DOMAIN top |-> PairRow(flows, pairs, top[i])]

\* top_pairs
TopPairs(flows, selected) ==
  LET pairs == PairsOf(flows, selected)
      top   == UpTo(TopN, MostCommon(pairs))
  IN  [i \in DOMAIN top |-> PairRow(flows, pairs, top[i])]

Edges(rows) == {<<rows[i].pair.src, rows[i].pair.dst>> : i \in DOMAIN rows}
Labels(edges) == UNION {{edge[1], edge[2]} : edge \in edges}

\* _endpoint_kind
EndpointKind(end) ==
  IF end.namespace = None THEN "reserved"
  ELSE IF end.namespace \in SystemNamespaces THEN "infra" ELSE "app"

\* Both ends of each flow, at the places in which _note sees them.
EndsOf(flows, selected) ==
  [at \in UNION {{2 * i - 1, 2 * i} : i \in selected} |->
     IF at % 2 = 1 THEN flows[(at + 1) \div 2].src ELSE flows[at \div 2].dst]

\* _note: an end is described by its first flow, except that the first
\* workload that is known fills a missing one.
NodeMeta(ends, label) ==
  LET mine  == {at \in DOMAIN ends : ends[at].label = label}
      named == {at \in mine : ends[at].workload # None}
      first == ends[Min(mine)]
  IN  [label     |-> label,
       namespace |-> first.namespace,
       kind      |-> EndpointKind(first),
       workload  |-> IF named = {} THEN None ELSE ends[Min(named)].workload]

----------------------------------------------------------------------------
(* _assign_layers *)

\* One turn of the inner loop: every target of src is at least one hop on.  An
\* edge to the node itself is ignored.
Relax(edges, layer, src) ==
  [n \in DOMAIN layer |->
     IF n # src /\ <<src, n>> \in edges /\ layer[n] <= layer[src]
     THEN layer[src] + 1 ELSE layer[n]]

RelaxAll(edges, layer, order) ==
  FoldLeft(LAMBDA l, src : Relax(edges, l, src), layer, order)

\* The layers in use are renumbered from 0 without a gap.
Rank(layer) ==
  [n \in DOMAIN layer |->
     Cardinality({v \in {layer[m] : m \in DOMAIN layer} : v < layer[n]})]

\* Mutant of AssignLayers: one round.
AssignLayersOnce(edges, order) ==
  Rank(RelaxAll(edges, [n \in Labels(edges) |-> 0], order))

\* As many rounds as there are nodes, each over all nodes in the order of the
\* set, which nobody has fixed; a round that changes nothing is the last but
\* makes no difference.
AssignLayers(edges, order) ==
  LET Round(layer, i) == RelaxAll(edges, layer, order)
  IN  Rank(FoldLeft(Round, [n \in Labels(edges) |-> 0], order))

----------------------------------------------------------------------------
\* summarize, up to the layers: they depend on the order of a set.
Summarize(flows, view) ==
  LET selected == Selected(flows, view)
      rows     == TopPairs(flows, selected)
      ends     == EndsOf(flows, selected)
  IN  [total      |-> Len(flows),
       shown      |-> Cardinality(selected),
       app_flows  |-> Cardinality(Scoped(flows, "app")),
       namespaces |-> NamespaceCounts(flows, view.scope),
       verdicts   |-> Verdicts(flows, selected),
       top_pairs  |-> rows,
       nodes      |-> {NodeMeta(ends, label) : label \in Labels(Edges(rows))}]
============================================================================
