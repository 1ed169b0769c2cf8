----------------------------- MODULE FlowPages -----------------------------
(***************************************************************************)
(* dashboard/app.py: the traffic page of the dashboard as somebody goes    *)
(* through it.  Every page is put together anew from the list of flows     *)
(* that fetch_summary gets at the time (the list of the cache, see         *)
(* FlowCache) and from the filters in its address; its links carry the     *)
(* filters on.  New flows arrive meanwhile, and Hubble may be unreachable. *)
(***************************************************************************)
EXTENDS FlowSummary

CONSTANTS
  Kinds,          \* the flows that may be observed
  HubbleLast,     \* HUBBLE_LAST
  DiagramLimit    \* limit of _flow_graph_svg

ASSUME FlowPagesAssumption ==
  /\ HubbleLast \in Nat \ {0}
  /\ DiagramLimit \in Nat \ {0}
  /\ \A kind \in Kinds : kind.src.label # None /\ kind.dst.label # None

VARIABLES
  flows,      \* the list of the cache
  page        \* what the browser shows

vars == <<flows, page>>

----------------------------------------------------------------------------
(* One request *)

FrontPage == [scope |-> "app", namespace |-> None, focus |-> None]

Graphs == UNION {kSubset(n, {<<kind.src.label, kind.dst.label>> : kind \in Kinds}) : n \in 0..TopN}

\* The layers a graph may get.
Layouts ==
  [edges \in Graphs |-> {AssignLayers(edges, order) : order \in SetToSeqs(Labels(edges))}]

\* _flow_graph_svg draws the first rows with the layers of the whole table.
DrawnRows(summary)           == UpTo(DiagramLimit, summary.top_pairs)
DrawnLayers(summary, layers) == {layers[label] : label \in Labels(Edges(DrawnRows(summary)))}

\* columns[L] is looked up for every L down to 0: a layer without a node is a
\* KeyError, and the request ends with "Internal Server Error".
Drawable(summary, layers) ==
  LET used == DrawnLayers(summary, layers)
  IN  used = 0..Max(used)

\* _render_flows without an error: the table, or why there is none.
Shows(summary, view, layers) ==
  IF summary.shown > 0
  THEN IF Drawable(summary, layers) THEN "table" ELSE "server error"
  ELSE IF view.namespace # None \/ view.focus # None THEN "nothing passes"
  ELSE IF view.scope = "app" /\ summary.total > 0 THEN "no application flows"
  ELSE "no flows"

PagesOf(list, view) ==
  LET summary == Summarize(list, view)
  IN  {[view |-> view, summary |-> summary, layers |-> layers,
        shows |-> Shows(summary, view, layers)] :
       layers \in Layouts[Edges(summary.top_pairs)]}

Page(view) == PagesOf(flows, view)

\* HubbleUnavailableError: an empty summary with the filters of the request.
ErrorPage(view) ==
  [view |-> view, summary |-> Summarize(<<>>, view), layers |-> <<>>,
   shows |-> "fetch error"]

----------------------------------------------------------------------------
(* The links of a page *)

\* _namespace_filter_html
NamespaceLink(namespace) ==
  [scope |-> page.view.scope, namespace |-> namespace, focus |-> None]

NamespaceLinks ==
  {NamespaceLink(namespace) : namespace \in DOMAIN page.summary.namespaces}

\* Its first link ("all") is there when the list is; it keeps the focus.
AllNamespacesLink ==
  IF DOMAIN page.summary.namespaces = {} THEN {} ELSE {[page.view EXCEPT !.namespace = None]}

\* _flow_pair_row_html, and the chips of the diagram
ResourceLink(label) == [page.view EXCEPT !.focus = label]

ResourceLinks == {ResourceLink(label) : label \in Labels(Edges(page.summary.top_pairs))}

\* _scope_toggle_html, _focus_banner_html
ScopeLinks     == {[page.view EXCEPT !.scope = scope] : scope \in {"app", "all"}}
ClearFocusLink == IF page.view.focus = None THEN {} ELSE {[page.view EXCEPT !.focus = None]}

\* What a server error shows has no links.
Links ==
  IF page.shows = "server error" THEN {}
  ELSE NamespaceLinks \union AllNamespacesLink \union ResourceLinks
         \union ScopeLinks \union ClearFocusLink

----------------------------------------------------------------------------
Init ==
  /\ flows = <<>>
  /\ page \in Page(FrontPage)

\* A click that is answered from the list in the cache.
Follow ==
  /\ \E view \in Links : page' \in Page(view)
  /\ UNCHANGED flows

\* The menu.
Home ==
  /\ page' \in Page(FrontPage)
  /\ UNCHANGED flows

\* The page reloads itself, or is reloaded.
Refresh ==
  /\ page' \in Page(page.view)
  /\ UNCHANGED flows

\* A fetch finds one more flow; the oldest is not asked for.  A click that has
\* to fetch is the click and then this.
Renew ==
  \E kind \in Kinds :
    LET longer == Append(flows, kind)
        list   == IF Len(longer) > HubbleLast THEN Tail(longer) ELSE longer
    IN  /\ flows' = list
        /\ page' \in PagesOf(list, page.view)

\* HubbleUnavailableError, likewise.
Unavailable ==
  /\ page' = ErrorPage(page.view)
  /\ UNCHANGED flows

Next == Follow \/ Home \/ Refresh \/ Renew \/ Unavailable

Spec == Init /\ [][Next]_vars

----------------------------------------------------------------------------
(* Properties *)

HasRows == page.shows \in {"table", "server error"}

\* The paths of a graph, as sequences of different labels.
Paths ==
  [edges \in Graphs |->
     {path \in UNION {SetToSeqs(S) : S \in (SUBSET Labels(edges)) \ {{}}} :
        \A i \in 1..(Len(path) - 1) : <<path[i], path[i + 1]>> \in edges}]

PathsTo(edges, label) == {path \in Paths[edges] : path[Len(path)] = label}

\* A cycle of at least two nodes leads to the label.
BehindCycle(edges, label) ==
  \E path \in PathsTo(edges, label), cycle \in Paths[edges] :
    Len(cycle) > 1 /\ cycle[1] = path[1] /\ <<cycle[Len(cycle)], cycle[1]>> \in edges

\* The hops of the longest way to a label.
Hops(edges, label) == Max({Len(path) - 1 : path \in PathsTo(edges, label)})

\* In whatever order the nodes are visited, the rounds suffice: without cycles
\* the layer of a node is the hops of the longest way to it, an edge from a node
\* no cycle leads to goes down, and no layer is left out (_assign_layers).
LayersAreHops ==
  HasRows =>
    LET edges == Edges(page.summary.top_pairs)
        layer == page.layers
        used  == {layer[label] : label \in DOMAIN layer}
    IN  /\ DOMAIN layer = Labels(edges)
        /\ used = 0..(Cardinality(used) - 1)
        /\ (\A label \in Labels(edges) : ~BehindCycle(edges, label))
             => \A label \in Labels(edges) : layer[label] = Hops(edges, label)
        /\ \A edge \in edges :
             edge[1] # edge[2] /\ ~BehindCycle(edges, edge[1])
               => layer[edge[1]] < layer[edge[2]]

NumberKept ==
  \A namespace \in DOMAIN page.summary.namespaces :
    page'.view = NamespaceLink(namespace) =>
      page'.summary.shown = page.summary.namespaces[namespace]

RowKept ==
  \A row \in Range(page.summary.top_pairs) : \A label \in {row.pair.src, row.pair.dst} :
    page'.view = ResourceLink(label) =>
      \/ row \in Range(page'.summary.top_pairs)
      \/ /\ page.view.focus \notin {None, label}
         /\ Len(page'.summary.top_pairs) = TopN
         /\ \A other \in Range(page'.summary.top_pairs) : other.count >= row.count

\* A link keeps its word as long as the list stays the same: a namespace shows
\* as many flows as the number beside it, and the row a resource was picked
\* from is there again as it was.  Only when another focus is given up for it
\* may the row be missing, cut off by rows that are no rarer
\* (_namespace_filter_html, _flow_pair_row_html, most_common).
LinksKeepWord ==
  [][flows' = flows /\ page'.shows # "fetch error" => NumberKept /\ RowKept]_vars

\* The page adds up: every flow that passes the filters has one verdict among
\* the badges and one row, unless its row was cut, and then no row of the table
\* is rarer (summarize: verdicts, pair_counts, top_pairs).
RowsAddUp ==
  HasRows =>
    LET pairs   == PairsOf(flows, Selected(flows, page.view))
        rows    == page.summary.top_pairs
        inTable == SumFunction([i \in DOMAIN rows |-> rows[i].count])
    IN  /\ SumFunction(page.summary.verdicts) = page.summary.shown
        /\ inTable <= page.summary.shown
        /\ inTable < page.summary.shown => Len(rows) = TopN
        /\ \A pair \in Range(pairs) \ {row.pair : row \in Range(rows)} :
             \A row \in Range(rows) : PairRow(flows, pairs, pair).count <= row.count

----------------------------------------------------------------------------
(* A claim of the repository that the code does not keep *)

\* The diagram draws only the nodes its edges touch, and leaves no layer empty
\* (_flow_graph_svg, _assign_layers): every page can be shown.
AlwaysDrawable == page.shows # "server error"
============================================================================
