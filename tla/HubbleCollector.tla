-------------------------- MODULE HubbleCollector --------------------------
(***************************************************************************)
(* metrics/hubble_collector.py over hubble_client.py: the snapshot of a    *)
(* cluster whose gateway exposes no metrics.  One run of the hubble CLI    *)
(* prints the last flows of the namespace; those to the target that are    *)
(* younger than the window are counted.  Flows keep arriving while the CLI *)
(* runs, and the CLI may break off.                                        *)
(*                                                                         *)
(* Where the policy names no namespace the CLI is not told one: the flows  *)
(* and the cap are then those of all namespaces, and a workload of the     *)
(* target's name in any of them is taken for the target.                   *)
(*                                                                         *)
(* rps is kept as the number of flows per window, an error rate as an      *)
(* integer share of Scale.                                                 *)
(***************************************************************************)
EXTENDS Integers, Sequences, FiniteSets

CONSTANTS
  Targets,      \* the policies to collect for: deployment, window
  Last,         \* HUBBLE_METRICS_LAST, passed as --last
  Kinds,        \* the flows that may arrive where the CLI is told to look
  PodCounts,    \* ready replicas the Kubernetes API can report
  Scale,        \* an error rate of 1.0
  MaxFlows,     \* bound of the model: flows in all
  Horizon,      \* bound of the model: the clock stops here
  None          \* missing

\* workload is the name of destination.workloads[0]; prefix says whether the name
\* of the destination pod begins with "<deployment>-"; timed, whether its time
\* parses.
Kind ==
  [workload : {"target", "other", None}, prefix : BOOLEAN, timed : BOOLEAN,
   verdict : {"FORWARDED", "DROPPED"}]

VARIABLES
  spec,       \* the TrafficPolicy that is collected for
  clock,
  flows,      \* what the relay holds of them, oldest first
  pc,         \* "idle" or "fetching"
  now,        \* the time collect read before it started the CLI
  snapshot,   \* the last result
  exit        \* auxiliary: how the CLI ended

Flow == [kind : Kinds, time : 0..Horizon]

----------------------------------------------------------------------------
(* collector._parse_window *)

Milliseconds == [ms |-> 1, s |-> 1000, m |-> 60000, h |-> 3600000]

\* round: to the even neighbour from the middle.
Round(ms) ==
  LET whole == ms \div 1000
      rest  == ms % 1000
  IN  IF rest > 500 \/ (rest = 500 /\ whole % 2 = 1) THEN whole + 1 ELSE whole

\* Seconds, at least one; what is missing or 0 stands for a minute.
ParseWindow(raw) ==
  IF raw = None THEN 60
  ELSE IF raw.number = 0 THEN 60
  ELSE LET seconds == Round(raw.number * Milliseconds[raw.unit])
       IN  IF seconds < 1 THEN 1 ELSE seconds

Window == ParseWindow(spec.window)

----------------------------------------------------------------------------
(* hubble_client.fetch_flows, _parse_flow_line *)

\* FlowEvent: a time that does not parse is missing.
Parsed(flow) == [kind |-> flow.kind, epoch |-> IF flow.kind.timed THEN flow.time ELSE None]

LastFlows == SubSeq(flows, Len(flows) - Last + 1, Len(flows))

\* hubble observe --last, complete.
Printed ==
  LET chosen == IF Len(flows) <= Last THEN flows ELSE LastFlows
  IN  [i \in DOMAIN chosen |-> Parsed(chosen[i])]

----------------------------------------------------------------------------
(* hubble_collector.collect *)

\* Mutant of MatchesTarget: a flow without a workload is not the target's.
MatchesWorkload(kind) == kind.workload = "target"

\* _matches_target: the name of the pod counts only without a workload.
MatchesTarget(kind) ==
  IF kind.workload # None THEN kind.workload = "target" ELSE kind.prefix

\* Mutant of Windowed: every flow that was printed counts.
Unwindowed(events) == {i \in DOMAIN events : MatchesTarget(events[i].kind)}

\* The events not older than the window, counted from the time read before
\* the fetch.
Windowed(events) ==
  {i \in DOMAIN events :
     /\ events[i].epoch # None
     /\ events[i].epoch >= now - Window
     /\ MatchesTarget(events[i].kind)}

NonForwarded(events) ==
  {i \in Windowed(events) : events[i].kind.verdict # "FORWARDED"}

\* A flow has no latency, and no backend of a route.
Flat(status, rps, error, pods) ==
  [status |-> status, rps |-> rps, error |-> error,
   latency |-> [q \in {"p50", "p95", "p99"} |-> None], backends |-> {}, pods |-> pods]

Unmeasured(status) == Flat(status, None, None, None)

Requests(events) == Cardinality(Windowed(events))
Errors(events)   == Cardinality(NonForwarded(events))

Measured(events, pods) ==
  Flat("ok", Requests(events), (Errors(events) * Scale) \div Requests(events), pods)

Results(events) ==
  IF Windowed(events) = {}
  THEN {Unmeasured("no_data")}
  ELSE {Measured(events, pods) : pods \in PodCounts \union {None}}

----------------------------------------------------------------------------
Init ==
  /\ spec \in Targets
  /\ clock = 0
  /\ flows = <<>>
  /\ pc = "idle"
  /\ now = 0
  /\ snapshot = None
  /\ exit = None

Tick ==
  /\ clock < Horizon
  /\ clock' = clock + 1
  /\ UNCHANGED <<spec, flows, pc, now, snapshot, exit>>

Arrives ==
  /\ Len(flows) < MaxFlows
  /\ \E kind \in Kinds : flows' = Append(flows, [kind |-> kind, time |-> clock])
  /\ UNCHANGED <<spec, clock, pc, now, snapshot, exit>>

\* collector.collect reads the time, then hands over.
Begin ==
  /\ pc = "idle"
  /\ spec.deployment
  /\ pc' = "fetching"
  /\ now' = clock
  /\ snapshot' = None
  /\ exit' = None
  /\ UNCHANGED <<spec, clock, flows>>

\* Without a Deployment it cannot be told which flows to count.
Refuse ==
  /\ pc = "idle"
  /\ ~spec.deployment
  /\ snapshot' = Unmeasured("collection_failed")
  /\ exit' = None
  /\ UNCHANGED <<spec, clock, flows, pc, now>>

FetchReturns ==
  /\ pc = "fetching"
  /\ snapshot' \in Results(Printed)
  /\ exit' = "clean"
  /\ pc' = "idle"
  /\ UNCHANGED <<spec, clock, flows, now>>

\* The CLI ends with an error after it has printed something: what came
\* through is used as if it were all.
FetchBreaksOff ==
  /\ pc = "fetching"
  /\ \E n \in 0..Len(Printed) : snapshot' \in Results(SubSeq(Printed, 1, n))
  /\ exit' = "broken"
  /\ pc' = "idle"
  /\ UNCHANGED <<spec, clock, flows, now>>

\* No CLI, no relay, a timeout, or an error before anything was printed.
FetchFails ==
  /\ pc = "fetching"
  /\ snapshot' = Unmeasured("collection_failed")
  /\ exit' = "failed"
  /\ pc' = "idle"
  /\ UNCHANGED <<spec, clock, flows, now>>

\* The CLI ends, at the latest with HUBBLE_TIMEOUT_S.
Fetched == FetchReturns \/ FetchBreaksOff \/ FetchFails

CollectOverHubble == Tick \/ Arrives \/ Begin \/ Refuse \/ Fetched

----------------------------------------------------------------------------
(* Properties *)

HubbleTypeOK ==
  /\ clock \in 0..Horizon
  /\ flows \in Seq(Flow) /\ Len(flows) <= MaxFlows
  /\ pc \in {"idle", "fetching"}
  /\ now \in 0..clock
  /\ exit \in {"clean", "broken", "failed", None}

\* The flows to the target, by workload or else by pod name, since the window
\* began: what is to be counted, however the CLI delivers it.
ToTarget ==
  {i \in DOMAIN flows :
     /\ flows[i].kind.timed
     /\ \/ flows[i].kind.workload = "target"
        \/ flows[i].kind.workload = None /\ flows[i].kind.prefix
     /\ now - flows[i].time <= Window}

Counted(snap) == IF snap.rps = None THEN 0 ELSE snap.rps

\* See NeverInvents and CompleteBelowCap in Metrics.
NothingInvented ==
  pc = "fetching" /\ pc' = "idle" => Counted(snapshot') <= Cardinality(ToTarget)

NothingMissed ==
  pc = "fetching" /\ exit' = "clean" /\ Len(flows) <= Last =>
    Counted(snapshot') = Cardinality(ToTarget)
============================================================================
