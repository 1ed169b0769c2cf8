----------------------------- MODULE MCMetrics -----------------------------
(***************************************************************************)
(* Over Prometheus: the series of two labels, each missing, idle or at     *)
(* work, with no 5xx series or any share of errors, and one scrape in the  *)
(* midst of a collection.  Istio's labels name two backends or, on another *)
(* route, one of them none; Envoy's name one backend in two namespaces;    *)
(* NGINX answers some requests itself.  Over Hubble: a window of 2500ms,   *)
(* which is two ticks, and one of 0s, which is a minute, two flows to a    *)
(* run of the CLI and three in all.                                        *)
(***************************************************************************)
EXTENDS Metrics

CONSTANTS s1, s2, b1, b2, r1, r2

TwoSeries   == {s1, s2}
TwoBackends == {b1, b2}
IdleOrBusy  == {0, 2}
Pods        == {2}

Registry == {"envoy-gateway", "istio", "nginx-gateway-fabric"}
Cilium   == {"cilium-hubble", "hubble", "cilium"}

Abbreviations == [short \in {"ngf", "nginx"} |-> "nginx-gateway-fabric"]

Named(adapter, route, s) ==
  CASE route = r2 /\ s = s2                -> None
    [] adapter = "envoy-gateway" \/ s = s1 -> b1
    [] OTHER                               -> b2

Policy(implementation, route, deployment, window) ==
  [implementation |-> implementation, route |-> route,
   deployment |-> deployment, window |-> window]

Window(number, unit) == [number |-> number, unit |-> unit]

SomeSpecs ==
  {Policy("istio", r1, TRUE, None),
   Policy("istio", r2, FALSE, None),
   Policy(None, r1, TRUE, None),
   Policy("ngf", r1, TRUE, None),
   Policy("unknown", None, TRUE, None),
   Policy("hubble", None, TRUE, Window(2500, "ms")),
   Policy("cilium", r1, TRUE, Window(0, "s")),
   Policy("cilium", r1, FALSE, None)}

\* Flows to the target by workload (delivered and refused) or by pod name, to
\* another workload whose pods have the name of the target's, and one whose
\* time is lost.
To(workload, prefix, timed, verdict) ==
  [workload |-> workload, prefix |-> prefix, timed |-> timed, verdict |-> verdict]

FewKinds ==
  {To("target", TRUE, TRUE, "FORWARDED"),
   To("target", TRUE, TRUE, "DROPPED"),
   To(None, TRUE, TRUE, "DROPPED"),
   To("other", TRUE, TRUE, "FORWARDED"),
   To("target", TRUE, FALSE, "FORWARDED")}
============================================================================
