---------------------------- MODULE MCFlowPages ----------------------------
(***************************************************************************)
(* Two applications, a system service and the world beyond.  All flows     *)
(* pass the service: those to and from B make a cycle, one leads into it   *)
(* and one out of it, and together they are more connections than the      *)
(* table has rows.  The last one has no application in it; one is dropped, *)
(* and a workload is missing in one of them.                               *)
(***************************************************************************)
EXTENDS FlowPages, TLC

CONSTANTS A, B, DNS, World, shop, kube

End(label, namespace, workload) ==
  [label |-> label, namespace |-> namespace, workload |-> workload]

Flow(src, dst, verdict) ==
  [src |-> src, dst |-> dst, service |-> "tcp", verdict |-> verdict]

a     == End(A, shop, A)
b     == End(B, shop, B)
b_new == End(B, shop, None)
dns   == End(DNS, kube, DNS)
world == End(World, None, None)

SystemOnly == {kube}

SomeKinds ==
  {Flow(a, dns, "FORWARDED"),
   Flow(b, dns, "DROPPED"),
   Flow(dns, b_new, "FORWARDED"),
   Flow(dns, world, "FORWARDED")}

\* (Compared as wholes, TLC makes tables of them.)
ASSUME Tables ==
  /\ Layouts = [edges \in Graphs |-> Layouts[edges]]
  /\ Paths = [edges \in Graphs |-> Paths[edges]]
============================================================================
