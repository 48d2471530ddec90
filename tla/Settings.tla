------------------------------ MODULE Settings ------------------------------
(***************************************************************************)
(* The global configuration: what FromMap makes of the ConfigMap's data.   *)
(* The data is a function from the keys that are there to what their text  *)
(* stands for: a switch's text, <<n>> for a number and <<>> for a text     *)
(* that is none, the value that json.Unmarshal leaves behind.              *)
(***************************************************************************)
EXTENDS Naturals, Sequences

Or(c, k, default) == IF k \in DOMAIN c THEN c[k] ELSE default
Text(c, k) == Or(c, k, "")
On(c, k) == Text(c, k) = "true"
Number(c, k) == LET n == Or(c, k, <<>>) IN IF n = <<>> THEN 30 ELSE n[1]

\* The settings that follow the data, whatever they were before; only one of the two
\* monitors is on.
FromData(c) ==
    [ingressOpen |-> On(c, "ingressOpen"),
     istioInject |-> On(c, "istioInject"),
     istioEnable |-> On(c, "istioEnable"),
     istioIngressGateway |-> Text(c, "istioIngressGateway") # "false",
     istioTimeout |-> Number(c, "istioTimeout"),
     istioGateways |-> Or(c, "istioGateways", <<>>),
     serviceMonitorEnable |-> On(c, "serviceMonitorEnable"),
     victoriaMetricsEnable |-> On(c, "victoriaMetricsEnable") /\ ~On(c, "serviceMonitorEnable"),
     pvcEnable |-> On(c, "pvcEnable"),
     domainPostfix |-> Or(c, "domainPostfix", {}),
     imagePullSecrets |-> Or(c, "imagePullSecrets", {}),
     specialVirtualServiceIngress |-> Or(c, "specialVirtualServiceIngress", "nginx"),
     deploymentSpec |-> Text(c, "deploymentSpec"),
     operatorDelay |-> Number(c, "operatorDelay"),
     initContainerImage |-> Text(c, "initContainerImage"),
     baseFlag |-> IF Text(c, "baseFlag") = "" THEN "base" ELSE c["baseFlag"],
     env |-> IF Text(c, "env") = "prod" THEN "prod" ELSE "test"]

\* The settings of a process that has loaded nothing yet, as far as FromMap reads them.
Unloaded == FromData(<<>>)

\* No gateways means the mesh.
Gateways(g) == IF g = <<>> THEN <<"mesh">> ELSE g

\* Mutant: an absent key leaves the image of the init container as it is.
FromMapKeep(old, c) ==
    [FromData(c) EXCEPT
        !.domainPostfix = Or(c, "domainPostfix", old.domainPostfix),
        !.istioGateways = Gateways(Or(c, "istioGateways", old.istioGateways)),
        !.initContainerImage = Or(c, "initContainerImage", old.initContainerImage)]

\* FromMap: the domains and the gateways keep their value when the key is gone.
FromMap(old, c) ==
    [FromData(c) EXCEPT
        !.domainPostfix = Or(c, "domainPostfix", old.domainPostfix),
        !.istioGateways = Gateways(Or(c, "istioGateways", old.istioGateways))]

=============================================================================
