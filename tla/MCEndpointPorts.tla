--------------------------- MODULE MCEndpointPorts ---------------------------
(***************************************************************************)
(* finalize on Service and Endpoints data that need not agree: an edited   *)
(* Service next to stale Endpoints, or hand-written Kubernetes YAML read   *)
(* by load_from_filesystem(k8s=True).  One Service "svc" and one Endpoints *)
(* object with one subset.                                                  *)
(***************************************************************************)
EXTENDS ResourceFetcher

SvcPorts ==
    [port : {80}, name : {None, "http"}, targetPort : {None, IntV(8080), StrV("web")}]

EpPorts ==
    {<<[name |-> n, port |-> 8080, protocol |-> "TCP"]>> : n \in {None, "web", "http"}}
    \cup {<<[name |-> "web", port |-> 8080, protocol |-> "TCP"],
            [name |-> "dns", port |-> 53, protocol |-> "UDP"]>>}

EpAddresses ==
    {<<[ip |-> "10.0.0.1", nodeName |-> None]>>, <<[ip |-> None, nodeName |-> "node-1"]>>}

MCInputs ==
    {FilesCalls(<<[name |-> "k8s.yaml", k8s |-> TRUE, objects |->
        <<[kind |-> "Service", name |-> "svc", namespace |-> None,
           ports |-> <<sp>>, annotation |-> None],
          [kind |-> "Endpoints", name |-> "svc", namespace |-> None,
           subsets |-> <<[addresses |-> a, ports |-> ps]>>]>>]>>) :
        sp \in SvcPorts, ps \in EpPorts, a \in EpAddresses}

-----------------------------------------------------------------------------
EpObject == input[1].objects[2]
TcpPorts == SelectSeq(EpObject.subsets[1].ports, LAMBDA p : p.protocol = "TCP")
Resolved == services.val["k8s-svc-default"].endpoints

(***************************************************************************)
(* The rule finalize's comment states (resourcefetcher.py:690): "if        *)
(* there's only one endpoint port, that's the one that gets used" -- for   *)
(* every port of the Service, whatever its name or targetPort.             *)
(***************************************************************************)
SingleEndpointPortIsUsed ==
    Finished /\ Len(TcpPorts) = 1 =>
        \A src \in DOMAIN Resolved : \A i \in DOMAIN Resolved[src] :
            Resolved[src][i].port = IntV(TcpPorts[1].port)

(***************************************************************************)
(* Spec 4.3: only addresses that carry an ip are collected; spec 4.8 step  *)
(* 4: when no target address survives, the Service falls back to          *)
(* service-name routing and skips per-port target mapping.  So no resolved *)
(* endpoint pairs the bare name.namespace with a port from Endpoints.      *)
(***************************************************************************)
NoEndpointPortOnServiceName ==
    Finished =>
        \A src \in DOMAIN Resolved : \A i \in DOMAIN Resolved[src] :
            Resolved[src][i].ip # "svc.default"
=============================================================================
