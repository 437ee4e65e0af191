---------------------------- MODULE MCResolution ----------------------------
(***************************************************************************)
(* finalize against Kubernetes.  Each cycle is a parse_watt of one Service *)
(* and the Endpoints that the Kubernetes endpoints controller derives from *)
(* it and its pods, so the data is consistent as a live cluster makes it.  *)
(* The controller below is Kubernetes' behaviour, not this repository's.   *)
(***************************************************************************)
EXTENDS ResourceFetcher

TargetPorts == {None, IntV(8080), IntV(90), StrV("web"), StrV("admin")}
SpecPorts(names) == [port : {80, 90}, name : names, targetPort : TargetPorts]

\* A single-port Service may leave its port unnamed; ports of a multi-port
\* Service are named, and numbers and names are unique.
KubeServicePorts ==
    {<<p>> : p \in SpecPorts({None, "http", "admin"})}
    \cup {ps \in {<<p, q>> : p, q \in SpecPorts({"http", "admin"})} :
             ps[1].port # ps[2].port /\ ps[1].name # ps[2].name}

\* The named container ports of the pods behind the Service.
PodPortChoices == {("web" :> 8080), ("web" :> 8080) @@ ("admin" :> 9090),
                   ("admin" :> 8080)}
PodIps == {<<"10.0.0.1">>, <<"10.0.0.1", "10.0.0.2">>}

\* The pod port a Service port's targetPort selects, or None.
PodTarget(sp, podPorts) ==
    CASE sp.targetPort = None          -> sp.port
      [] sp.targetPort[1] = "int"      -> sp.targetPort[2]
      [] sp.targetPort[2] \in DOMAIN podPorts -> podPorts[sp.targetPort[2]]
      [] OTHER                         -> None

\* The endpoints controller: one subset with every pod and, for every
\* Service port whose target exists on the pods, a port of the same name.
ControllerEndpoints(ports, podPorts, ips) ==
    LET routable == SelectSeq(ports, LAMBDA sp : PodTarget(sp, podPorts) # None)
        epPorts  == [i \in 1..Len(routable) |->
                       [name |-> routable[i].name, protocol |-> "TCP",
                        port |-> PodTarget(routable[i], podPorts)]]
    IN  [kind |-> "Endpoints", name |-> "svc", namespace |-> None,
         subsets |-> IF epPorts = <<>> THEN <<>>
                     ELSE <<[addresses |-> [i \in 1..Len(ips) |->
                                              [ip |-> ips[i], nodeName |-> "node-1"]],
                             ports |-> epPorts]>>]

KubeService(ports) ==
    [kind |-> "Service", name |-> "svc", namespace |-> None, ports |-> ports,
     annotation |-> None]

MCInputs ==
    {WattCalls({}, [k8s |-> <<KubeService(ports), ControllerEndpoints(ports, pp, ips)>>,
                crds |-> <<>>, consul |-> <<>>]) :
        ports \in KubeServicePorts, pp \in PodPortChoices, ips \in PodIps}

-----------------------------------------------------------------------------
\* kube-proxy sends traffic for a Service port to the endpoint port that
\* carries the Service port's name (an unnamed port matches the unnamed one).
ProxyPort(sp, ep) ==
    LET named == {q \in ToSet(ep.subsets[1].ports) : q.name = sp.name}
    IN  IF ep.subsets = <<>> \/ named = {} THEN None ELSE (CHOOSE q \in named : TRUE).port

\* A named targetPort that is also the name of another port of the Service.
CrossNamed(sp, ports) ==
    \E q \in ToSet(ports) : q # sp /\ sp.targetPort = StrV(q.name)

(***************************************************************************)
(* On consistent data, finalize (src .../resourcefetcher.py:710-799) sends *)
(* each port of the Service to every pod ip at exactly the port kube-proxy *)
(* would use -- whatever the mix of names, numbers and targetPorts --      *)
(* except where a named targetPort is also another Service port's name.    *)
(***************************************************************************)
ResolutionMatchesKubeProxy ==
    Finished =>
        LET svc == input[2].obj
            ep  == input[3].obj
            res == services.val["k8s-svc-default"].endpoints
        IN  \A sp \in ToSet(svc.ports) :
               (ProxyPort(sp, ep) # None /\ ~CrossNamed(sp, svc.ports)) =>
                   /\ sp.port \in DOMAIN res
                   /\ res[sp.port] =
                        [i \in 1..Len(ep.subsets[1].addresses) |->
                           [ip |-> ep.subsets[1].addresses[i].ip,
                            port |-> IntV(ProxyPort(sp, ep))]]

(***************************************************************************)
(* The same without the exception: a named targetPort is matched against   *)
(* the Service's own port names (resourcefetcher.py:738-753).              *)
(***************************************************************************)
ResolutionMatchesKubeProxyAlways ==
    Finished =>
        LET svc == input[2].obj
            ep  == input[3].obj
            res == services.val["k8s-svc-default"].endpoints
        IN  \A sp \in ToSet(svc.ports) :
               ProxyPort(sp, ep) # None =>
                   /\ sp.port \in DOMAIN res
                   /\ \A i \in DOMAIN res[sp.port] :
                          res[sp.port][i].port = IntV(ProxyPort(sp, ep))
=============================================================================
