------------------------------- MODULE MCWatt -------------------------------
(***************************************************************************)
(* parse_watt over a snapshot of one Kubernetes Service "svc", the        *)
(* Endpoints objects watt reports for it (several, with several subsets), *)
(* a Secret, an Ambassador Mapping CRD and a Consul service.              *)
(***************************************************************************)
EXTENDS ResourceFetcher

Mapping  == [kind |-> "Mapping", name |-> "m", ambassador_id |-> None, source |-> None]
ForOther == [kind |-> "Mapping", name |-> "m", ambassador_id |-> {"other"}, source |-> None]

Svc(ns, annotation) ==
    [kind |-> "Service", name |-> "svc", namespace |-> ns, annotation |-> annotation,
     ports |-> <<[port |-> 80, name |-> "http", targetPort |-> StrV("http")]>>]
Services == {Svc(None, None), Svc(None, <<Mapping, ForOther>>), Svc("other", <<Mapping>>)}

Addr(ip) == [ip |-> ip, nodeName |-> None]
Port(name, n, proto) == [name |-> name, port |-> n, protocol |-> proto]
Subsets ==
    {[addresses |-> <<Addr("10.0.0.1")>>, ports |-> <<Port("http", 8080, "TCP")>>],
     [addresses |-> <<>>, ports |-> <<Port("http", 8080, "TCP")>>],
     [addresses |-> <<Addr("10.0.0.2")>>, ports |-> <<Port("dns", 53, "UDP")>>],
     [addresses |-> <<Addr("10.0.0.2"), Addr("10.0.0.3")>>,
      ports |-> <<Port(None, 9090, None)>>]}
Endpoints(subsets) ==
    [kind |-> "Endpoints", name |-> "svc", namespace |-> None, subsets |-> subsets]
EndpointsObjects == {Endpoints(ss) : ss \in BoundedSeq(Subsets, 2) \ {<<>>}}

Secrets ==
    {[kind |-> "Secret", type |-> t, name |-> "svc", namespace |-> None,
      data |-> [crt |-> "CERT", key |-> None]] : t \in {"kubernetes.io/tls", "Other"}}

Crds ==
    {[kind |-> "Mapping", apiVersion |-> v, name |-> "svc", namespace |-> None,
      spec |-> [ambassador_id |-> ids]] :
        v \in {None, "getambassador.io/v1"}, ids \in {None, {"other"}}}

ConsulEntry ==
    [key |-> "c1", obj |-> [service |-> None, id |-> None,
        endpoints |-> <<[address |-> "10.1.0.1", port |-> 9000, ID |-> "e1"],
                        [address |-> None, port |-> 9000, ID |-> "e2"]>>]]

Opt(S) == {<<>>} \cup {<<x>> : x \in S}

MCInputs ==
    {WattCalls({}, [k8s |-> s \o e \o t, crds |-> c, consul |-> <<ConsulEntry>>]) :
        s \in Opt(Services), e \in BoundedSeq(EndpointsObjects, 2),
        t \in Opt(Secrets), c \in Opt(Crds)}

-----------------------------------------------------------------------------
\* The subsets of the snapshot's Endpoints for svc, in the order watt lists them.
InputSubsets ==
    LET objs == SelectSeq([i \in 1..Len(input) |-> input[i]],
                          LAMBDA c : c.op = "k8s" /\ c.obj.kind = "Endpoints")
    IN  FlattenSeq([i \in 1..Len(objs) |-> objs[i].obj.subsets])

\* A subset that names at least one address and one numbered TCP port
\* (Kubernetes takes an absent protocol as TCP).
Routable(sub) ==
    /\ \E i \in DOMAIN sub.addresses : sub.addresses[i].ip # None
    /\ \E i \in DOMAIN sub.ports : sub.ports[i].protocol \in {"TCP", None} /\ sub.ports[i].port # None

(***************************************************************************)
(* Last source wins, and only a routable subset counts: the resolved       *)
(* Service svc sends its port to exactly the ips of the last routable      *)
(* subset of all the Endpoints the snapshot gave for it, and when there is *)
(* none it has no endpoints at all (handle_k8s_endpoints, lines 378-449,   *)
(* then finalize, lines 664-809).                                           *)
(***************************************************************************)
LastRoutableSubsetServes ==
    Finished /\ "svc.default" \in DOMAIN k8s_services.val =>
        LET subs == SelectSeq(InputSubsets, Routable)
            res  == services.val["k8s-svc-default"].endpoints
        IN  IF subs = <<>> THEN res = EmptyDict
            ELSE /\ DOMAIN res = {80}
                 /\ [i \in DOMAIN res[80] |-> res[80][i].ip]
                      = [i \in DOMAIN Last(subs).addresses |-> Last(subs).addresses[i].ip]

(***************************************************************************)
(* Every resource of one fetch cycle has its own key (spec section 3).     *)
(***************************************************************************)
ResourceKeysUnique ==
    \A i, j \in DOMAIN elements : i # j => elements[i].rkey # elements[j].rkey
=============================================================================
