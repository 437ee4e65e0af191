----------------------------- MODULE MCSnapshot -----------------------------
(***************************************************************************)
(* parse_watt over snapshots with the sentinel files present or not, an   *)
(* undecodable snapshot, Services whose annotations hold Pragmas and       *)
(* malformed documents, Secrets with one, both or no keys, CRDs and a      *)
(* Consul service.                                                         *)
(***************************************************************************)
EXTENDS ResourceFetcher

Doc(kind, ids, src) ==
    [kind |-> kind, name |-> "m", ambassador_id |-> ids, source |-> src]

Mapping  == Doc("Mapping", None, None)
ForOther == Doc("Mapping", {"other"}, None)
Relabel  == Doc("Pragma", None, "relabelled")
NoKind   == Doc(None, None, None)

Annotations == {None, <<Relabel, NoKind, Mapping>>, <<ForOther, Mapping>>}

Svc(name, ns, annotation) ==
    [kind |-> "Service", name |-> name, namespace |-> ns, annotation |-> annotation,
     ports |-> <<[port |-> 80, name |-> None, targetPort |-> None]>>]

Services ==
    {Svc("svc", ns, a) : ns \in {None, "other"}, a \in Annotations}
    \cup {Svc(None, None, <<Mapping>>)}

Secret(type, crt, key) ==
    [kind |-> "Secret", type |-> type, name |-> "tls", namespace |-> None,
     data |-> [crt |-> crt, key |-> key]]

Secrets ==
    {Secret(t, c, k) : t \in {"kubernetes.io/tls", "Opaque", "Other"},
                       c \in {None, "CERT"}, k \in {None, "KEY"}}

Crds ==
    {[kind |-> k, apiVersion |-> "getambassador.io/v1", name |-> "svc",
      namespace |-> None, spec |-> [ambassador_id |-> None]] : k \in {"Mapping", "Pragma"}}

ConsulEntry(eps) == [key |-> "c1", obj |-> [service |-> "db", id |-> "dc2", endpoints |-> eps]]

ConsulEndpoint(addr, id) == [address |-> addr, port |-> 9000, ID |-> id]

Opt(S) == {<<>>} \cup {<<x>> : x \in S}

Snapshots(Svcs) ==
    {[k8s |-> s \o t, crds |-> c, consul |-> n] :
        s \in BoundedSeq(Svcs, 2), t \in Opt(Secrets), c \in Opt(Crds),
        n \in Opt({ConsulEntry(<<ConsulEndpoint("10.1.0.1", "e1")>>)})}

Sentinels == SUBSET {"ignore_crds", "ignore_crds_2"}

MCInputs ==
    {WattCalls(ig, w) : ig \in Sentinels, w \in Snapshots(Services) \cup {Unparseable}}

\* Services whose annotation is text the YAML parser rejects.
MCInputsBadAnnotation ==
    {WattCalls({}, w) : w \in Snapshots({Svc("svc", None, Unparseable)})}
=============================================================================
