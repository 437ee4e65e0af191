---------------------------- MODULE MCServiceKeys ----------------------------
(***************************************************************************)
(* parse_watt over Kubernetes Services whose names and namespaces contain  *)
(* dashes, as Kubernetes allows, without Endpoints.                        *)
(***************************************************************************)
EXTENDS ResourceFetcher

Svc(name, ns) ==
    [kind |-> "Service", name |-> name, namespace |-> ns, annotation |-> None,
     ports |-> <<[port |-> 80, name |-> None, targetPort |-> None]>>]

Services == {Svc("a-b", "c"), Svc("a", "b-c"), Svc("a", "c")}

MCInputs ==
    {WattCalls({}, [k8s |-> ss, crds |-> <<>>, consul |-> <<>>]) :
        ss \in BoundedSeq(Services, 2)}

-----------------------------------------------------------------------------
(***************************************************************************)
(* Spec 4.8: finalize emits a resolved Service for every entry of the      *)
(* Kubernetes service side table, so every Kubernetes Service with ports   *)
(* ends up in self.services under its own name and namespace.             *)
(***************************************************************************)
EveryStashedServiceResolved ==
    Finished =>
        \A rid \in DOMAIN k8s_services.val :
            \E key \in DOMAIN services.val :
                /\ services.val[key].name = k8s_services.val[rid].name
                /\ services.val[key].namespace = k8s_services.val[rid].namespace
=============================================================================
