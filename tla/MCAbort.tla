------------------------------- MODULE MCAbort -------------------------------
(***************************************************************************)
(* load_from_filesystem over two files of Ambassador resources, where a   *)
(* document may be a `kind: Service` resource that lacks its name.         *)
(***************************************************************************)
EXTENDS ResourceFetcher

Doc(kind, name) == [kind |-> kind, name |-> name, ambassador_id |-> None, source |-> None]

Documents == {Doc("Mapping", "m"), Doc("Service", "s"), Doc("Service", None)}

MCInputs ==
    {FilesCalls(<<[name |-> "a.yaml", k8s |-> FALSE, objects |-> d],
                  [name |-> "b.yaml", k8s |-> FALSE, objects |-> <<Doc("Mapping", "m")>>]>>) :
        d \in BoundedSeq(Documents, 2)}

-----------------------------------------------------------------------------
(***************************************************************************)
(* Spec section 7: no error in one object aborts the others.  Once the     *)
(* cycle has stopped, every Mapping document of every file is a resource.  *)
(***************************************************************************)
EveryMappingLoaded ==
    todo = <<>> =>
        \A c \in ToSet(input) :
            c.op = "parse" =>
                \A j \in DOMAIN c.objects :
                    c.objects[j].kind = "Mapping" =>
                        \E i \in DOMAIN elements :
                            elements[i].at # None
                            /\ elements[i].at.file = c.name /\ elements[i].at.pos = j
=============================================================================
