------------------------------ MODULE MCFiles ------------------------------
(***************************************************************************)
(* load_from_filesystem over two YAML files of Ambassador resources, with  *)
(* Pragma directives, filtered and malformed documents, and a file of      *)
(* Kubernetes objects whose Service carries an annotation.                 *)
(***************************************************************************)
EXTENDS ResourceFetcher

AppObj(kind, ids, src) ==
    [kind |-> kind, name |-> "m", ambassador_id |-> ids, source |-> src]

Mapping     == AppObj("Mapping", None, None)
ForOther    == AppObj("Mapping", {"other"}, None)
Relabel     == AppObj("Pragma", None, "relabelled")
PragmaNoSrc == AppObj("Pragma", None, None)
NoKind      == AppObj(None, None, None)
EmptyKind   == AppObj("", None, None)
\* A directive for another Ambassador: filtered, so it is counted.
OtherPragma == AppObj("Pragma", {"other"}, "elsewhere")

Documents == {Mapping, ForOther, Relabel, PragmaNoSrc, NoKind, EmptyKind, OtherPragma,
              NotADict}

Annotated(annotation) ==
    [kind |-> "Service", name |-> "svc", namespace |-> None, ports |-> None,
     annotation |-> annotation]

AnnotatedServices == {Annotated(<<Mapping, Relabel, Mapping>>), Annotated(<<NoKind, Mapping>>)}

AppFiles(n) ==
    {[name |-> "a.yaml", k8s |-> FALSE, objects |-> d] : d \in BoundedSeq(Documents, n)}

K8sFiles ==
    {[name |-> "k.yaml", k8s |-> TRUE, objects |-> d] :
        d \in BoundedSeq(AnnotatedServices, 2) \ {<<>>}}

FileInputs ==
    {FilesCalls(<<f, g>>) : f \in AppFiles(3) \cup K8sFiles,
                            g \in AppFiles(2) \cup {[name |-> None, k8s |-> FALSE,
                                                     objects |-> Unparseable]}}

(***************************************************************************)
(* The public entry points: two parse_yaml / parse_json calls on one      *)
(* fetcher, with every mix of k8s, rkey (None, empty, set), filename and  *)
(* finalize.  A `kind: Service` document feeds finalize.                  *)
(***************************************************************************)
ServiceDoc == [kind |-> "Service", name |-> "s", ambassador_id |-> None, source |-> None]

ApiTexts == {<<>>, <<Mapping>>, <<Relabel, Mapping>>, <<ServiceDoc, Mapping>>, <<NotADict>>,
             Unparseable}

\* With `single`, a JSON text may hold one object rather than a list.
ApiCalls(single) ==
    {ParseCall(FALSE, r, f, d, FALSE, fin) :
        r \in {None, "", "key"}, f \in {None, "api.yaml"}, d \in ApiTexts, fin \in BOOLEAN}
    \cup {ParseCall(TRUE, None, "k.yaml", <<Annotated(<<Mapping>>)>>, FALSE, fin) :
            fin \in BOOLEAN}
    \cup (IF single THEN {ParseCall(k, None, None, <<Mapping>>, TRUE, TRUE) : k \in BOOLEAN}
         ELSE {})

MCInputs == FileInputs \cup {<<c1, c2>> : c1, c2 \in ApiCalls(FALSE)}

MCInputsJsonObject == {<<c1, c2>> : c1, c2 \in ApiCalls(TRUE)}
=============================================================================
