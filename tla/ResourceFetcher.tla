--------------------------- MODULE ResourceFetcher ---------------------------
(***************************************************************************)
(* One fetch cycle of class ResourceFetcher                                *)
(* (src/ambassador/ambassador/config/resourcefetcher.py).                  *)
(*                                                                         *)
(* The variables are the attributes of the fetcher object.  The input of   *)
(* the cycle is fixed in Init as the queue `todo` of the top-level calls    *)
(* that load_from_filesystem or parse_watt make, in the order they make    *)
(* them; each action is one such call, run to completion, with every      *)
(* nested call (handle_k8s, parse_object, process_object, ...) inside it. *)
(* The program is single-threaded: the only nondeterminism is the input.  *)
(***************************************************************************)
EXTENDS PortResolution

CONSTANTS
    AmbassadorId,        \* Config.ambassador_id
    SingleNamespace,     \* Config.single_namespace
    AmbassadorNamespace, \* Config.ambassador_namespace
    EnableEndpoints,     \* Config.enable_endpoints
    NotADict,            \* a parsed YAML document that is not a dict
    Unparseable,         \* text the YAML/JSON parser rejects
    Inputs               \* the set of possible call queues (see FilesCalls, WattCalls)

VARIABLES
    elements,       \* self.elements: the ACResources, in append order
    filename,       \* self.filename
    ocount,         \* self.ocount
    saved,          \* self.saved: the location stack
    k8s_endpoints,  \* self.k8s_endpoints: function name.namespace -> entry
    k8s_services,   \* self.k8s_services: ordered dict (see PyDict)
    services,       \* self.services: ordered dict
    errors,         \* the locations of aconf.post_error calls, in order
    crashed,        \* an exception escaped a top-level call
    todo,           \* the top-level calls still to make
    input           \* ghost: the calls the cycle was given, never changed

fetcher == <<elements, filename, ocount, saved, k8s_endpoints, k8s_services,
             services, errors, crashed>>
vars == <<fetcher, todo, input>>

(***************************************************************************)
(* The fetcher object as a record, so that nested calls compose.           *)
(***************************************************************************)
Self == [elements |-> elements, filename |-> filename, ocount |-> ocount,
         saved |-> saved, k8s_endpoints |-> k8s_endpoints,
         k8s_services |-> k8s_services, services |-> services,
         errors |-> errors, crashed |-> crashed]

Become(s) ==
    /\ elements' = s.elements /\ filename' = s.filename /\ ocount' = s.ocount
    /\ saved' = s.saved /\ k8s_endpoints' = s.k8s_endpoints
    /\ k8s_services' = s.k8s_services /\ services' = s.services
    /\ errors' = s.errors /\ crashed' = s.crashed

\* A Python dict that keeps insertion order: overwriting a key keeps its place.
PyDict == [keys |-> <<>>, val |-> EmptyDict]
PyDictPut(d, k, v) ==
    [keys |-> IF k \in DOMAIN d.val THEN d.keys ELSE Append(d.keys, k),
     val  |-> DictSet(d.val, k, v)]

\* "%s" % x for a string or None.
Fmt(x) == IF x = None THEN "None" ELSE x

EndsWith(s, suffix) ==
    Len(s) >= Len(suffix) /\ SubSeq(s, Len(s) - Len(suffix) + 1, Len(s)) = suffix

\* name.namespace, the resource identifier of a Kubernetes object.
Identifier(name, ns) == name \o "." \o ns

\* Config.good_ambassador_id (config.py, not in this file): an object is
\* for this Ambassador when its ambassador_id (default "default") lists it.
GoodAmbassadorId(o) ==
    AmbassadorId \in (IF o.ambassador_id = None THEN {"default"} ELSE o.ambassador_id)

(***************************************************************************)
(* The location tracker.                                                   *)
(***************************************************************************)
Location(s) ==
    (IF s.filename = None THEN "anonymous YAML" ELSE s.filename)
        \o "." \o ToString(s.ocount)

PushLocation(s, fname, n) ==
    [s EXCEPT !.saved = Append(@, <<s.filename, s.ocount>>),
              !.filename = fname, !.ocount = n]


PopLocation(s) ==
    [s EXCEPT !.filename = Last(s.saved)[1], !.ocount = Last(s.saved)[2],
              !.saved = Front(s.saved)]

PostError(s) == [s EXCEPT !.errors = Append(@, Location(s))]

(***************************************************************************)
(* process_object: one application resource.  A Pragma relabels the rest  *)
(* of its stream and gives back the ordinal parse_object will count for it.*)
(***************************************************************************)
ApplyPragmaCounted(s, o) ==
    [s EXCEPT !.filename = IF o.source \notin {None, ""} THEN o.source ELSE @]

ApplyPragma(s, o) ==
    [s EXCEPT !.filename = IF o.source \notin {None, ""} THEN o.source ELSE @,
              !.ocount = @ - 1]

\* ACResource.from_dict(rkey, rkey, serialization, obj), appended to
\* self.elements; from_dict (acresource.py) raises on an empty kind, and
\* the error is posted.
NewResourceUnchecked(s, o, key, at) ==
    [s EXCEPT !.elements =
        Append(@, [rkey |-> key, kind |-> o.kind, obj |-> o, at |-> at])]

NewResource(s, o, key, at) ==
    IF o.kind = "" THEN PostError(s)
    ELSE [s EXCEPT !.elements =
            Append(@, [rkey |-> key, kind |-> o.kind, obj |-> o, at |-> at])]

(***************************************************************************)
(* process_object: one application resource.  `at` is a ghost naming the  *)
(* stream and position the object came from; it changes nothing.          *)
(***************************************************************************)
\* `if not rkey: rkey = self.filename`, then "%s.%d" % (rkey, self.ocount).
ResourceKeyIfNone(s, rkey) ==
    Fmt(IF rkey = None THEN s.filename ELSE rkey) \o "." \o ToString(s.ocount)

ResourceKey(s, rkey) ==
    Fmt(IF rkey \in {None, ""} THEN s.filename ELSE rkey) \o "." \o ToString(s.ocount)

ProcessObject(s, o, rkey, at) ==
    LET key == ResourceKey(s, rkey)
    IN
    CASE o = NotADict                -> PostError(s)
      [] ~GoodAmbassadorId(o)        -> s
      [] o.kind = None               -> PostError(s)
      [] o.kind = "Pragma"           -> ApplyPragma(s, o)
      \* obj['name'] on a Service without a name raises KeyError
      [] o.kind = "Service" /\ o.name = None -> [s EXCEPT !.crashed = TRUE]
      [] o.kind = "Service"          ->
            [s EXCEPT !.services = PyDictPut(@, o.name, o)]
      [] OTHER                       -> NewResource(s, o, key, at)

\* One iteration of parse_object's loop when k8s is False.
ParseStepSkipDirective(s, o, rkey, at) ==
    LET done == ProcessObject(s, o, rkey, at)
    IN  IF done.crashed \/ (o # NotADict /\ o.kind = "Pragma") THEN done
        ELSE [done EXCEPT !.ocount = @ + 1]

ParseStep(s, o, rkey, at) ==
    LET done == ProcessObject(s, o, rkey, at)
    IN  IF done.crashed THEN done ELSE [done EXCEPT !.ocount = @ + 1]

\* parse_object(objects, k8s=False, rkey, filename).  A crash skips the pop.
ParseAppObjects(s, objects, rkey, fname) ==
    LET looped ==
          FoldLeft(LAMBDA st, i :
                     IF st.crashed THEN st
                     ELSE ParseStep(st, objects[i], rkey,
                                    [stream |-> objects, pos |-> i,
                                     rkey |-> rkey, file |-> fname]),
                   PushLocation(s, fname, 1), [i \in 1..Len(objects) |-> i])
    IN  IF looped.crashed THEN looped ELSE PopLocation(looped)

(***************************************************************************)
(* The Kubernetes object handlers.  A handler returns the fetcher and the *)
(* (resource identifier, objects) pair handle_k8s parses, or None.         *)
(***************************************************************************)
NsOf(o) == IF o.namespace = None THEN "default" ELSE o.namespace

WrongNamespace(o) == SingleNamespace /\ NsOf(o) # AmbassadorNamespace

\* A subset is stored only with an address and a routable port.
UsableSubsetPortsOnly(subset) == SubsetPortDict(subset) # EmptyDict

UsableSubset(subset) ==
    SubsetAddresses(subset) # <<>> /\ SubsetPortDict(subset) # EmptyDict

\* handle_k8s_endpoints: every usable subset overwrites the entry.
HandleK8sEndpoints(s, o) ==
    LET rid == Identifier(o.name, NsOf(o))
        store(st, subset) ==
            IF ~UsableSubset(subset) THEN st
            ELSE [st EXCEPT !.k8s_endpoints = DictSet(@, rid,
                    [name |-> o.name, namespace |-> NsOf(o),
                     addresses |-> SubsetAddresses(subset),
                     ports |-> SubsetPortDict(subset)])]
    IN  IF ~EnableEndpoints \/ o.name = None \/ o.subsets = <<>>
        THEN [fetcher |-> s, result |-> None]
        ELSE [fetcher |-> FoldLeft(store, s, o.subsets), result |-> None]

\* handle_k8s_service: stash the ports, then return the annotation's objects.
HandleK8sService(s, o) ==
    LET rid     == Identifier(o.name, NsOf(o))
        stashed == IF o.ports \notin {None, <<>>}
                   THEN [s EXCEPT !.k8s_services = PyDictPut(@, rid,
                           [name |-> o.name, namespace |-> NsOf(o), ports |-> o.ports])]
                   ELSE s
        marked  == IF o.annotation # None /\ s.filename # None
                      /\ ~EndsWith(s.filename, ":annotation")
                   THEN [stashed EXCEPT !.filename = @ \o ":annotation"]
                   ELSE stashed
        objects == IF o.annotation \in {None, Unparseable} THEN <<>> ELSE o.annotation
    IN  IF o.name = None \/ WrongNamespace(o)
        THEN [fetcher |-> s, result |-> None]
        ELSE [fetcher |-> marked, result |-> <<rid, objects>>]

\* `if not tls_crt and not tls_key`: a Secret with neither key is ignored.
SecretHasBothKeys(d) == d.crt # None /\ d.key # None

SecretHasKeys(d) == d.crt # None \/ d.key # None

\* handle_k8s_secret: a TLS or Opaque secret becomes one Secret resource.
HandleK8sSecret(s, o) ==
    LET rid  == Identifier(o.name, NsOf(o))
        info == [kind |-> "Secret", name |-> o.name, namespace |-> NsOf(o),
                 ambassador_id |-> {AmbassadorId}, source |-> None,
                 tls_crt |-> o.data.crt, tls_key |-> o.data.key]
    IN  IF \/ o.type \notin {"kubernetes.io/tls", "Opaque"}
           \/ o.data = None \/ o.name = None \/ WrongNamespace(o)
           \/ ~SecretHasKeys(o.data)
        THEN [fetcher |-> s, result |-> None]
        ELSE [fetcher |-> s, result |-> <<rid, <<info>>>>]

\* handle_k8s_crd: an Ambassador CRD becomes one application resource.
HandleK8sCrd(s, o) ==
    LET rid == Identifier(o.name, NsOf(o))
        amb == [kind |-> o.kind, name |-> o.name, apiVersion |-> o.apiVersion,
                ambassador_id |-> o.spec.ambassador_id, source |-> None]
    IN  IF o.kind = None \/ o.name = None \/ o.apiVersion = None THEN s
        ELSE ParseAppObjects(s, <<amb>>, rid, s.filename)

\* handle_k8s: dispatch on kind, then parse what the handler returned.
HandleK8s(s, o) ==
    LET r == CASE o.kind = "Endpoints" -> HandleK8sEndpoints(s, o)
               [] o.kind = "Service"   -> HandleK8sService(s, o)
               [] o.kind = "Secret"    -> HandleK8sSecret(s, o)
               \* handle_k8s_{kind.lower()} also finds handle_k8s_crd, which
               \* parses the object itself and returns None
               [] o.kind \in {"crd", "CRD"} -> [fetcher |-> HandleK8sCrd(s, o), result |-> None]
               [] OTHER                -> [fetcher |-> s, result |-> None]
    IN  IF r.result = None THEN r.fetcher
        ELSE ParseAppObjects(r.fetcher, r.result[2], r.result[1], r.fetcher.filename)

\* parse_object(objects, k8s=True, filename): handle_k8s on each object.
ParseK8sObjects(s, objects, fname) ==
    LET looped == FoldLeft(LAMBDA st, o : IF st.crashed THEN st ELSE HandleK8s(st, o),
                           PushLocation(s, fname, 1), objects)
    IN  IF looped.crashed THEN looped ELSE PopLocation(looped)

\* handle_consul_service: straight into self.services; returns None.
HandleConsulService(s, ckey, o) ==
    LET name == IF o.service = None THEN ckey ELSE o.service
        dc   == IF o.id = None THEN "dc1" ELSE o.id
        eps  == SelectSeq(o.endpoints, LAMBDA ep : ep.address # None /\ ep.port # None)
        svc  == [kind |-> "Service", name |-> name, datacenter |-> dc,
                 ambassador_id |-> {AmbassadorId},
                 endpoints |-> IF eps = <<>> THEN EmptyDict
                    ELSE "*" :> [i \in 1..Len(eps) |->
                             [ip |-> eps[i].address, port |-> eps[i].port,
                              target_kind |-> "Consul"]]]
        \* the debug message for a skipped endpoint reads ep['ID']: KeyError
        aborts == \E i \in DOMAIN o.endpoints :
                    /\ o.endpoints[i].address = None \/ o.endpoints[i].port = None
                    /\ o.endpoints[i].ID = None
    IN  CASE o.endpoints = <<>> -> s
          [] aborts             -> [s EXCEPT !.crashed = TRUE]
          [] OTHER              ->
                [s EXCEPT !.services = PyDictPut(@, "consul-" \o name \o "-" \o dc, svc)]

(***************************************************************************)
(* finalize: resolve every stashed Kubernetes Service, then turn every     *)
(* entry of self.services into a resource.                                  *)
(***************************************************************************)
K8sServiceKey(name, ns) == "k8s-" \o name \o "-" \o ns

\* The services entry finalize builds for the stashed Service `key`.
ServiceResource(st, key) ==
    LET svc == st.k8s_services.val[key]
        ep  == IF key \in DOMAIN st.k8s_endpoints THEN st.k8s_endpoints[key] ELSE None
    IN  [kind |-> "Service", name |-> svc.name, namespace |-> svc.namespace,
         ambassador_id |-> {AmbassadorId}, endpoints |-> ResolvedEndpoints(key, svc, ep)]

ServicesKeyOf(st, key) ==
    K8sServiceKey(st.k8s_services.val[key].name, st.k8s_services.val[key].namespace)

ResolveServiceSkipUnrouted(st, key) ==
    IF key \notin DOMAIN st.k8s_endpoints THEN st
    ELSE [st EXCEPT !.services = PyDictPut(@, ServicesKeyOf(st, key), ServiceResource(st, key))]

ResolveServiceConsumingEndpoints(st, key) ==
    [st EXCEPT !.services = PyDictPut(@, ServicesKeyOf(st, key), ServiceResource(st, key)),
               !.k8s_endpoints = [k \in DOMAIN @ \ {key} |-> @[k]]]

\* One iteration of finalize's `for key, k8s_svc in self.k8s_services.items()`.
ResolveService(st, key) ==
    [st EXCEPT !.services = PyDictPut(@, ServicesKeyOf(st, key), ServiceResource(st, key))]

Finalize(s) ==
    LET resolved == FoldLeft(ResolveService, s, s.k8s_services.keys)
        emit(st, key) ==
          [st EXCEPT !.elements = Append(@, [rkey |-> key, kind |-> "Service",
                                              obj |-> st.services.val[key], at |-> None])]
    IN  FoldLeft(emit, resolved, resolved.services.keys)

(***************************************************************************)
(* The top-level calls.  load_from_filesystem reads its files one by one   *)
(* with parse_yaml(finalize=False), then finalizes; parse_watt handles the *)
(* Kubernetes services, endpoints and secrets, then the CRDs, then the     *)
(* Consul services, then finalizes.  A call is a record in `todo`.         *)
(***************************************************************************)
\* A call of parse_yaml or parse_json: `objects` is what the decoder
\* returns (Unparseable when it raises), `single` marks a JSON text whose
\* top level is one object rather than a list.
ParseCall(k8s, rkey, fname, objects, single, finalize) ==
    [op |-> "parse", k8s |-> k8s, rkey |-> rkey, name |-> fname,
     objects |-> objects, single |-> single, finalize |-> finalize]

FilesCalls(files) ==
    [i \in 1..Len(files) |->
        ParseCall(files[i].k8s, None, files[i].name, files[i].objects, FALSE, FALSE)]
    \o <<[op |-> "finalize"]>>

WattHandlerCalls(w) ==
    [i \in 1..Len(w.k8s) |-> [op |-> "k8s", obj |-> w.k8s[i]]]
    \o [i \in 1..Len(w.crds) |-> [op |-> "crd", obj |-> w.crds[i]]]
    \o [i \in 1..Len(w.consul) |-> [op |-> "consul"] @@ w.consul[i]]
    \o <<[op |-> "finalize"]>>

\* parse_watt(serialization) of snapshot w, or of an undecodable one
\* (w = Unparseable), with the sentinel files in `ignored` present.
WattCalls(ignored, w) ==
    <<[op |-> "watt", ignored |-> ignored, malformed |-> w = Unparseable]>>
    \o IF w = Unparseable THEN <<[op |-> "finalize"]>> ELSE WattHandlerCalls(w)

\* The next call, when the cycle is still running.
Calling(op) == ~crashed /\ todo # <<>> /\ Head(todo).op = op
Call == Head(todo)

Step(s) ==
    /\ Become(s)
    /\ todo' = IF s.crashed THEN <<>> ELSE Tail(todo)
    /\ UNCHANGED input

\* Iterating a decoded JSON object visits its keys: one string, which is
\* not a dict, per key the object has.
JsonKeys(o) == [i \in 1..Cardinality({f \in DOMAIN o : o[f] # None}) |-> NotADict]

\* parse_yaml / parse_json(serialization, k8s, rkey, filename, finalize),
\* also the body of load_from_filesystem's loop (rkey None, finalize False).
\* A decode error is posted at the current location; with k8s the rkey is
\* not passed on, and handle_k8s calls .get on a key string of a JSON
\* object, which raises AttributeError.
ParseSerialization ==
    /\ Calling("parse")
    /\ LET c == Call
           objs == IF c.single THEN JsonKeys(c.objects[1]) ELSE c.objects
           parsed ==
             CASE c.objects = Unparseable -> PostError(Self)
               [] c.k8s /\ objs # <<>> /\ c.single ->
                     [PushLocation(Self, c.name, 1) EXCEPT !.crashed = TRUE]
               [] c.k8s  -> ParseK8sObjects(Self, objs, c.name)
               [] OTHER  -> ParseAppObjects(Self, objs, c.rkey, c.name)
       IN  Step(IF c.finalize /\ ~parsed.crashed THEN Finalize(parsed) ELSE parsed)

\* parse_watt, lines 142-151: the sentinel files each post their fixed
\* diagnostic, then json.loads; an undecodable snapshot posts an error at
\* the current location and no handler runs.
WattStart ==
    /\ Calling("watt")
    /\ Step(LET s == [Self EXCEPT !.errors = @ \o
                         SelectSeq(<<"ignore_crds", "ignore_crds_2">>,
                                   LAMBDA f : f \in Call.ignored)]
            IN  IF Call.malformed THEN PostError(s) ELSE s)

\* parse_watt: self.handle_k8s(obj) for a service, endpoints or secret.
WattK8s ==
    /\ Calling("k8s")
    /\ Step(HandleK8s(Self, Call.obj))

\* parse_watt: self.handle_k8s_crd(obj) for an Ambassador CRD.
WattCrd ==
    /\ Calling("crd")
    /\ Step(HandleK8sCrd(Self, Call.obj))

\* parse_watt: self.handle_consul_service(key, obj); it always returns None.
WattConsul ==
    /\ Calling("consul")
    /\ Step(HandleConsulService(Self, Call.key, Call.obj))

\* The trailing self.finalize() of both entry points.
FinalizeCall ==
    /\ Calling("finalize")
    /\ Step(Finalize(Self))

Init ==
    /\ elements = <<>>
    /\ filename = None
    /\ ocount = 1
    /\ saved = <<>>
    /\ k8s_endpoints = EmptyDict
    /\ k8s_services = PyDict
    /\ services = PyDict
    /\ errors = <<>>
    /\ crashed = FALSE
    /\ todo \in Inputs
    /\ input = todo

Next == ParseSerialization \/ WattStart \/ WattK8s \/ WattCrd \/ WattConsul \/ FinalizeCall

\* A fetch cycle is a batch that ends: after its last call, or after an
\* exception, no step is enabled.
Spec == Init /\ [][Next]_vars

\* The cycle has run to completion.
Finished == todo = <<>> /\ ~crashed

(***************************************************************************)
(* Refinement: the resources built from documents, and the diagnostics.   *)
(***************************************************************************)
DocumentResources ==
    LET d == SelectSeq(elements, LAMBDA e : e.at # None)
    IN  [i \in 1..Len(d) |-> [rkey |-> d[i].rkey, kind |-> d[i].kind]]

Load == INSTANCE AbstractLoad WITH out <- DocumentResources, errs <- errors, pending <- todo

(***************************************************************************)
(* Every top-level call appends, at once and in document order, exactly    *)
(* the resources and diagnostics AbstractLoad gives its documents: the    *)
(* location stack, the Pragma                                              *)
(* ordinal, the ":annotation" relabelling and the handler filters of       *)
(* parse_object, process_object and handle_k8s_* implement the positional *)
(* definition of keys and diagnostic locations.                            *)
(***************************************************************************)
LoadRefined == Load!Spec

(***************************************************************************)
(* Spec section 8, idempotence: finalize run twice on unchanged side      *)
(* tables emits the same resolved Service resources.  The second run      *)
(* re-resolves every stashed Service over the services table the first    *)
(* one wrote (finalize, lines 664-827).                                    *)
(***************************************************************************)
Emitted(after, before) ==
    SubSeq(after.elements, Len(before.elements) + 1, Len(after.elements))

FinalizeIdempotent ==
    ~crashed =>
        LET once == Finalize(Self)
        IN  Emitted(Finalize(once), once) = Emitted(once, Self)

\* Types, and spec section 3: every resource has a non-empty kind.
TypeOK ==
    /\ ocount \in Nat
    /\ filename \in STRING \cup {None}
    /\ saved \in Seq((STRING \cup {None}) \X Int)
    /\ crashed \in BOOLEAN
    /\ errors \in Seq(STRING)
    /\ \A i \in DOMAIN elements :
          elements[i].rkey \in STRING /\ elements[i].kind \in STRING \ {""}
    /\ DOMAIN k8s_endpoints \subseteq STRING
    /\ Len(k8s_services.keys) = Cardinality(DOMAIN k8s_services.val)
    /\ Len(services.keys) = Cardinality(DOMAIN services.val)

=============================================================================
