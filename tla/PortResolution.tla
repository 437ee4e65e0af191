--------------------------- MODULE PortResolution ---------------------------
(***************************************************************************)
(* The data transformations of ResourceFetcher that involve no fetcher     *)
(* state: how handle_k8s_endpoints turns one Endpoints subset into an      *)
(* address list and a dual-keyed port map, and how finalize resolves the   *)
(* ports and addresses of one Kubernetes Service against that entry.       *)
(* (src/ambassador/ambassador/config/resourcefetcher.py)                   *)
(*                                                                         *)
(* Python values: ints are TLC integers, strings are TLC strings, an       *)
(* absent dictionary key or None is the model value None.  Fields that may *)
(* hold an int or a string (a Service port's targetPort, a resolved target *)
(* port) are tagged: <<"int", n>> or <<"str", s>>.                         *)
(***************************************************************************)
EXTENDS Naturals, Sequences, FiniteSets, TLC, SequencesExt

CONSTANTS
    None,         \* Python None / an absent key
    PortNumbers   \* the port numbers that occur in the inputs

IntV(n) == <<"int", n>>
StrV(s) == <<"str", s>>

\* str(v) of an int-or-string value.
PyStr(v) == IF v[1] = "int" THEN ToString(v[2]) ELSE v[2]

\* Python truthiness of an int-or-string value: None, 0 and "" are false.
Truthy(v) == v # None /\ v # IntV(0) /\ v # StrV("")

\* str.isdigit() over the strings the model can produce.
IsDigitStr(s) == \E n \in PortNumbers : ToString(n) = s

EmptyDict == [k \in {} |-> None]

\* d[k] = v on a Python dict modelled as a function.
DictSet(d, k, v) == (k :> v) @@ d

(***************************************************************************)
(* handle_k8s_endpoints, per subset: the addresses kept and the port map.  *)
(***************************************************************************)

\* An address dict keeps the optional ip and nodeName it was given; it is
\* kept when it is not empty (len(addr) > 0), with or without an ip.
SubsetAddresses(subset) ==
    SelectSeq(subset.addresses, LAMBDA a : a.ip # None \/ a.nodeName # None)

\* port.get('protocol', 'TCP').upper() == 'TCP', over the spellings the
\* inputs use (None is an absent protocol).
IsTcp(proto) == proto \in {None, "TCP", "tcp"}

\* Only TCP ports with a number count; each is keyed by str(number) and,
\* when it has a name, by its name too.  A later port overwrites a key.
SubsetPortDict(subset) ==
    FoldLeft(LAMBDA d, p :
                IF ~IsTcp(p.protocol) \/ p.port = None THEN d
                ELSE LET byNum == DictSet(d, ToString(p.port), p.port)
                     IN  IF p.name # None /\ p.name # ""
                         THEN DictSet(byNum, p.name, p.port) ELSE byNum,
             EmptyDict, subset.ports)

(***************************************************************************)
(* finalize: the target port of one Service port spec.                     *)
(***************************************************************************)

\* port.get(attr) for attr in [ 'targetPort', 'name', 'port' ], as tagged
\* values, in the order finalize scans them.
ScanKeysPortFirst(p) ==
    <<IF p.port = None THEN None ELSE IntV(p.port),
      IF p.name = None THEN None ELSE StrV(p.name),
      p.targetPort>>

ScanKeys(p) ==
    <<p.targetPort,
      IF p.name = None THEN None ELSE StrV(p.name),
      IF p.port = None THEN None ELSE IntV(p.port)>>

\* The target port finalize records for service port p, or None when it
\* skips p (no source port, or no attribute present at all).
ResolveTargetPort(p, epPorts) ==
    LET srcPort  == IF p.port = None THEN None ELSE IntV(p.port)
        present  == SelectSeq(ScanKeys(p), Truthy)
        hits     == SelectSeq(present, LAMBDA k :
                        PyStr(k) \in DOMAIN epPorts /\ epPorts[PyStr(k)] # 0)
        numeric  == SelectSeq(present, LAMBDA k :
                        k # StrV("name") /\ IsDigitStr(PyStr(k)))
    IN  CASE ~Truthy(srcPort)               -> None
          [] Cardinality(DOMAIN epPorts) = 1 ->
                 IntV(epPorts[CHOOSE k \in DOMAIN epPorts : TRUE])
          [] present = <<>>                 -> None
          [] hits # <<>>                    -> IntV(epPorts[PyStr(Head(hits))])
          [] numeric # <<>>                 -> Head(numeric)
          [] OTHER                          -> srcPort

\* target_ports: source port -> target port, later specs overwriting.
ResolveTargetPorts(svcPorts, epPorts) ==
    FoldLeft(LAMBDA tp, p :
                LET t == ResolveTargetPort(p, epPorts)
                IN  IF t = None THEN tp ELSE DictSet(tp, p.port, t),
             EmptyDict, svcPorts)

(***************************************************************************)
(* finalize: the resolved Service for one k8s_services entry.              *)
(***************************************************************************)

\* The endpoint ips finalize uses; ep is the k8s_endpoints entry or None.
TargetAddrs(ep) ==
    IF ep = None THEN <<>>
    ELSE LET withIp == SelectSeq(ep.addresses, LAMBDA a : a.ip # None /\ a.ip # "")
         IN  [i \in 1..Len(withIp) |-> withIp[i].ip]

\* The 'endpoints' of the Service that finalize stores for k8s_services
\* entry svc under key (its name.namespace) given its Endpoints entry ep.
ResolvedEndpoints(key, svc, ep) ==
    LET usable  == ep # None /\ DOMAIN ep.ports # {}
        ports   == IF usable THEN ResolveTargetPorts(svc.ports, ep.ports)
                   ELSE EmptyDict
        addrs   == IF usable /\ TargetAddrs(ep) # <<>> THEN TargetAddrs(ep)
                   ELSE <<key>>
    IN  [src \in DOMAIN ports |->
            [i \in 1..Len(addrs) |-> [ip |-> addrs[i], port |-> ports[src]]]]

=============================================================================
