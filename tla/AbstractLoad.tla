---------------------------- MODULE AbstractLoad ----------------------------
(***************************************************************************)
(* What a fetch cycle promises about the documents it is given (spec      *)
(* sections 3, 4.1, 4.2, 4.5 and 7), stated per top-level call and without *)
(* a location stack: each call appends, at once, the resources and the     *)
(* diagnostics of its documents, in document order.                        *)
(*                                                                         *)
(*  - a resource's key is "<label>.<n>": the identifier of the Kubernetes  *)
(*    object or CRD it came from, else the source label in force; n is its *)
(*    position in its stream, directives not counted;                      *)
(*  - a directive with a source relabels the rest of its stream;           *)
(*  - a malformed document (not a dict, no kind, empty kind) posts a       *)
(*    diagnostic at "<label>.<n>" and the batch goes on;                   *)
(*  - a parse failure, of a file, of a snapshot or of an annotation,      *)
(*    posts a diagnostic and contributes nothing;                          *)
(*  - annotation streams are labelled with the ":annotation" marker from  *)
(*    the first annotated Service of a stream on;                          *)
(*  - Service documents and Consul entries feed the services table and     *)
(*    finalize, not this sequence.                                         *)
(* A call is a record of the kind ResourceFetcher's ParseCall, FilesCalls *)
(* and WattCalls build; the queue of calls is left free in Init.  A parse *)
(* call's `objects` are the documents of its text, whatever the top-level *)
(* shape of the text: a JSON object is one document.                      *)
(***************************************************************************)
EXTENDS Naturals, Sequences, FiniteSets, TLC, SequencesExt

CONSTANTS None, NotADict, Unparseable, AmbassadorId, SingleNamespace,
          AmbassadorNamespace

VARIABLES
    out,      \* [rkey, kind] of every resource built from a document
    errs,     \* the diagnostics posted, as locations or marker names
    pending   \* the top-level calls still to make

avars == <<out, errs, pending>>

Loc(label, n) ==
    (IF label = None THEN "anonymous YAML" ELSE label) \o "." \o ToString(n)
Key(label, n) == (IF label = None THEN "None" ELSE label) \o "." \o ToString(n)

(***************************************************************************)
(* One stream of application documents.                                    *)
(***************************************************************************)
Ours(o) ==
    AmbassadorId \in (IF o.ambassador_id = None THEN {"default"} ELSE o.ambassador_id)
Directive(o)  == o # NotADict /\ Ours(o) /\ o.kind = "Pragma"
Relabels(o)   == Directive(o) /\ o.source \notin {None, ""}
Malformed(o)  == o = NotADict \/ (Ours(o) /\ o.kind \in {None, ""})
IsResource(o) == o # NotADict /\ Ours(o) /\ o.kind \notin {None, "", "Pragma", "Service"}

Ordinal(objs, i) == 1 + Cardinality({j \in 1..(i - 1) : ~Directive(objs[j])})

SourceAt(objs, i, base) ==
    LET r == {j \in 1..(i - 1) : Relabels(objs[j])}
    IN  IF r = {} THEN base ELSE objs[Max(r)].source

\* The positions of the documents of objs that satisfy P, in order.
Positions(objs, P(_)) == SelectSeq([i \in 1..Len(objs) |-> i], LAMBDA i : P(objs[i]))

NoOutcome == [out |-> <<>>, errs |-> <<>>]
Join(a, b) == [out |-> a.out \o b.out, errs |-> a.errs \o b.errs]

StreamOutcome(objs, rkey, base) ==
    LET res == Positions(objs, IsResource)
        bad == Positions(objs, Malformed)
    IN  [out  |-> [k \in 1..Len(res) |->
                     [rkey |-> Key(IF rkey \in {None, ""} THEN SourceAt(objs, res[k], base) ELSE rkey,
                                   Ordinal(objs, res[k])),
                      kind |-> objs[res[k]].kind]],
         errs |-> [k \in 1..Len(bad) |->
                     Loc(SourceAt(objs, bad[k], base), Ordinal(objs, bad[k]))]]

(***************************************************************************)
(* A stream of Kubernetes objects.                                         *)
(***************************************************************************)
Namespace(o) == IF o.namespace = None THEN "default" ELSE o.namespace
Admitted(o)  == o.name # None /\ ~(SingleNamespace /\ Namespace(o) # AmbassadorNamespace)
Rid(o)       == o.name \o "." \o Namespace(o)

Annotated(o) == o.kind = "Service" /\ Admitted(o) /\ o.annotation # None
ShipsSecret(o) ==
    /\ o.kind = "Secret" /\ Admitted(o)
    /\ o.type \in {"kubernetes.io/tls", "Opaque"}
    /\ o.data # None /\ (o.data.crt # None \/ o.data.key # None)

\* The label of the stream at object j, marked from the first annotation on.
BaseAt(objs, j, base) ==
    IF base # None /\ \E i \in 1..j : Annotated(objs[i])
    THEN base \o ":annotation" ELSE base

ObjectOutcome(objs, j, base) ==
    LET o == objs[j]
        b == BaseAt(objs, j, base)
    IN  CASE Annotated(o) /\ o.annotation = Unparseable -> [NoOutcome EXCEPT !.errs = <<Loc(b, 1)>>]
          [] Annotated(o)   -> StreamOutcome(o.annotation, Rid(o), b)
          [] ShipsSecret(o) -> [NoOutcome EXCEPT !.out = <<[rkey |-> Rid(o) \o ".1", kind |-> "Secret"]>>]
          [] OTHER          -> NoOutcome

K8sOutcome(objs, base) ==
    FoldLeft(LAMBDA acc, j : Join(acc, ObjectOutcome(objs, j, base)),
             NoOutcome, [j \in 1..Len(objs) |-> j])

CrdOutcome(o) ==
    IF o.kind = None \/ o.name = None \/ o.apiVersion = None THEN NoOutcome
    ELSE StreamOutcome(<<[kind |-> o.kind, ambassador_id |-> o.spec.ambassador_id,
                          source |-> None]>>, Rid(o), None)

(***************************************************************************)
(* One top-level call.                                                     *)
(***************************************************************************)
CallOutcome(c) ==
    CASE c.op = "parse" /\ c.objects = Unparseable -> [NoOutcome EXCEPT !.errs = <<Loc(None, 1)>>]
      [] c.op = "parse" /\ c.k8s -> K8sOutcome(c.objects, c.name)
      [] c.op = "parse"          -> StreamOutcome(c.objects, c.rkey, c.name)
      [] c.op = "watt"          ->
            [NoOutcome EXCEPT !.errs =
                SelectSeq(<<"ignore_crds", "ignore_crds_2">>, LAMBDA f : f \in c.ignored)
                \o (IF c.malformed THEN <<Loc(None, 1)>> ELSE <<>>)]
      [] c.op = "k8s"           -> K8sOutcome(<<c.obj>>, None)
      [] c.op = "crd"           -> CrdOutcome(c.obj)
      [] OTHER                  -> NoOutcome

\* The calls are the environment's: any queue of them may be pending.
Init ==
    /\ out = <<>>
    /\ errs = <<>>

Process(op) ==
    /\ pending # <<>>
    /\ Head(pending).op = op
    /\ LET r == CallOutcome(Head(pending))
       IN  /\ out' = out \o r.out
           /\ errs' = errs \o r.errs
    /\ pending' = Tail(pending)

Ops == {"parse", "watt", "k8s", "crd", "consul", "finalize"}

Next == \E op \in Ops : Process(op)

Spec == Init /\ [][Next]_avars
=============================================================================
