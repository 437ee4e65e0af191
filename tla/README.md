# TLA+ models of `ResourceFetcher`

This directory holds TLA+ models of `class ResourceFetcher` in
`src/ambassador/ambassador/config/resourcefetcher.py`. That class is the stage of
Ambassador that turns its configuration inputs into a flat list of resources
(`self.elements`):

- YAML files on disk;
- a watt snapshot of Kubernetes and Consul objects.

The models are checked with TLC.

## The system

The program is single-threaded. One fetch cycle makes a fixed sequence of
top-level calls, and each call runs to completion.

| Part | Code | State it changes |
|---|---|---|
| Source readers | `load_from_filesystem` (65-109), `parse_yaml` (111-124), `parse_json` (126-139), `parse_watt` (141-184) | call the handlers below in a fixed order, then `finalize` |
| Location tracker | `location`, `push_location`, `pop_location` (53-63) | `filename`, `ocount`, `saved` |
| Object classifier | `parse_object` (251-268), `process_object` (270-327), `handle_k8s` (186-208), `handle_k8s_crd` (210-249) | `elements`, `services`, the location, posted errors |
| Endpoints decoder | `handle_k8s_endpoints` (332-451) | `k8s_endpoints` |
| Service decoder | `handle_k8s_service` (453-516) | `k8s_services`, `filename` (the `:annotation` suffix); returns the annotation stream |
| Secret decoder | `handle_k8s_secret` (519-582) | returns one `Secret` object |
| Consul decoder | `handle_consul_service` (585-632) | `services` |
| Finalizer | `finalize` (634-827) | `services`, then one resource per `services` entry in `elements` |

How the parts interact:

- `handle_k8s` sends the objects a decoder returns back into `parse_object`, under the decoder's resource identifier `name.namespace`.
- A Service annotation is therefore a nested stream with its own location frame.
- `finalize` joins two side tables:
  - `k8s_services`, filled by the Service decoder;
  - `k8s_endpoints`, filled by the Endpoints decoder.

  It resolves each Service port to a target port and pod ips.

## Modules

### `PortResolution.tla`

Pure operators for the data transformations that touch no fetcher state.

- **Endpoints side:** the address filter and the dual-keyed TCP port map of one Endpoints subset (`SubsetAddresses`, `SubsetPortDict`).
- **`finalize` side:** the target-port resolution (`ResolveTargetPort`), which follows the scan of `targetPort`, `name` and `port`, the single-port rule and the fallback. Also the target addresses with the service-name fallback (`ResolvedEndpoints`).

Python values are represented as follows:

- A value that may be an int or a string is tagged: `IntV(n)` or `StrV(s)`.
- `None` and an absent key are the model value `None`.
- A dict is a function.

### `ResourceFetcher.tla`

The fetch cycle.

**Variables.** The variables are the attributes of the fetcher, plus:

- `errors`: the locations at which `aconf.post_error` was called;
- `crashed`: an exception escaped;
- `todo`: the queue of top-level calls still to make;
- `input`: a ghost copy of the calls the cycle was given.

**Ordered dicts.** `k8s_services` and `services` are ordered dicts (`PyDict`), because `finalize` iterates over them.

**Nested calls.** Every nested call is an operator from a fetcher record (`Self`) to a fetcher record, so one action composes a whole call tree. For example, `handle_k8s` → `handle_k8s_service` → `parse_object` → `process_object` → `push_location`/`pop_location`.

**Actions.** There are six actions, one per kind of top-level call:

- `ParseSerialization`: one call of `parse_yaml` or `parse_json`, with its `k8s`, `rkey`, `filename` and `finalize` arguments; a call that finalizes runs `finalize` in the same step. `load_from_filesystem` makes one such call per file, with `finalize=False`. A JSON text whose top level is one object is iterated by its keys (`JsonKeys`);
- `WattStart`: `parse_watt`'s sentinel checks and JSON decoding;
- `WattK8s`, `WattCrd` and `WattConsul`: the three loops of `parse_watt`;
- `FinalizeCall`.

**Calls in Init.** `ParseCall`, `FilesCalls` and `WattCalls` build the call queues in the order the readers make the calls. The input set `Inputs` is a constant, given by each MC module.

**Exceptions.** An exception sets `crashed`. The rest of the queue is dropped and the location frame is left unpopped, which is what the code does. Three are reachable: the `KeyError` for a nameless Service (line 315), the `KeyError` for a Consul endpoint without `ID` (line 617), and the `AttributeError` of `handle_k8s` on the keys of a JSON object (line 189).

### `AbstractLoad.tla`

The abstract specification: what a fetch cycle promises about the documents
it is given (spec sections 3, 4.1, 4.2, 4.5 and 7), stated without a
location stack. Each top-level call (`Process(op)`) appends at once:

- `out`: the `[rkey, kind]` of every resource built from its documents, in
  document order;
- `errs`: its diagnostics.

Keys and diagnostic locations are defined by position:

- `Ordinal(objs, i)` counts the documents before `i` that are not directives;
- `SourceAt` is the label of the last relabelling directive before `i`;
- `BaseAt` adds the `:annotation` marker from the first annotated Service of a
  Kubernetes stream on.

A malformed document posts a diagnostic at its location. A parse failure of a
file, a snapshot or an annotation posts one and contributes nothing.

`ResourceFetcher` defines the refinement mapping:

```
Load == INSTANCE AbstractLoad WITH out <- DocumentResources, errs <- errors, pending <- todo
LoadRefined == Load!Spec
```

`DocumentResources` is `elements` without the entries `finalize` appends. The
queue of calls is left free in the abstract `Init`; the detailed `Init` fixes it.

### MC modules

Each MC module is an input environment plus its properties.

| Module | Input |
|---|---|
| `MCResolution` | consistent Kubernetes Services and their controller-made Endpoints, with every mix of port names, numbers and targetPorts for one and two ports |
| `MCFiles` | two files: app YAML built from Mappings, Pragmas with and without a source, a Pragma for another Ambassador, foreign-id, kind-less, empty-kind and non-dict documents, or `k8s=True` YAML with one or two annotated Services (one annotation holds a kind-less document); the second file may be unparseable. Or two public `parse_yaml`/`parse_json` calls on one fetcher: app texts (Mapping, Pragma, a `kind: Service` document, a non-dict, an undecodable text) or a `k8s=True` text with an annotated Service, each with `rkey` None, empty or set, with and without a filename, finalizing or not. `MCInputsJsonObject` adds a JSON text holding one object |
| `MCWatt` | watt snapshots: Services (annotated, foreign namespace), one or two Endpoints objects with one or two subsets of four kinds, Secrets, CRDs and a Consul entry, with `single_namespace` on |
| `MCEndpointPorts` | a Service and Endpoints that need not agree, including addresses with only a nodeName |
| `MCServiceKeys` | Services whose names and namespaces contain dashes |
| `MCSnapshot` | watt snapshots with each sentinel file present or absent, an undecodable snapshot, annotated Services (Pragma, kind-less and foreign documents; nameless; other namespace), Secrets of three types with crt/key present or absent, Mapping and Pragma CRDs, a Consul service; a second input set whose annotation does not parse |
| `MCAbort` | files in which a `kind: Service` document may lack its name |

## Runs

| Run | Expect | What it shows |
|---|---|---|
| `resolution` (`MCResolution.cfg`) | pass | `ResolutionMatchesKubeProxy`: on consistent data every Service port goes to every pod ip at the port kube-proxy would use. The one exception is a named targetPort that is also another Service port's name. |
| `cross_named_target_port` (`MCResolutionCross.cfg`) | violation | Without that exception, the property fails (line 749). |
| `files` (`MCFiles.cfg`) | pass | See below. |
| `watt_refinement` (`MCSnapshot.cfg`) | pass | `LoadRefined`: `parse_watt` implements `AbstractLoad`, including the sentinel and JSON-error diagnostics and the Secret filters. |
| `annotation_parse_error` (`MCSnapshotBadAnnotation.cfg`) | violation | An annotation that does not parse posts no diagnostic (line 514), where spec section 7 requires one. |
| `watt_endpoints` (`MCWatt.cfg`) | pass | `LastRoutableSubsetServes`: the resolved Service uses exactly the ips of the last routable subset over all Endpoints objects for it, or no endpoints at all. `FinalizeIdempotent` (spec section 8): in every reachable state, a second `finalize` emits the same resolved Service resources as the first. |
| `rkey_collision` (`MCWattKeys.cfg`) | violation | `ResourceKeysUnique` fails: resources from a CRD, a Service annotation and a Secret with the same `name.namespace` all get keys `svc.default.1`. The trace pairs the Mapping CRD with the Secret or with the annotation's Mapping, whichever TLC reaches first. |
| `single_endpoint_port` (`MCEndpointPortsSingle.cfg`) | violation | The single-port rule the comment at line 690 states misses a single *named* port, because it has two keys in the port map. |
| `ipless_endpoints` (`MCEndpointPortsIpless.cfg`) | violation | nodeName-only addresses are kept, and the service-name fallback still gets the pod's target port. This differs from spec 4.3 and 4.8. |
| `service_key_collision` (`MCServiceKeys.cfg`) | violation | Services `a-b`/`c` and `a`/`b-c` share the key `k8s-a-b-c`, and one of them is lost. |
| `nameless_service_aborts` (`MCAbort.cfg`) | violation | A nameless `kind: Service` document aborts the whole load. This differs from spec section 7. |
| `json_object_keys` (`MCFilesJsonObject.cfg`) | violation | `LoadRefined`: `parse_json` of a text holding one JSON object iterates its keys and posts each as a non-dict (line 136); with `k8s=True` it raises `AttributeError`. |

The `files` run checks two properties:

- `TypeOK`, which includes spec section 3: every resource has a non-empty kind;
- `LoadRefined`: `load_from_filesystem` and the public `parse_yaml`/`parse_json` calls implement `AbstractLoad`, including the `not rkey` fallback to the filename for an empty `rkey`. Every resource key and diagnostic location is the positional one, across files, Pragmas (also filtered ones, which do count), annotation streams and the `:annotation` marker.

Each property of a passing run has a mutant in `PROJECT.json`. A mutant is a plausible bug in the mapped code, and TLC must find the property violated with it. The mutants are:

- scanning `port` before `targetPort`;
- skipping `from_dict`'s kind check;
- not counting directives;
- a Pragma that does not give back its ordinal;
- storing a subset without addresses;
- a Secret that needs both `tls.crt` and `tls.key`;
- `if rkey is None` in place of `if not rkey`, so an empty `rkey` gives keys `.1`, `.2`;
- a `finalize` that pops each Service's Endpoints entry as it resolves it (breaks `FinalizeIdempotent`).

## Bounds

Inputs are small sets of model-level documents. They are chosen so that every branch of every handler is taken:

- 1–2 files or API calls of up to 3 documents;
- 1–2 ports;
- 1–2 Endpoints objects of 1–2 subsets;
- port numbers drawn from a handful of values.

The bugs above need at most two ports, two subsets or two files. The passing runs reach between 1.9k and 180k distinct states in seconds.

## Fairness and deadlock

A fetch cycle is a batch that ends after its last call, or after an exception. Every cfg therefore sets `CHECK_DEADLOCK FALSE`: a stopped cycle is the normal end.

No fairness is assumed and no liveness property is stated. Every step takes one call off a finite queue, or the whole queue on an exception, and `finalize` writes every stashed Service unconditionally (line 802). An eventual property would therefore hold by the shape of the queue, not because of the code. The abstract specification is checked as a safety refinement.

## Not modelled

- **I/O:** the directory walk and file reading (`IOError` at line 105). The sentinel files are an input: the set of those present.
- **Message texts:** the sentinel diagnostics are recorded by the file's name.
- **Read-only code:** `sorted` (lines 329-330) returns Python's `sorted` of `elements` by `rkey`. It changes no state, and the ordering it applies is the library's, not code of this repository.
- **Kind spelling:** `handle_k8s` looks its handler up as `handle_k8s_{kind.lower()}`. The model dispatches `Service`, `Endpoints`, `Secret`, and `crd`/`CRD` (which reaches `handle_k8s_crd`), but not other case spellings of the first three.
- **Protocol spelling:** `.upper()` of an Endpoints port's protocol is modelled over the spellings `TCP`, `tcp` and an absent protocol, which defaults to TCP.
- **Abstracted data:** `targetRef` details, certificate data and message texts. An error is recorded as its location.

## Divergences shown by passing runs

- **Filtered Pragmas count.** A Pragma for another `ambassador_id` consumes an ordinal (lines 280, 266). `LoadRefined` holds in the `files` run only because `AbstractLoad` counts such Pragmas. Spec section 8 says directives never do.
- **No Endpoints, no route.** A Service without a routable Endpoints subset gets an empty endpoints map (lines 706, 791), as `LastRoutableSubsetServes` states and the `watt_endpoints` run confirms. Spec section 8 asks for the address list `[name.namespace]`.

## Plan for later work

- **Several finalizing calls:** `parse_yaml`/`parse_json` finalize by default (lines 123, 138). A second call then appends its documents after the first call's services resources, and the services resources again. `FinalizeIdempotent` checks that the re-run emits the same resources; no run states an order across calls.
- **Duplicate Services:** a later Service without ports leaves an earlier stash of the same `name.namespace` in `k8s_services` (line 496).
- **Order of the finalize group:** Consul entries are written during `parse_watt` (line 630), before `finalize` adds the Kubernetes Services met earlier (line 802).

- **Extend `AbstractLoad` to `finalize`:** the services resources, in `services` order, after the document resources.
