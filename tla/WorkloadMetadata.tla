-------------------------- MODULE WorkloadMetadata --------------------------
(***************************************************************************)
(* Where the collector takes the names of containers from                  *)
(* (runtime_metadata.go, cgroup.go): the cached catalog with its refresh   *)
(* from CRI sockets and from the files of Docker and OCI, the logs, and    *)
(* the workload each cgroup is published as.                               *)
(*                                                                         *)
(* Modelled: each call to each endpoint with its failure and the common    *)
(* deadline, the order in which results arrive, files and log directories  *)
(* that cannot be read, all merges, the age of the catalog, lookups by a   *)
(* part of an ID, and containers and endpoints that come and go.           *)
(*                                                                         *)
(* Abstracted: namespace and Pod are one field, as they come from the same *)
(* places; what a cgroup path or a file says of a container is a fact      *)
(* about it.  Time passes in ticks, between snapshots and during calls.    *)
(***************************************************************************)
EXTENDS Integers, Sequences, FiniteSets

CONSTANTS
  Container,  \* container IDs
  Id,         \* these and parts of them, as cgroup paths may show them
  Fits,       \* Fits[i]: the containers whose ID begins with i, or i with it
  Facts,      \* what is true of a container, and where it is written
  Path,       \* positions in the list of CRI sockets
  Target,     \* the socket behind a path, symbolic links followed
  Hint,       \* runtimeForEndpoint: the runtime a path's name tells
  Serves,     \* the containers of a path's daemon
  Runtime,    \* names of runtimes
  TTL,        \* ticks for which a catalog is used
  Timeout     \* ticks an endpoint has for its three calls

NoText == "none"  \* stands for the empty string of the code

(* A container has a Pod or none (NoText), a name, and perhaps another one *)
(* in its runtime's own files.  Its cgroup path shows an ID that is found  *)
(* by its form ("runtime", "kubepods") or only with the catalog            *)
(* ("private"), with or without the Pod's UID.  Labels are there if        *)
(* kubelet made it.                                                        *)
Fact == [pod : STRING, name : STRING, fileName : STRING, runtime : Runtime,
         shown : Id, form : {"runtime", "kubepods", "private"}, uid : BOOLEAN,
         labels : BOOLEAN, files : SUBSET {"docker", "oci"},
         logs : SUBSET {"pod", "container"}]

\* The IDs of containers are no beginnings of each other.
ASSUME MetadataAssumption ==
  /\ IsFiniteSet(Container) /\ Container \subseteq Id
  /\ Fits \in [Id -> SUBSET Container]
  /\ \A c \in Container : Fits[c] = {c}
  /\ Path \subseteq Nat /\ IsFiniteSet(Path)
  /\ Serves \in [Path -> SUBSET Container]
  /\ \A p \in Path : \A c \in Serves[p] : Hint[p] \in {"cri", Facts[c].runtime}
  /\ TTL \in Nat \ {0} /\ Timeout \in Nat \ {0}
  /\ {NoText, "cri"} \cap Runtime = {}
  /\ \A c \in Container : /\ Facts[c] \in Fact
                          /\ Facts[c].name # NoText /\ Facts[c].fileName # NoText
                          /\ c \in Fits[Facts[c].shown]

\* The list of sockets has each daemon once, under its first path.
Endpoint == {p \in Path : \A q \in Path : q < p => Target[q] # Target[p]}

VARIABLES
  life,      \* each container: "new", "alive", "gone"
  health,    \* each endpoint: "up", or "failing"
  step,      \* where LoadSystemResolver is
  logs,      \* the containers whose Pod directory, whose log file was read
  catalog,   \* the cached items; during a refresh, the items put together so far
  fresh,     \* ticks until expires
  call,      \* each endpoint's next call, or "done"; "none" outside a refresh
  left,      \* ticks until the calls' deadline
  answer,    \* what each endpoint has answered so far
  arrived,   \* the results channel: endpoints in the order they finished
  published, \* the workloads of the last snapshot
  files      \* history: the containers read from the files of each kind

world     == <<life, health>>
refresh   == <<call, left, answer, arrived, files>>
progress  == <<step, call, arrived>>
cache     == <<catalog, fresh>>
vars      == <<world, step, logs, refresh, cache, published>>

Nobody == [listed |-> {}, sandboxes |-> {}, version |-> FALSE]
Nowhere == [docker |-> {}, oci |-> {}]
Alive == {c \in Container : life[c] = "alive"}
NoLogs == [pod |-> {}, container |-> {}]
NoCalls == [e \in Endpoint |-> "none"]
NoAnswers == [e \in Endpoint |-> Nobody]

-----------------------------------------------------------------------------
(* Workloads and how they are merged.                                      *)

Blank == [scope |-> NoText, runtime |-> NoText, pod |-> NoText, name |-> NoText, id |-> NoText]

\* As if a source's empty fields replaced what another one knew.
Overwrite(old, new) == new

Richer(old, new) == IF new = NoText THEN old ELSE new

\* As if the last source decided, and as if the placeholder were a runtime.
MergeScopeLast(old, new) == Richer(old, new)
MergeRuntimeAlways(old, new) == Richer(old, new)

\* A Pod is not demoted to a container; "cri" is not the name of a runtime.
MergeScope(old, new) == IF new = "pod" \/ (new # NoText /\ old # "pod") THEN new ELSE old
MergeRuntime(old, new) == IF new \in {NoText, "cri"} THEN old ELSE new

MergeWorkload(target, source) ==
  [scope   |-> MergeScope(target.scope, source.scope),
   runtime |-> MergeRuntime(target.runtime, source.runtime),
   pod     |-> Richer(target.pod, source.pod),
   name    |-> Richer(target.name, source.name),
   id      |-> Richer(target.id, source.id)]

\* mergeCatalogItem for each of the workloads a source has, by container.
AddItems(to, workloads) ==
  [c \in DOMAIN to \cup DOMAIN workloads |->
     IF c \notin DOMAIN workloads THEN to[c]
     ELSE MergeWorkload(IF c \in DOMAIN to THEN to[c] ELSE Blank, workloads[c])]

\* A workload of a source: a Pod's container if the source knows the Pod.
Said(c, runtime, pod, name) ==
  [scope |-> IF pod # NoText THEN "pod" ELSE "container",
   runtime |-> runtime, pod |-> pod, name |-> name, id |-> c]

LabelledPod(c) == IF Facts[c].labels THEN Facts[c].pod ELSE NoText

\* The containers an endpoint has listed.  The Pod is in the labels or comes
\* from the sandbox; without an answer to Version the path tells the runtime.
WorkloadsFromCRI(e) ==
  [c \in answer[e].listed |->
     Said(c, IF answer[e].version THEN Facts[c].runtime ELSE Hint[e],
             IF c \in answer[e].sandboxes THEN Facts[c].pod ELSE LabelledPod(c),
             Facts[c].name)]

WorkloadsFromFiles(read) ==
  [c \in read |->
     Said(c, Facts[c].runtime, LabelledPod(c),
             IF Facts[c].labels THEN Facts[c].name ELSE Facts[c].fileName)]

\* As if any container would do that the ID fits.
LookupAny(id) ==
  IF Fits[id] \cap DOMAIN catalog = {} THEN {}
  ELSE {CHOOSE c \in Fits[id] \cap DOMAIN catalog : TRUE}

\* Catalog.Lookup: the container itself, or the only one the ID fits.
Lookup(id) ==
  IF id \in DOMAIN catalog THEN {id}
  ELSE LET matches == Fits[id] \cap DOMAIN catalog
       IN  IF Cardinality(matches) = 1 THEN matches ELSE {}

-----------------------------------------------------------------------------
(* The host.                                                               *)

StartContainer(c) ==
  /\ life[c] = "new"
  /\ life' = [life EXCEPT ![c] = "alive"]
  /\ UNCHANGED <<health, step, logs, refresh, cache, published>>

RemoveContainer(c) ==
  /\ life[c] = "alive"
  /\ life' = [life EXCEPT ![c] = "gone"]
  /\ UNCHANGED <<health, step, logs, refresh, cache, published>>

\* An endpoint that fails does so at some calls or at all of them; if it stops
\* failing, it does so for good.
Recover(e) ==
  /\ health[e] = "failing"
  /\ health' = [health EXCEPT ![e] = "up"]
  /\ UNCHANGED <<life, step, logs, refresh, cache, published>>

\* Snapshots are at least a tick apart.  An endpoint that is up answers in less
\* than a tick; no call outlives the deadline; other steps take no time.
Tick ==
  /\ \/ step \in {"waiting", "due"}
     \/ step = "calls" /\ left > 0 /\ \A e \in Endpoint : call[e] # "done" => health[e] # "up"
  /\ fresh' = IF fresh = 0 THEN 0 ELSE fresh - 1
  /\ left' = IF step = "calls" THEN left - 1 ELSE left
  /\ step' = IF step = "calls" THEN "calls" ELSE "due"
  /\ UNCHANGED <<world, logs, call, answer, arrived, files, catalog, published>>

-----------------------------------------------------------------------------
(* A snapshot: the logs, the catalog, then the cgroups.                    *)

\* A directory that cannot be read, or only in part, has the entries that were
\* read until then: the error is not looked at.
LoadLogs ==
  /\ step = "due"
  /\ step' = "catalog"
  /\ \E pods \in SUBSET {c \in Alive : "pod" \in Facts[c].logs} :
     \E containers \in SUBSET {c \in Alive : "container" \in Facts[c].logs} :
       logs' = [pod |-> pods, container |-> containers]
  /\ UNCHANGED <<world, refresh, cache, published>>

\* As if a catalog did not expire.
UsableForever == catalog # <<>>

Usable == fresh > 0

UseCache ==
  /\ step = "catalog" /\ Usable
  /\ step' = "scan"
  /\ UNCHANGED <<world, logs, refresh, cache, published>>

\* The catalog is made anew; the old one is not looked at again.
BeginRefresh ==
  /\ step = "catalog" /\ ~Usable
  /\ step' = "calls"
  /\ call' = [e \in Endpoint |-> "containers"]
  /\ answer' = NoAnswers
  /\ left' = Timeout
  /\ arrived' = <<>> /\ files' = Nowhere
  /\ catalog' = <<>>
  /\ UNCHANGED <<world, logs, fresh, published>>

Pending(e, name) == step = "calls" /\ call[e] = name

\* The call returns: an answer before the deadline, or an error.
MayAnswer(e) == left > 0
MayFail(e) == left = 0 \/ health[e] # "up"

Finish(e) == call' = [call EXCEPT ![e] = "done"] /\ arrived' = Append(arrived, e)

ListContainers(e) ==
  /\ Pending(e, "containers")
  /\ \/ /\ MayAnswer(e)
        /\ answer' = [answer EXCEPT ![e].listed = Serves[e] \cap Alive]
        /\ call' = [call EXCEPT ![e] = "pods"]
        /\ UNCHANGED arrived
     \/ MayFail(e) /\ Finish(e) /\ UNCHANGED answer
  /\ UNCHANGED <<world, step, logs, left, files, cache, published>>

\* ListPodSandbox and Version: the result is what has been answered.
DescribeContainers(e) ==
  /\ Pending(e, "pods")
  /\ \E sandboxes, version \in BOOLEAN :
       /\ sandboxes \/ version => MayAnswer(e)
       /\ ~(sandboxes /\ version) => MayFail(e)
       /\ answer' = [answer EXCEPT
            ![e].sandboxes = IF sandboxes THEN Serves[e] \cap Alive ELSE {},
            ![e].version   = version]
  /\ Finish(e)
  /\ UNCHANGED <<world, step, logs, left, files, cache, published>>

\* When all have finished, their results are merged in the order they came.
AllIn == step = "calls" /\ \A e \in Endpoint : call[e] = "done"

MergeResult ==
  /\ AllIn /\ arrived # <<>>
  /\ catalog' = AddItems(catalog, WorkloadsFromCRI(Head(arrived)))
  /\ arrived' = Tail(arrived)
  /\ UNCHANGED <<world, step, logs, call, left, answer, files, fresh, published>>

\* A file that is being written, or is gone, is skipped.
ReadFiles(kind) ==
  \E read \in SUBSET {c \in Alive : kind \in Facts[c].files} :
    /\ catalog' = AddItems(catalog, WorkloadsFromFiles(read))
    /\ files' = [files EXCEPT ![kind] = read]

LoadDocker ==
  /\ AllIn /\ arrived = <<>>
  /\ ReadFiles("docker")
  /\ step' = "oci"
  /\ UNCHANGED <<world, logs, call, left, answer, arrived, fresh, published>>

\* The last source, and the new catalog is complete.
LoadOCI ==
  /\ step = "oci"
  /\ ReadFiles("oci")
  /\ fresh' = TTL
  /\ step' = "scan"
  /\ UNCHANGED <<world, logs, call, left, answer, arrived, published>>

-----------------------------------------------------------------------------
(* workloadForPath for the cgroup of a container.                          *)

InPath(c) == [Blank EXCEPT !.scope = IF Facts[c].uid THEN "pod" ELSE "container",
                           !.id = Facts[c].shown]

FromPath(c) ==
  CASE Facts[c].form = "runtime"  -> [InPath(c) EXCEPT !.runtime = Facts[c].runtime]
    [] Facts[c].form = "kubepods" -> [InPath(c) EXCEPT !.runtime = "cri"]
    [] Facts[c].form = "private"  -> [InPath(c) EXCEPT !.scope = "container"]

\* The catalog adds to the path, the logs replace what both have said; of the
\* log files the first one counts that the ID fits.
FromCatalog(c) ==
  LET found == Lookup(Facts[c].shown)
  IN  IF found = {} THEN FromPath(c)
      ELSE MergeWorkload(FromPath(c), catalog[CHOOSE f \in found : TRUE])

HasPodLog(c) == Facts[c].uid /\ Facts[c].form # "private" /\ c \in logs.pod

WorkloadForPath(c) ==
  LET fitting == Fits[Facts[c].shown] \cap logs.container
      log     == CHOOSE f \in fitting : TRUE
  IN  IF Facts[c].form = "private" /\ Lookup(Facts[c].shown) = {}
      THEN [Blank EXCEPT !.scope = "host"]
      ELSE IF fitting # {}
      THEN [FromCatalog(c) EXCEPT !.pod = Facts[log].pod, !.name = Facts[log].name, !.scope = "pod"]
      ELSE IF HasPodLog(c)
      THEN [FromCatalog(c) EXCEPT !.pod = Facts[c].pod, !.scope = "pod"]
      ELSE FromCatalog(c)

\* The cgroups of the processes there are.
Scan ==
  /\ step = "scan"
  /\ step' = "waiting"
  /\ published' = [c \in Alive |-> WorkloadForPath(c)]
  /\ call' = NoCalls /\ left' = 0 /\ answer' = NoAnswers
  /\ arrived' = <<>> /\ files' = Nowhere
  /\ logs' = NoLogs
  /\ UNCHANGED <<world, catalog, fresh>>

-----------------------------------------------------------------------------
Init ==
  /\ life = [c \in Container |-> "new"]
  /\ health \in [Endpoint -> {"up", "failing"}]
  /\ step = "waiting"
  /\ logs = NoLogs
  /\ catalog = <<>> /\ fresh = 0
  /\ call = NoCalls /\ left = 0 /\ answer = NoAnswers
  /\ arrived = <<>> /\ files = Nowhere
  /\ published = <<>>

CollectorStep ==
  \/ \E e \in Endpoint : ListContainers(e) \/ DescribeContainers(e)
  \/ LoadLogs \/ UseCache \/ BeginRefresh \/ LoadDocker \/ MergeResult \/ LoadOCI \/ Scan

Next ==
  \/ CollectorStep
  \/ Tick
  \/ \E c \in Container : StartContainer(c) \/ RemoveContainer(c)
  \/ \E e \in Endpoint : Recover(e)

Spec == Init /\ [][Next]_vars /\ WF_progress(CollectorStep) /\ WF_vars(Tick)

-----------------------------------------------------------------------------
(* Properties.                                                             *)

\* The fields have their types; an item of the catalog is a container or a
\* Pod, carries the ID it is found under, and never the placeholder runtime.
CatalogType(cat) ==
  /\ DOMAIN cat \subseteq Container
  /\ \A c \in DOMAIN cat :
       /\ cat[c].scope \in {"container", "pod"} /\ cat[c].id = c
       /\ cat[c].runtime \in Runtime \cup {NoText}

TypeOK ==
  /\ life \in [Container -> {"new", "alive", "gone"}]
  /\ health \in [Endpoint -> {"up", "failing"}]
  /\ step \in {"waiting", "due", "catalog", "calls", "oci", "scan"}
  /\ logs \in [pod : SUBSET Container, container : SUBSET Container]
  /\ CatalogType(catalog)
  /\ fresh \in 0..TTL /\ left \in 0..Timeout
  /\ call \in [Endpoint -> {"containers", "pods", "done", "none"}]
  /\ answer \in [Endpoint -> [listed : SUBSET Container, sandboxes : SUBSET Container,
                              version : BOOLEAN]]
  /\ arrived \in Seq(Endpoint)
  /\ files \in [{"docker", "oci"} -> SUBSET Container]
  /\ DOMAIN published \subseteq Container

\* A refresh has ended in this snapshot: no catalog that is only used is as new.
Refreshed == step = "scan" /\ fresh = TTL

\* What a refresh leaves in the catalog is all that was answered to it and
\* read by it, whatever failed besides and in whatever order results arrived:
\* a container is there if any source has it, with its Pod if any source
\* knows it, and with the name of the last kind of source.
ListedBy(c) == {e \in Endpoint : c \in answer[e].listed}
PodKnown(c) ==
  /\ Facts[c].pod # NoText
  /\ \/ Facts[c].labels
     \/ \E e \in ListedBy(c) : c \in answer[e].sandboxes
ReadFrom(c) == {k \in {"docker", "oci"} : c \in files[k]}
NameKnown(c) ==
  IF ReadFrom(c) # {} /\ ~Facts[c].labels THEN Facts[c].fileName ELSE Facts[c].name
RuntimeKnown(c) ==
  \/ ReadFrom(c) # {}
  \/ \E e \in ListedBy(c) : answer[e].version \/ Hint[e] # "cri"

AnswersMerged ==
  Refreshed =>
    /\ DOMAIN catalog = {c \in Container : ListedBy(c) # {} \/ ReadFrom(c) # {}}
    /\ \A c \in DOMAIN catalog :
         /\ catalog[c].pod = IF PodKnown(c) THEN Facts[c].pod ELSE NoText
         /\ catalog[c].scope = IF PodKnown(c) THEN "pod" ELSE "container"
         /\ catalog[c].name = NameKnown(c)
         /\ catalog[c].runtime = IF RuntimeKnown(c) THEN Facts[c].runtime ELSE NoText

\* A container is never published under the Pod or the name of another one,
\* although lookups accept a part of an ID: the exception is a path that shows
\* so little of it that it fits another one, and that one is listed while the
\* container itself is not, or it has a log, whatever the catalog says.
Similar(c) == Fits[Facts[c].shown] \ {c}
Mistakable(c) ==
  \/ c \notin DOMAIN catalog /\ Similar(c) \cap DOMAIN catalog # {}
  \/ Similar(c) \cap logs.container # {}

NeverInvented ==
  step = "scan" => \A c \in Alive : ~Mistakable(c) =>
    LET w == WorkloadForPath(c)
    IN  /\ w.pod \in {NoText, Facts[c].pod}
        /\ w.name \in {NoText, Facts[c].name, Facts[c].fileName}
        /\ w.scope = "host" => Facts[c].form = "private"

\* From one snapshot to the next a container loses its runtime only in a refresh
\* in which a source that has it failed; its Pod, its name or its scope, besides,
\* in a snapshot for which its logs were not read, but not even then in a refresh
\* in which nothing failed, if any source tells the Pod.
Failed(c) ==
  \/ \E e \in Endpoint :
       /\ c \in Serves[e]
       /\ ~(c \in answer[e].listed /\ c \in answer[e].sandboxes /\ answer[e].version)
  \/ \E k \in Facts[c].files : c \notin files[k]

LogsUnread(c) == \E k \in Facts[c].logs : c \notin logs[k]

Told(c) ==
  /\ Facts[c].pod # NoText
  /\ (Facts[c].labels /\ Facts[c].files # {}) \/ \E e \in Endpoint : c \in Serves[e]

RuntimeLost(new, old) == new.runtime \in {NoText, "cri"} /\ old.runtime \notin {NoText, "cri"}

NamesLost(new, old) ==
  \/ new.pod = NoText /\ old.pod # NoText
  \/ new.name = NoText /\ old.name # NoText
  \/ new.scope # old.scope /\ old.scope = "pod"

Unmistakable(c) == Fits[Facts[c].shown] = {c}

Kept(c, new, old) ==
  /\ RuntimeLost(new, old) => Refreshed /\ Failed(c)
  /\ NamesLost(new, old) =>
       IF Refreshed /\ Told(c) THEN Failed(c) ELSE LogsUnread(c) \/ (Refreshed /\ Failed(c))

NamesKept ==
  [][\A c \in DOMAIN published \cap DOMAIN published' :
       Unmistakable(c) => Kept(c, published'[c], published[c])]_vars

\* A container that stays, of an endpoint that answers from some time on, is
\* published with its name and Pod for good, whatever the other endpoints do.
Named(c) == /\ c \in DOMAIN published
            /\ published[c].pod = Facts[c].pod
            /\ published[c].name # NoText

EventuallyNamed ==
  \A e \in Endpoint : \A c \in Serves[e] :
    Unmistakable(c) /\ <>[](life[c] = "alive" /\ health[e] = "up") => <>[]Named(c)

\* What README.md 348 says of "scope": "pod": the container has been resolved to
\* its Pod's metadata.
PodScopeResolved ==
  \A c \in DOMAIN published : published[c].scope = "pod" => published[c].pod # NoText
=============================================================================
