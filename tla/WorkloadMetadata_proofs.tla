----------------------- MODULE WorkloadMetadata_proofs -----------------------
(***************************************************************************)
(* Proofs about WorkloadMetadata, for any containers, IDs, sockets and     *)
(* ages, and any number of endpoints that fail at any of their calls.      *)
(*                                                                         *)
(* Every item of the catalog is what is true of its container, as far as   *)
(* it is known: from which sources it is known is the invariant.           *)
(***************************************************************************)
EXTENDS WorkloadMetadata, FiniteSetTheorems, TLAPS

\* w is what is true of container c: its Pod and its runtime if they are known,
\* under this name.
IsEntry(w, c, podKnown, name, runtimeKnown) ==
  /\ w.scope = IF podKnown THEN "pod" ELSE "container"
  /\ w.runtime = IF runtimeKnown THEN Facts[c].runtime ELSE NoText
  /\ w.pod = IF podKnown THEN Facts[c].pod ELSE NoText
  /\ w.name = name
  /\ w.id = c

\* What the endpoints E and the files that have been read say of c.
PodFrom(c, E) ==
  /\ Facts[c].pod # NoText
  /\ \/ Facts[c].labels
     \/ \E e \in E : c \in answer[e].listed /\ c \in answer[e].sandboxes
RuntimeFrom(c, E) ==
  \/ ReadFrom(c) # {}
  \/ \E e \in E : c \in answer[e].listed /\ (answer[e].version \/ Hint[e] # "cri")
ListedFrom(c, E) == ReadFrom(c) # {} \/ \E e \in E : c \in answer[e].listed

\* The catalog has what these have said, and nothing else.
MergedFrom(E) ==
  /\ DOMAIN catalog = {c \in Container : ListedFrom(c, E)}
  /\ \A c \in DOMAIN catalog :
       IsEntry(catalog[c], c, PodFrom(c, E), NameKnown(c), RuntimeFrom(c, E))

\* What could be known of c if nothing failed.
CanList(c) == Facts[c].files # {} \/ \E e \in Endpoint : c \in Serves[e]
CanPod(c) ==
  Facts[c].pod # NoText /\ (Facts[c].labels \/ \E e \in Endpoint : c \in Serves[e])

\* No more than that is in the catalog, be it new, old or in the making.
KnownItem(c) ==
  /\ CanList(c)
  /\ \E p, r \in BOOLEAN : \E n \in {Facts[c].name, Facts[c].fileName} :
       IsEntry(catalog[c], c, p, n, r) /\ (p => CanPod(c))
CatalogKnown == DOMAIN catalog \subseteq Container /\ \A c \in DOMAIN catalog : KnownItem(c)

\* What an endpoint may have answered.
Result == [listed : SUBSET Container, sandboxes : SUBSET Container, version : BOOLEAN]

\* Types, but for the catalog's.
Fields ==
  /\ life \in [Container -> {"new", "alive", "gone"}]
  /\ health \in [Endpoint -> {"up", "failing"}]
  /\ step \in {"waiting", "due", "catalog", "calls", "oci", "scan"}
  /\ logs \in [pod : SUBSET Container, container : SUBSET Container]
  /\ fresh \in 0..TTL /\ left \in 0..Timeout
  /\ call \in [Endpoint -> {"containers", "pods", "done", "none"}]
  /\ answer \in [Endpoint -> Result]
  /\ arrived \in Seq(Endpoint)
  /\ files \in [{"docker", "oci"} -> SUBSET Container]
  /\ DOMAIN published \subseteq Container

\* Endpoints and files tell of their own containers.
Sources ==
  /\ \A e \in Endpoint : /\ answer[e].listed \subseteq Serves[e]
                         /\ answer[e].sandboxes \subseteq Serves[e]
  /\ \A k \in {"docker", "oci"} : \A c \in files[k] : k \in Facts[c].files

\* A catalog is as new as a refresh leaves it only until the next tick.
Ages == step \notin {"waiting", "scan"} => fresh < TTL

\* A refresh so far: of the endpoints that have finished, those of which the
\* result is not waiting any more have been merged.
Elements(s) == {s[i] : i \in DOMAIN s}
Arrived == Elements(arrived)
Collected(E) == E \cup Arrived = {e \in Endpoint : call[e] = "done"} /\ MergedFrom(E)
Merging ==
  /\ step = "calls" => files = Nowhere /\ \E E \in SUBSET Endpoint : Collected(E)
  /\ step = "oci" => arrived = <<>> /\ files["oci"] = {} /\ MergedFrom(Endpoint)
  /\ Refreshed => MergedFrom(Endpoint)

MetadataInv == Fields /\ Sources /\ Ages /\ Merging /\ CatalogKnown

-----------------------------------------------------------------------------
(* What a container's facts are, and what merging them gives.              *)

LEMMA FactsOf ==
  ASSUME NEW c \in Container
  PROVE  /\ Facts[c].runtime \in Runtime /\ Facts[c].runtime \notin {NoText, "cri"}
         /\ Facts[c].name # NoText /\ Facts[c].fileName # NoText
         /\ Facts[c].shown \in Id /\ c \in Fits[Facts[c].shown]
         /\ Facts[c].form \in {"runtime", "kubepods", "private"}
         /\ Facts[c].uid \in BOOLEAN /\ Facts[c].labels \in BOOLEAN
         /\ Facts[c].files \in SUBSET {"docker", "oci"}
         /\ Facts[c].logs \in SUBSET {"pod", "container"}
<1>1. Facts[c] \in Fact /\ Facts[c].name # NoText /\ Facts[c].fileName # NoText
      /\ c \in Fits[Facts[c].shown] /\ {NoText, "cri"} \cap Runtime = {}
  BY MetadataAssumption
<1>2. Facts[c].runtime \in Runtime
  BY <1>1 DEF Fact
<1> QED BY <1>1, <1>2 DEF Fact

\* A workload that a source says of c, as an item that was not there before.
LEMMA FirstItem ==
  ASSUME NEW c \in Container,
         NEW pod \in {NoText, Facts[c].pod}, NEW runtime \in {"cri", Facts[c].runtime},
         NEW name, name # NoText
  PROVE  IsEntry(MergeWorkload(Blank, Said(c, runtime, pod, name)),
                 c, pod # NoText, name, runtime # "cri")
  BY FactsOf DEF IsEntry, MergeWorkload, Said, Blank, Richer, MergeScope, MergeRuntime, NoText

\* The same, added to an item: it knows what either of them did.
LEMMA NextItem ==
  ASSUME NEW c \in Container, NEW w,
         NEW p \in BOOLEAN, NEW n, NEW r \in BOOLEAN, IsEntry(w, c, p, n, r),
         p => Facts[c].pod # NoText,
         NEW pod \in {NoText, Facts[c].pod}, NEW runtime \in {"cri", Facts[c].runtime},
         NEW name, name # NoText
  PROVE  IsEntry(MergeWorkload(w, Said(c, runtime, pod, name)),
                 c, p \/ pod # NoText, name, r \/ runtime # "cri")
  BY FactsOf DEF IsEntry, MergeWorkload, Said, Richer, MergeScope, MergeRuntime, NoText

\* What an endpoint says of a container it has listed.
LEMMA SaidByCRI ==
  ASSUME NEW e \in Endpoint, Fields, Sources, NEW c \in answer[e].listed
  PROVE  \E pod \in {NoText, Facts[c].pod} : \E runtime \in {"cri", Facts[c].runtime} :
           /\ WorkloadsFromCRI(e)[c] = Said(c, runtime, pod, Facts[c].name)
           /\ (pod # NoText) <=>
                (Facts[c].pod # NoText /\ (Facts[c].labels \/ c \in answer[e].sandboxes))
           /\ (runtime # "cri") <=> (answer[e].version \/ Hint[e] # "cri")
<1> DEFINE pod == IF c \in answer[e].sandboxes THEN Facts[c].pod ELSE LabelledPod(c)
           runtime == IF answer[e].version THEN Facts[c].runtime ELSE Hint[e]
<1>1. c \in Container /\ c \in Serves[e] /\ e \in Path
  BY DEF Fields, Sources, Endpoint, Result
<1>2. Hint[e] \in {"cri", Facts[c].runtime} /\ Facts[c].runtime # "cri"
  BY <1>1, FactsOf, MetadataAssumption
<1>3. WorkloadsFromCRI(e)[c] = Said(c, runtime, pod, Facts[c].name)
  BY DEF WorkloadsFromCRI
<1>4. /\ pod \in {NoText, Facts[c].pod}
      /\ (pod # NoText) <=>
                (Facts[c].pod # NoText /\ (Facts[c].labels \/ c \in answer[e].sandboxes))
  BY DEF LabelledPod
<1>5. /\ runtime \in {"cri", Facts[c].runtime}
      /\ (runtime # "cri") <=> (answer[e].version \/ Hint[e] # "cri")
  BY <1>2
<1> HIDE DEF pod, runtime
<1> QED BY <1>3, <1>4, <1>5

\* What a file says of a container.
LEMMA SaidByFile ==
  ASSUME NEW read \in SUBSET Container, NEW c \in read
  PROVE  \E pod \in {NoText, Facts[c].pod} : \E name :
           /\ WorkloadsFromFiles(read)[c] = Said(c, Facts[c].runtime, pod, name)
           /\ (pod # NoText) <=> (Facts[c].pod # NoText /\ Facts[c].labels)
           /\ name = IF Facts[c].labels THEN Facts[c].name ELSE Facts[c].fileName
  BY DEF WorkloadsFromFiles, LabelledPod

\* The entry is that of these Booleans, however they are put.
LEMMA SameEntry ==
  ASSUME NEW w, NEW c, NEW n,
         NEW p \in BOOLEAN, NEW r \in BOOLEAN, NEW p2 \in BOOLEAN, NEW r2 \in BOOLEAN,
         IsEntry(w, c, p, n, r), p <=> p2, r <=> r2
  PROVE  IsEntry(w, c, p2, n, r2)
  BY DEF IsEntry

LEMMA SequenceElements ==
  ASSUME NEW S, NEW s \in Seq(S), NEW e \in S
  PROVE  /\ Elements(<<>>) = {}
         /\ Elements(Append(s, e)) = Elements(s) \cup {e}
         /\ s # <<>> => Elements(s) = Elements(Tail(s)) \cup {Head(s)}
<1>1. Elements(<<>>) = {}
  BY DEF Elements
<1>2. Elements(Append(s, e)) = Elements(s) \cup {e}
  <2>1. /\ DOMAIN Append(s, e) = 1..(Len(s) + 1) /\ DOMAIN s = 1..Len(s) /\ Len(s) \in Nat
        /\ \A i \in 1..Len(s) : Append(s, e)[i] = s[i]
        /\ Append(s, e)[Len(s) + 1] = e
    OBVIOUS
  <2>2. 1..(Len(s) + 1) = 1..Len(s) \cup {Len(s) + 1}
    BY <2>1
  <2> QED BY <2>1, <2>2 DEF Elements
<1>3. ASSUME s # <<>> PROVE Elements(s) = Elements(Tail(s)) \cup {Head(s)}
  <2>1. /\ DOMAIN Tail(s) = 1..(Len(s) - 1) /\ DOMAIN s = 1..Len(s) /\ Len(s) \in Nat \ {0}
        /\ \A i \in 1..(Len(s) - 1) : Tail(s)[i] = s[i + 1]
        /\ Head(s) = s[1]
    BY <1>3
  <2>2. \A i \in 1..Len(s) : i = 1 \/ (i - 1 \in 1..(Len(s) - 1) /\ (i - 1) + 1 = i)
    BY <2>1
  <2>3. \A i \in 1..(Len(s) - 1) : i + 1 \in 1..Len(s)
    BY <2>1
  <2>4. 1 \in 1..Len(s)
    BY <2>1
  <2>5. Elements(s) \subseteq Elements(Tail(s)) \cup {Head(s)}
    <3> SUFFICES ASSUME NEW i \in 1..Len(s), i # 1 PROVE s[i] \in Elements(Tail(s))
      BY <2>1 DEF Elements
    <3>1. i - 1 \in DOMAIN Tail(s) /\ Tail(s)[i - 1] = s[i]
      BY <2>1, <2>2
    <3> QED BY <3>1 DEF Elements
  <2>6. Elements(Tail(s)) \cup {Head(s)} \subseteq Elements(s)
    BY <2>1, <2>3, <2>4 DEF Elements
  <2> QED BY <2>5, <2>6
<1> QED BY <1>1, <1>2, <1>3

-----------------------------------------------------------------------------
(* A refresh.                                                              *)

\* With the result of one more endpoint the catalog is what these endpoints
\* have said, in whatever order they come.
LEMMA MergeOne ==
  ASSUME Fields, Sources, files = Nowhere,
         NEW E \in SUBSET Endpoint, MergedFrom(E), NEW e \in Endpoint,
         catalog' = AddItems(catalog, WorkloadsFromCRI(e)), UNCHANGED <<answer, files>>
  PROVE  MergedFrom(E \cup {e})'
<1> DEFINE listed == answer[e].listed
<1>1. listed \in SUBSET Container
  BY DEF Fields, Result
<1>2. DOMAIN WorkloadsFromCRI(e) = listed
  BY DEF WorkloadsFromCRI
<1>3. \A c \in Container : ReadFrom(c) = {} /\ ReadFrom(c)' = {}
  BY DEF ReadFrom, Nowhere
<1> DEFINE new == AddItems(catalog, WorkloadsFromCRI(e))
<1>4. /\ DOMAIN new = DOMAIN catalog \cup DOMAIN WorkloadsFromCRI(e)
      /\ \A c \in DOMAIN catalog \ DOMAIN WorkloadsFromCRI(e) : new[c] = catalog[c]
      /\ \A c \in DOMAIN WorkloadsFromCRI(e) :
           new[c] = MergeWorkload(IF c \in DOMAIN catalog THEN catalog[c] ELSE Blank,
                                  WorkloadsFromCRI(e)[c])
  BY DEF AddItems
<1> HIDE DEF new
<1>5. catalog' = new
  BY DEF new
<1>6. DOMAIN catalog' = DOMAIN catalog \cup listed
  BY <1>2, <1>4, <1>5
<1>7. DOMAIN catalog' = {c \in Container : ListedFrom(c, E \cup {e})'}
  BY <1>1, <1>3, <1>6 DEF MergedFrom, ListedFrom
<1>8. ASSUME NEW c \in DOMAIN catalog'
      PROVE  IsEntry(catalog[c], c, PodFrom(c, E \cup {e}), NameKnown(c), RuntimeFrom(c, E \cup {e}))'
  <2>1. c \in Container
    BY <1>7
  <2>2. NameKnown(c)' = Facts[c].name /\ NameKnown(c) = Facts[c].name
    BY <1>3, <2>1 DEF NameKnown
  <2>3. PodFrom(c, E) <=>
          /\ Facts[c].pod # NoText
          /\ \/ Facts[c].labels
             \/ \E x \in E : c \in answer[x].listed /\ c \in answer[x].sandboxes
    BY DEF PodFrom
  <2>4. RuntimeFrom(c, E) <=>
          \E x \in E : c \in answer[x].listed /\ (answer[x].version \/ Hint[x] # "cri")
    BY <1>3, <2>1 DEF RuntimeFrom
  <2>5. /\ PodFrom(c, E \cup {e})' <=> (PodFrom(c, E) \/ (Facts[c].pod # NoText /\ c \in listed /\ c \in answer[e].sandboxes))
        /\ RuntimeFrom(c, E \cup {e})' <=> (RuntimeFrom(c, E) \/ (c \in listed /\ (answer[e].version \/ Hint[e] # "cri")))
    BY <1>3, <2>1 DEF PodFrom, RuntimeFrom
  <2>6. /\ PodFrom(c, E) \in BOOLEAN /\ RuntimeFrom(c, E) \in BOOLEAN
        /\ PodFrom(c, E \cup {e})' \in BOOLEAN /\ RuntimeFrom(c, E \cup {e})' \in BOOLEAN
        /\ PodFrom(c, E) => Facts[c].pod # NoText
    BY DEF PodFrom, RuntimeFrom
  <2>7. CASE c \notin listed
    <3>1. c \in DOMAIN catalog /\ catalog'[c] = catalog[c]
      BY <1>2, <1>6, <2>7, <1>4, <1>5
    <3>2. IsEntry(catalog'[c], c, PodFrom(c, E), Facts[c].name, RuntimeFrom(c, E))
      BY <2>2, <3>1 DEF MergedFrom
    <3>3. /\ PodFrom(c, E \cup {e})' <=> PodFrom(c, E)
          /\ RuntimeFrom(c, E \cup {e})' <=> RuntimeFrom(c, E)
      BY <2>5, <2>7
    <3>4. IsEntry(catalog'[c], c, PodFrom(c, E \cup {e})', Facts[c].name, RuntimeFrom(c, E \cup {e})')
      BY <2>6, <3>2, <3>3, SameEntry
    <3> QED BY <2>2, <3>4 DEF IsEntry
  <2>8. CASE c \in listed
    <3>1. PICK pod \in {NoText, Facts[c].pod}, runtime \in {"cri", Facts[c].runtime} :
            /\ WorkloadsFromCRI(e)[c] = Said(c, runtime, pod, Facts[c].name)
            /\ (pod # NoText) <=>
                 (Facts[c].pod # NoText /\ (Facts[c].labels \/ c \in answer[e].sandboxes))
            /\ (runtime # "cri") <=> (answer[e].version \/ Hint[e] # "cri")
      BY <2>8, SaidByCRI
    <3>2. Facts[c].name # NoText
      BY <2>1, FactsOf
    <3>3. CASE c \in DOMAIN catalog
      <4>1. catalog'[c] = MergeWorkload(catalog[c], Said(c, runtime, pod, Facts[c].name))
        BY <1>2, <2>8, <3>1, <3>3, <1>4, <1>5
      <4>2. IsEntry(catalog[c], c, PodFrom(c, E), Facts[c].name, RuntimeFrom(c, E))
        BY <2>2, <3>3 DEF MergedFrom
      <4>3. IsEntry(catalog'[c], c, PodFrom(c, E) \/ pod # NoText, Facts[c].name,
                    RuntimeFrom(c, E) \/ runtime # "cri")
        BY <2>1, <2>6, <3>2, <4>1, <4>2, NextItem
      <4>4. /\ PodFrom(c, E \cup {e})' <=> (PodFrom(c, E) \/ pod # NoText)
            /\ RuntimeFrom(c, E \cup {e})' <=> (RuntimeFrom(c, E) \/ runtime # "cri")
        BY <2>3, <2>4, <2>5, <2>8, <3>1
      <4>5. IsEntry(catalog'[c], c, PodFrom(c, E \cup {e})', Facts[c].name, RuntimeFrom(c, E \cup {e})')
        BY <2>6, <4>3, <4>4, SameEntry
      <4> QED BY <2>2, <4>5 DEF IsEntry
    <3>4. CASE c \notin DOMAIN catalog
      <4>1. catalog'[c] = MergeWorkload(Blank, Said(c, runtime, pod, Facts[c].name))
        BY <1>2, <2>8, <3>1, <3>4, <1>4, <1>5
      <4>2. IsEntry(catalog'[c], c, pod # NoText, Facts[c].name, runtime # "cri")
        BY <2>1, <3>2, <4>1, FirstItem
      <4>3. \A x \in E : c \notin answer[x].listed
        BY <2>1, <3>4 DEF MergedFrom, ListedFrom
      <4>4. /\ PodFrom(c, E \cup {e})' <=> (pod # NoText)
            /\ RuntimeFrom(c, E \cup {e})' <=> (runtime # "cri")
        BY <2>3, <2>4, <2>5, <2>8, <3>1, <4>3
      <4>5. IsEntry(catalog'[c], c, PodFrom(c, E \cup {e})', Facts[c].name, RuntimeFrom(c, E \cup {e})')
        BY <2>6, <4>2, <4>4, SameEntry
      <4> QED BY <2>2, <4>5 DEF IsEntry
    <3> QED BY <3>3, <3>4
  <2> QED BY <2>7, <2>8
<1> QED BY <1>7, <1>8 DEF MergedFrom
\* With the containers that have been read of one more kind of file it is what
\* these have said as well.
LEMMA MergeFiles ==
  ASSUME Fields, NEW E \in SUBSET Endpoint, MergedFrom(E),
         NEW k \in {"docker", "oci"}, files[k] = {}, NEW read \in SUBSET Container,
         catalog' = AddItems(catalog, WorkloadsFromFiles(read)),
         files' = [files EXCEPT ![k] = read], UNCHANGED answer
  PROVE  MergedFrom(E)'
<1>1. \A c \in Container : ReadFrom(c)' = IF c \in read THEN ReadFrom(c) \cup {k} ELSE ReadFrom(c)
  BY DEF ReadFrom, Fields
<1>2. DOMAIN WorkloadsFromFiles(read) = read
  BY DEF WorkloadsFromFiles
<1> DEFINE new == AddItems(catalog, WorkloadsFromFiles(read))
<1>3. /\ DOMAIN new = DOMAIN catalog \cup DOMAIN WorkloadsFromFiles(read)
      /\ \A c \in DOMAIN catalog \ DOMAIN WorkloadsFromFiles(read) : new[c] = catalog[c]
      /\ \A c \in DOMAIN WorkloadsFromFiles(read) :
           new[c] = MergeWorkload(IF c \in DOMAIN catalog THEN catalog[c] ELSE Blank,
                                  WorkloadsFromFiles(read)[c])
  BY DEF AddItems
<1> HIDE DEF new
<1>4. catalog' = new
  BY DEF new
<1>5. DOMAIN catalog' = DOMAIN catalog \cup read
  BY <1>2, <1>3, <1>4
<1>6. DOMAIN catalog' = {c \in Container : ListedFrom(c, E)'}
  BY <1>1, <1>5 DEF MergedFrom, ListedFrom
<1>7. ASSUME NEW c \in DOMAIN catalog'
      PROVE  IsEntry(catalog[c], c, PodFrom(c, E), NameKnown(c), RuntimeFrom(c, E))'
  <2>1. c \in Container
    BY <1>6
  <2>2. /\ PodFrom(c, E)' <=> PodFrom(c, E)
        /\ RuntimeFrom(c, E)' <=> (RuntimeFrom(c, E) \/ c \in read)
    BY <1>1, <2>1 DEF PodFrom, RuntimeFrom
  <2>3. /\ PodFrom(c, E) \in BOOLEAN /\ RuntimeFrom(c, E) \in BOOLEAN
        /\ PodFrom(c, E)' \in BOOLEAN /\ RuntimeFrom(c, E)' \in BOOLEAN
        /\ PodFrom(c, E) => Facts[c].pod # NoText
    BY DEF PodFrom, RuntimeFrom
  <2>4. CASE c \notin read
    <3>1. c \in DOMAIN catalog /\ catalog'[c] = catalog[c] /\ NameKnown(c)' = NameKnown(c)
      BY <1>1, <1>2, <1>3, <1>4, <1>5, <2>1, <2>4 DEF NameKnown
    <3>2. IsEntry(catalog'[c], c, PodFrom(c, E), NameKnown(c), RuntimeFrom(c, E))
      BY <3>1 DEF MergedFrom
    <3>3. IsEntry(catalog'[c], c, PodFrom(c, E)', NameKnown(c), RuntimeFrom(c, E)')
      BY <2>2, <2>3, <2>4, <3>2, SameEntry
    <3> QED BY <3>1, <3>3 DEF IsEntry
  <2>5. CASE c \in read
    <3>1. PICK pod \in {NoText, Facts[c].pod} : \E name :
            /\ WorkloadsFromFiles(read)[c] = Said(c, Facts[c].runtime, pod, name)
            /\ (pod # NoText) <=> (Facts[c].pod # NoText /\ Facts[c].labels)
            /\ name = IF Facts[c].labels THEN Facts[c].name ELSE Facts[c].fileName
      BY <2>5, SaidByFile
    <3>2. PICK name :
            /\ WorkloadsFromFiles(read)[c] = Said(c, Facts[c].runtime, pod, name)
            /\ name = IF Facts[c].labels THEN Facts[c].name ELSE Facts[c].fileName
      BY <3>1
    <3>3. NameKnown(c)' = name /\ name # NoText /\ Facts[c].runtime # "cri"
      BY <1>1, <2>1, <2>5, <3>2, FactsOf DEF NameKnown
    <3>4. pod # NoText => PodFrom(c, E)
      BY <3>1 DEF PodFrom
    <3>5. CASE c \in DOMAIN catalog
      <4>1. catalog'[c] = MergeWorkload(catalog[c], Said(c, Facts[c].runtime, pod, name))
        BY <1>2, <1>3, <1>4, <2>5, <3>2, <3>5
      <4>2. IsEntry(catalog[c], c, PodFrom(c, E), NameKnown(c), RuntimeFrom(c, E))
        BY <3>5 DEF MergedFrom
      <4>3. IsEntry(catalog'[c], c, PodFrom(c, E) \/ pod # NoText, name,
                    RuntimeFrom(c, E) \/ Facts[c].runtime # "cri")
        BY <2>1, <2>3, <3>3, <4>1, <4>2, NextItem
      <4>4. IsEntry(catalog'[c], c, PodFrom(c, E)', name, RuntimeFrom(c, E)')
        BY <2>2, <2>3, <2>5, <3>3, <3>4, <4>3, SameEntry
      <4> QED BY <3>3, <4>4 DEF IsEntry
    <3>6. CASE c \notin DOMAIN catalog
      <4>1. catalog'[c] = MergeWorkload(Blank, Said(c, Facts[c].runtime, pod, name))
        BY <1>2, <1>3, <1>4, <2>5, <3>2, <3>6
      <4>2. IsEntry(catalog'[c], c, pod # NoText, name, Facts[c].runtime # "cri")
        BY <2>1, <3>3, <4>1, FirstItem
      <4>3. \A x \in E : c \notin answer[x].listed
        BY <2>1, <3>6 DEF MergedFrom, ListedFrom
      <4>4. PodFrom(c, E) <=> (pod # NoText)
        BY <3>1, <4>3 DEF PodFrom
      <4>5. IsEntry(catalog'[c], c, PodFrom(c, E)', name, RuntimeFrom(c, E)')
        BY <2>2, <2>3, <2>5, <3>3, <4>2, <4>4, SameEntry
      <4> QED BY <3>3, <4>5 DEF IsEntry
    <3> QED BY <3>5, <3>6
  <2> QED BY <2>4, <2>5
<1> QED BY <1>6, <1>7 DEF MergedFrom

\* What has been merged is no more than could be known.
LEMMA MergedIsKnown ==
  \A E \in SUBSET Endpoint : Fields /\ Sources /\ MergedFrom(E) => CatalogKnown
<1> SUFFICES ASSUME Fields, Sources, NEW E \in SUBSET Endpoint, MergedFrom(E),
                    NEW c \in DOMAIN catalog
             PROVE  c \in Container /\ KnownItem(c)
  BY DEF CatalogKnown
<1>1. c \in Container /\ ListedFrom(c, E)
  BY DEF MergedFrom
<1>2. CanList(c)
  BY <1>1 DEF ListedFrom, CanList, Sources, ReadFrom
<1>3. PodFrom(c, E) => CanPod(c)
  BY DEF PodFrom, CanPod, Sources
<1>4. /\ PodFrom(c, E) \in BOOLEAN /\ RuntimeFrom(c, E) \in BOOLEAN
      /\ NameKnown(c) \in {Facts[c].name, Facts[c].fileName}
  BY DEF PodFrom, RuntimeFrom, NameKnown
<1>5. IsEntry(catalog[c], c, PodFrom(c, E), NameKnown(c), RuntimeFrom(c, E))
  BY DEF MergedFrom
<1> QED BY <1>1, <1>2, <1>3, <1>4, <1>5 DEF KnownItem
LEMMA MergedIsKnownNext ==
  (\A E \in SUBSET Endpoint : Fields /\ Sources /\ MergedFrom(E) => CatalogKnown)'
  BY MergedIsKnown, PTL

-----------------------------------------------------------------------------
(* The invariant.                                                          *)

LEMMA MetadataInit == Init => MetadataInv
<1> SUFFICES ASSUME Init PROVE MetadataInv
  OBVIOUS
<1> USE DEF Init
<1>1. Fields
  <2>1. 0 \in 0..TTL /\ 0 \in 0..Timeout
    BY MetadataAssumption
  <2> QED BY <2>1 DEF Fields, NoLogs, NoCalls, NoAnswers, Nobody, Nowhere, Result
<1>2. Sources /\ Ages
  BY DEF Sources, Ages, NoAnswers, Nobody, Nowhere
<1>3. Merging
  BY DEF Merging, Refreshed
<1>4. CatalogKnown
  BY DEF CatalogKnown
<1> QED BY <1>1, <1>2, <1>3, <1>4 DEF MetadataInv

\* A CatalogKnown catalog has its type.
LEMMA KnownType == CatalogKnown => CatalogType(catalog)
<1> SUFFICES ASSUME CatalogKnown PROVE CatalogType(catalog)
  OBVIOUS
<1>1. ASSUME NEW c \in DOMAIN catalog
      PROVE  /\ catalog[c].scope \in {"container", "pod"} /\ catalog[c].id = c
             /\ catalog[c].runtime \in Runtime \cup {NoText}
  <2>1. c \in Container /\ KnownItem(c)
    BY DEF CatalogKnown
  <2>2. PICK p \in BOOLEAN, r \in BOOLEAN, n \in {Facts[c].name, Facts[c].fileName} :
          IsEntry(catalog[c], c, p, n, r)
    BY <2>1 DEF KnownItem
  <2> QED BY <2>1, <2>2, FactsOf DEF IsEntry
<1> QED BY <1>1 DEF CatalogType, CatalogKnown

\* The two ways in which a result is changed.
LEMMA ResultChanged ==
  ASSUME NEW a \in Result, NEW s \in SUBSET Container, NEW v \in BOOLEAN
  PROVE  /\ [a EXCEPT !.listed = s] \in Result
         /\ [a EXCEPT !.sandboxes = s, !.version = v] \in Result
<1>1. [a EXCEPT !.listed = s] \in Result
  BY DEF Result
<1> DEFINE b == [a EXCEPT !.sandboxes = s]
<1>2. b \in Result
  BY DEF Result
<1>3. [a EXCEPT !.sandboxes = s, !.version = v] = [b EXCEPT !.version = v]
  OBVIOUS
<1> HIDE DEF b
<1>4. [b EXCEPT !.version = v] \in Result
  BY <1>2 DEF Result
<1> QED BY <1>1, <1>3, <1>4

LEMMA FieldsNext == MetadataInv /\ [Next]_vars => Fields'
<1> SUFFICES ASSUME MetadataInv, [Next]_vars PROVE Fields'
  OBVIOUS
<1> USE DEF MetadataInv, Fields, world, refresh, cache
<1>1. ASSUME NEW e \in Endpoint, ListContainers(e) PROVE Fields'
  <2>1. Serves[e] \cap Alive \in SUBSET Container
    BY DEF Alive
  <2>2. CASE UNCHANGED arrived
    <3> DEFINE r == [answer[e] EXCEPT !.listed = Serves[e] \cap Alive]
    <3>1. r \in Result
      BY <2>1, ResultChanged
    <3>2. CASE answer' = [answer EXCEPT ![e].listed = Serves[e] \cap Alive]
      <4>1. answer' = [answer EXCEPT ![e] = r]
        BY <3>2
      <4> HIDE DEF r
      <4>2. answer' \in [Endpoint -> Result]
        BY <3>1, <4>1
      <4> QED BY <1>1, <2>2, <4>2 DEF ListContainers, Finish
    <3>3. CASE UNCHANGED answer
      BY <1>1, <2>2, <3>3 DEF ListContainers, Finish
    <3> QED BY <1>1, <3>2, <3>3 DEF ListContainers
  <2>3. CASE Finish(e) /\ UNCHANGED answer
    BY <1>1, <2>3 DEF ListContainers, Finish
  <2> QED BY <1>1, <2>2, <2>3 DEF ListContainers
<1>2. ASSUME NEW e \in Endpoint, DescribeContainers(e) PROVE Fields'
  <2>1. PICK sandboxes \in BOOLEAN, version \in BOOLEAN :
          answer' = [answer EXCEPT ![e].sandboxes = IF sandboxes THEN Serves[e] \cap Alive ELSE {},
                                   ![e].version = version]
    BY <1>2 DEF DescribeContainers
  <2>2. Serves[e] \cap Alive \in SUBSET Container
    BY DEF Alive
  <2> DEFINE s == IF sandboxes THEN Serves[e] \cap Alive ELSE {}
             r == [answer[e] EXCEPT !.sandboxes = s, !.version = version]
  <2>3. answer' \in [Endpoint -> Result]
    <3>1. answer' = [answer EXCEPT ![e] = r]
      BY <2>1
    <3>2. s \in SUBSET Container
      BY <2>2
    <3> HIDE DEF s
    <3>3. r \in Result
      BY <3>2, ResultChanged
    <3> HIDE DEF r
    <3> QED BY <3>1, <3>3
  <2> QED BY <1>2, <2>3 DEF DescribeContainers, Finish
<1>3. CASE LoadLogs
  BY <1>3 DEF LoadLogs, Alive
<1>4. CASE UseCache
  BY <1>4 DEF UseCache
<1>5. CASE BeginRefresh
  BY <1>5, MetadataAssumption DEF BeginRefresh, NoAnswers, Nobody, Nowhere, Result
<1>6. CASE MergeResult
  BY <1>6 DEF MergeResult
<1>7. CASE LoadDocker
  BY <1>7 DEF LoadDocker, ReadFiles, Alive
<1>8. CASE LoadOCI
  BY <1>8, MetadataAssumption DEF LoadOCI, ReadFiles, Alive
<1>9. CASE Scan
  <2>1. 0 \in 0..Timeout
    BY MetadataAssumption
  <2> QED BY <1>9, <2>1 DEF Scan, NoCalls, NoAnswers, NoLogs, Nobody, Nowhere, Alive, Result
<1>10. CASE Tick
  BY <1>10, MetadataAssumption DEF Tick
<1>11. ASSUME NEW c \in Container, StartContainer(c) \/ RemoveContainer(c) PROVE Fields'
  BY <1>11 DEF StartContainer, RemoveContainer
<1>12. ASSUME NEW e \in Endpoint, Recover(e) PROVE Fields'
  BY <1>12 DEF Recover
<1>13. CASE UNCHANGED vars
  BY <1>13 DEF vars
<1> QED BY <1>1, <1>2, <1>3, <1>4, <1>5, <1>6, <1>7, <1>8, <1>9, <1>10, <1>11, <1>12, <1>13
       DEF Next, CollectorStep
\* What E have said does not depend on the others.
LEMMA MergedFrame ==
  ASSUME NEW E, MergedFrom(E), UNCHANGED <<catalog, files>>, \A x \in E : answer'[x] = answer[x]
  PROVE  MergedFrom(E)'
<1>1. \A c : ReadFrom(c)' = ReadFrom(c) /\ NameKnown(c)' = NameKnown(c)
  BY DEF ReadFrom, NameKnown
<1>2. \A c : /\ ListedFrom(c, E)' <=> ListedFrom(c, E)
             /\ PodFrom(c, E)' <=> PodFrom(c, E)
             /\ RuntimeFrom(c, E)' <=> RuntimeFrom(c, E)
  BY <1>1 DEF ListedFrom, PodFrom, RuntimeFrom
<1>3. DOMAIN catalog' = {c \in Container : ListedFrom(c, E)'}
  BY <1>2 DEF MergedFrom
<1>4. ASSUME NEW c \in DOMAIN catalog'
      PROVE  IsEntry(catalog[c], c, PodFrom(c, E), NameKnown(c), RuntimeFrom(c, E))'
  BY <1>1, <1>2 DEF MergedFrom, IsEntry
<1> QED BY <1>3, <1>4 DEF MergedFrom

LEMMA KnownFrame == ASSUME CatalogKnown, UNCHANGED catalog PROVE CatalogKnown'
  BY DEF CatalogKnown, KnownItem, IsEntry, CanList, CanPod

\* When an endpoint has finished, its result waits in the channel.
LEMMA FinishCollects ==
  ASSUME Fields, Fields', UNCHANGED <<catalog, files>>, NEW e \in Endpoint, Finish(e),
         NEW E \in SUBSET Endpoint, Collected(E), e \notin E,
         \A x \in Endpoint \ {e} : answer'[x] = answer[x]
  PROVE  Collected(E)'
<1>1. Arrived' = Arrived \cup {e}
  BY SequenceElements DEF Arrived, Finish, Fields
<1>2. {x \in Endpoint : call'[x] = "done"} = {x \in Endpoint : call[x] = "done"} \cup {e}
  BY DEF Fields, Finish
<1>3. MergedFrom(E)'
  BY MergedFrame DEF Collected
<1> QED BY <1>1, <1>2, <1>3 DEF Collected

LEMMA MetadataNext == MetadataInv /\ [Next]_vars => MetadataInv'
<1> SUFFICES ASSUME MetadataInv, [Next]_vars PROVE MetadataInv'
  OBVIOUS
<1>0. Fields /\ Sources /\ Ages /\ Merging /\ CatalogKnown /\ Fields'
  BY FieldsNext DEF MetadataInv
<1> SUFFICES Sources' /\ Ages' /\ Merging' /\ CatalogKnown'
  BY <1>0 DEF MetadataInv
<1> USE DEF world, refresh, cache
<1>1. ASSUME NEW e \in Endpoint, ListContainers(e)
      PROVE  Sources' /\ Ages' /\ Merging' /\ CatalogKnown'
  <2>1. /\ step = "calls" /\ call[e] = "containers"
        /\ UNCHANGED <<world, step, logs, left, files, catalog, fresh, published>>
    BY <1>1 DEF ListContainers, Pending
  <2>2. Ages' /\ CatalogKnown'
    BY <1>0, <2>1, KnownFrame DEF Ages
  <2>3. PICK E \in SUBSET Endpoint : Collected(E)
    BY <1>0, <2>1 DEF Merging
  <2>4. e \notin E
    BY <2>1, <2>3 DEF Collected
  <2>5. files' = Nowhere /\ step' = "calls" /\ ~Refreshed'
    BY <1>0, <2>1 DEF Merging, Refreshed
  <2>6. CASE /\ answer' = [answer EXCEPT ![e].listed = Serves[e] \cap Alive]
             /\ call' = [call EXCEPT ![e] = "pods"]
             /\ UNCHANGED arrived
    <3>1. \A x \in Endpoint \ {e} : answer'[x] = answer[x]
      BY <1>0, <2>6 DEF Fields
    <3>2. Sources'
      BY <1>0, <2>1, <2>6 DEF Sources, Fields, Result
    <3>3. {x \in Endpoint : call'[x] = "done"} = {x \in Endpoint : call[x] = "done"}
      BY <1>0, <2>1, <2>6 DEF Fields
    <3>4. MergedFrom(E)'
      BY <2>1, <2>3, <2>4, <3>1, MergedFrame DEF Collected
    <3>5. Collected(E)'
      BY <2>3, <2>6, <3>3, <3>4 DEF Collected, Arrived
    <3> QED BY <2>2, <2>5, <3>2, <3>5 DEF Merging
  <2>7. CASE Finish(e) /\ UNCHANGED answer
    <3>1. Collected(E)'
      BY <1>0, <2>1, <2>3, <2>4, <2>7, FinishCollects
    <3>2. Sources'
      BY <1>0, <2>1, <2>7 DEF Sources
    <3> QED BY <2>2, <2>5, <3>1, <3>2 DEF Merging
  <2> QED BY <1>1, <2>6, <2>7 DEF ListContainers
<1>2. ASSUME NEW e \in Endpoint, DescribeContainers(e)
      PROVE  Sources' /\ Ages' /\ Merging' /\ CatalogKnown'
  <2>1. /\ step = "calls" /\ call[e] = "pods" /\ Finish(e)
        /\ UNCHANGED <<world, step, logs, left, files, catalog, fresh, published>>
    BY <1>2 DEF DescribeContainers, Pending
  <2>2. Ages' /\ CatalogKnown'
    BY <1>0, <2>1, KnownFrame DEF Ages
  <2>3. PICK E \in SUBSET Endpoint : Collected(E)
    BY <1>0, <2>1 DEF Merging
  <2>4. e \notin E
    BY <2>1, <2>3 DEF Collected
  <2>5. files' = Nowhere /\ step' = "calls" /\ ~Refreshed'
    BY <1>0, <2>1 DEF Merging, Refreshed
  <2>6. PICK sandboxes \in BOOLEAN, version \in BOOLEAN :
          answer' = [answer EXCEPT ![e].sandboxes = IF sandboxes THEN Serves[e] \cap Alive ELSE {},
                                   ![e].version = version]
    BY <1>2 DEF DescribeContainers
  <2>7. \A x \in Endpoint \ {e} : answer'[x] = answer[x]
    BY <1>0, <2>6 DEF Fields
  <2>8. /\ answer'[e].listed = answer[e].listed
        /\ answer'[e].sandboxes \subseteq Serves[e]
    BY <1>0, <2>6 DEF Fields, Result
  <2>9. Sources'
    BY <1>0, <2>1, <2>7, <2>8 DEF Sources
  <2>10. Collected(E)'
    BY <1>0, <2>1, <2>3, <2>4, <2>7, FinishCollects
  <2> QED BY <2>2, <2>5, <2>9, <2>10 DEF Merging
<1>3. CASE LoadLogs \/ UseCache
  <2>1. UNCHANGED <<catalog, fresh, answer, files>> /\ step \in {"due", "catalog"}
        /\ step' \in {"catalog", "scan"}
    BY <1>3 DEF LoadLogs, UseCache
  <2>2. Sources' /\ CatalogKnown'
    BY <1>0, <2>1, KnownFrame DEF Sources
  <2>3. Ages' /\ fresh' # TTL
    BY <1>0, <2>1, MetadataAssumption DEF Ages, Fields
  <2> QED BY <2>1, <2>2, <2>3 DEF Merging, Refreshed
<1>4. CASE BeginRefresh
  <2>1. /\ step' = "calls" /\ step = "catalog" /\ fresh' = fresh
        /\ call' = [e \in Endpoint |-> "containers"]
        /\ answer' = NoAnswers /\ arrived' = <<>> /\ files' = Nowhere /\ catalog' = <<>>
    BY <1>4 DEF BeginRefresh
  <2>2. Sources' /\ Ages' /\ CatalogKnown'
    BY <1>0, <2>1 DEF Sources, Ages, CatalogKnown, NoAnswers, Nobody, Nowhere
  <2>3. Collected({})'
    BY <2>1, SequenceElements DEF Collected, Arrived, Elements, MergedFrom, ListedFrom, ReadFrom, Nowhere
  <2> QED BY <2>1, <2>2, <2>3 DEF Merging, Refreshed
<1>5. CASE MergeResult
  <2>1. /\ step = "calls" /\ step' = "calls" /\ arrived # <<>> /\ arrived' = Tail(arrived)
        /\ catalog' = AddItems(catalog, WorkloadsFromCRI(Head(arrived)))
        /\ UNCHANGED <<call, answer, files, fresh>>
    BY <1>5 DEF MergeResult, AllIn
  <2>2. PICK E \in SUBSET Endpoint : Collected(E)
    BY <1>0, <2>1 DEF Merging
  <2>3. PICK e \in Endpoint : e = Head(arrived)
    BY <1>0, <2>1 DEF Fields
  <2>4. Arrived = Arrived' \cup {e}
    BY <1>0, <2>1, <2>3, SequenceElements DEF Fields, Arrived
  <2>5. files = Nowhere
    BY <1>0, <2>1 DEF Merging
  <2>6. MergedFrom(E \cup {e})'
    BY <1>0, <2>1, <2>2, <2>3, <2>5, MergeOne DEF Collected
  <2>7. Collected(E \cup {e})'
    BY <2>1, <2>2, <2>4, <2>6 DEF Collected
  <2>8. Sources'
    BY <1>0, <2>1 DEF Sources
  <2>9. CatalogKnown'
    BY <1>0, <2>6, <2>8, MergedIsKnownNext
  <2>10. Ages'
    BY <1>0, <2>1 DEF Ages
  <2> QED BY <2>1, <2>5, <2>7, <2>8, <2>9, <2>10 DEF Merging, Refreshed
<1>6. CASE LoadDocker
  <2>1. /\ step = "calls" /\ step' = "oci" /\ arrived = <<>> /\ arrived' = <<>>
        /\ \A e \in Endpoint : call[e] = "done"
        /\ UNCHANGED <<call, answer, fresh>>
    BY <1>6 DEF LoadDocker, AllIn
  <2>2. PICK read \in SUBSET {c \in Alive : "docker" \in Facts[c].files} :
          /\ catalog' = AddItems(catalog, WorkloadsFromFiles(read))
          /\ files' = [files EXCEPT !["docker"] = read]
    BY <1>6 DEF LoadDocker, ReadFiles
  <2>3. MergedFrom(Endpoint)
    <3>1. PICK E \in SUBSET Endpoint : Collected(E)
      BY <1>0, <2>1 DEF Merging
    <3>2. E = Endpoint
      BY <2>1, <3>1, SequenceElements DEF Collected, Arrived, Elements
    <3> QED BY <3>1, <3>2 DEF Collected
  <2>4. files["docker"] = {} /\ files["oci"] = {}
    BY <1>0, <2>1 DEF Merging, Nowhere
  <2>5. read \in SUBSET Container /\ "docker" \in {"docker", "oci"}
    BY DEF Alive
  <2>6. MergedFrom(Endpoint)'
    BY <1>0, <2>1, <2>2, <2>3, <2>4, <2>5, MergeFiles
  <2>7. files'["oci"] = {}
    BY <1>0, <2>2, <2>4 DEF Fields
  <2>8. Sources'
    BY <1>0, <2>1, <2>2 DEF Sources, Fields
  <2>9. CatalogKnown'
    BY <1>0, <2>6, <2>8, MergedIsKnownNext
  <2>10. Ages'
    BY <1>0, <2>1 DEF Ages
  <2> QED BY <2>1, <2>6, <2>7, <2>8, <2>9, <2>10 DEF Merging, Refreshed
<1>7. CASE LoadOCI
  <2>1. /\ step = "oci" /\ step' = "scan" /\ arrived = <<>> /\ UNCHANGED <<call, answer>>
    BY <1>0, <1>7 DEF LoadOCI, Merging
  <2>2. PICK read \in SUBSET {c \in Alive : "oci" \in Facts[c].files} :
          /\ catalog' = AddItems(catalog, WorkloadsFromFiles(read))
          /\ files' = [files EXCEPT !["oci"] = read]
    BY <1>7 DEF LoadOCI, ReadFiles
  <2>3. MergedFrom(Endpoint) /\ files["oci"] = {}
    BY <1>0, <2>1 DEF Merging
  <2>4. read \in SUBSET Container /\ "oci" \in {"docker", "oci"}
    BY DEF Alive
  <2>5. MergedFrom(Endpoint)'
    BY <1>0, <2>1, <2>2, <2>3, <2>4, MergeFiles
  <2>6. Sources'
    BY <1>0, <2>1, <2>2 DEF Sources, Fields
  <2>7. CatalogKnown'
    BY <1>0, <2>5, <2>6, MergedIsKnownNext
  <2> QED BY <2>1, <2>5, <2>6, <2>7 DEF Merging, Ages
<1>8. CASE Scan
  <2>1. /\ step' = "waiting" /\ answer' = NoAnswers /\ files' = Nowhere
        /\ UNCHANGED catalog
    BY <1>8 DEF Scan
  <2>2. CatalogKnown'
    BY <1>0, <2>1, KnownFrame
  <2> QED BY <2>1, <2>2 DEF Sources, Ages, Merging, Refreshed, NoAnswers, Nobody, Nowhere
<1>9. CASE Tick
  <2>1. /\ step \in {"waiting", "due", "calls"}
        /\ step' = IF step = "calls" THEN "calls" ELSE "due"
        /\ fresh' = IF fresh = 0 THEN 0 ELSE fresh - 1
        /\ UNCHANGED <<call, answer, arrived, files, catalog>>
    BY <1>9 DEF Tick
  <2>2. Sources' /\ CatalogKnown'
    BY <1>0, <2>1, KnownFrame DEF Sources
  <2>3. Ages'
    BY <1>0, <2>1, MetadataAssumption DEF Ages, Fields
  <2>4. step = "calls" => files' = Nowhere /\ \E E \in SUBSET Endpoint : Collected(E)'
    <3> SUFFICES ASSUME step = "calls"
                 PROVE  files' = Nowhere /\ \E E \in SUBSET Endpoint : Collected(E)'
      OBVIOUS
    <3>1. PICK E \in SUBSET Endpoint : Collected(E)
      BY <1>0 DEF Merging
    <3>2. MergedFrom(E)'
      BY <2>1, <3>1, MergedFrame DEF Collected
    <3>3. Collected(E)'
      BY <2>1, <3>1, <3>2 DEF Collected, Arrived
    <3> QED BY <1>0, <2>1, <3>3 DEF Merging
  <2> QED BY <2>1, <2>2, <2>3, <2>4 DEF Merging, Refreshed
<1>10. CASE UNCHANGED <<step, call, answer, arrived, files, catalog, fresh>>
  <2>1. Sources' /\ Ages' /\ CatalogKnown'
    BY <1>0, <1>10, KnownFrame DEF Sources, Ages
  <2>2. \A E : MergedFrom(E) => MergedFrom(E)'
    BY <1>10, MergedFrame
  <2>3. \A E : Collected(E) => Collected(E)'
    BY <1>10, <2>2 DEF Collected, Arrived
  <2> QED BY <1>0, <1>10, <2>1, <2>2, <2>3 DEF Merging, Refreshed
<1> QED
  <2>1. ASSUME NEW c \in Container, StartContainer(c) \/ RemoveContainer(c)
        PROVE  UNCHANGED <<step, call, answer, arrived, files, catalog, fresh>>
    BY <2>1 DEF StartContainer, RemoveContainer
  <2>2. ASSUME NEW e \in Endpoint, Recover(e)
        PROVE  UNCHANGED <<step, call, answer, arrived, files, catalog, fresh>>
    BY <2>2 DEF Recover
  <2>3. CASE UNCHANGED vars
    BY <1>10, <2>3 DEF vars
  <2> QED BY <1>1, <1>2, <1>3, <1>4, <1>5, <1>6, <1>7, <1>8, <1>9, <1>10, <2>1, <2>2, <2>3
          DEF Next, CollectorStep

-----------------------------------------------------------------------------
(* What a cgroup is published as.                                          *)

\* A lookup by what c's path shows finds c or nothing, if the catalog has c or
\* nothing that is similar.
LEMMA LookupOwn ==
  ASSUME DOMAIN catalog \subseteq Container, NEW c \in Container,
         c \in DOMAIN catalog \/ Similar(c) \cap DOMAIN catalog = {}
  PROVE  /\ Lookup(Facts[c].shown) \subseteq {c} \cap DOMAIN catalog
         /\ Unmistakable(c) => Lookup(Facts[c].shown) = {c} \cap DOMAIN catalog
<1> DEFINE id == Facts[c].shown
           matches == Fits[id] \cap DOMAIN catalog
<1>1. id \in Id /\ c \in Fits[id]
  BY FactsOf
<1>2. CASE id \in DOMAIN catalog
  <2>1. id \in Container /\ Fits[id] = {id}
    BY <1>2, MetadataAssumption
  <2> QED BY <1>1, <1>2, <2>1 DEF Lookup
<1>3. CASE id \notin DOMAIN catalog
  <2>1. IsFiniteSet(matches)
    BY FS_Subset, MetadataAssumption
  <2>2. Lookup(id) = IF Cardinality(matches) = 1 THEN matches ELSE {}
    BY <1>3 DEF Lookup
  <2>3. CASE c \in DOMAIN catalog
    <3>1. c \in matches
      BY <1>1, <2>3
    <3>2. Cardinality(matches) = 1 => matches = {c}
      BY <2>1, <3>1, FS_Singleton
    <3>3. Unmistakable(c) => matches = {c}
      BY <2>3 DEF Unmistakable
    <3>4. Cardinality({c}) = 1
      BY FS_Singleton
    <3> HIDE DEF matches
    <3> QED BY <2>2, <2>3, <3>2, <3>3, <3>4
  <2>4. CASE c \notin DOMAIN catalog
    <3>1. matches = {}
      BY <2>4 DEF Similar
    <3> HIDE DEF matches
    <3> QED BY <2>2, <2>4, <3>1
  <2> QED BY <2>3, <2>4
<1> QED BY <1>2, <1>3

\* What the path alone tells.
PathScope(c) == IF Facts[c].uid /\ Facts[c].form # "private" THEN "pod" ELSE "container"
PathRuntime(c) ==
  CASE Facts[c].form = "runtime"  -> Facts[c].runtime
    [] Facts[c].form = "kubepods" -> "cri"
    [] Facts[c].form = "private"  -> NoText

LEMMA FromPathOf ==
  ASSUME NEW c \in Container
  PROVE  /\ FromPath(c).pod = NoText /\ FromPath(c).name = NoText
         /\ FromPath(c).scope = PathScope(c) /\ FromPath(c).runtime = PathRuntime(c)
<1>1. Facts[c].uid \in BOOLEAN
  BY FactsOf
<1>2. CASE Facts[c].form = "runtime"
  BY <1>1, <1>2 DEF FromPath, InPath, Blank, PathScope, PathRuntime, NoText
<1>3. CASE Facts[c].form = "kubepods"
  BY <1>1, <1>3 DEF FromPath, InPath, Blank, PathScope, PathRuntime, NoText
<1>4. CASE Facts[c].form = "private"
  BY <1>1, <1>4 DEF FromPath, InPath, Blank, PathScope, PathRuntime, NoText
<1> QED BY <1>2, <1>3, <1>4, FactsOf

\* What path, catalog and logs tell of c together: found is if the catalog has
\* it, inLog if a log file that fits does, and p, n and r are what the item knows.
Describes(w, c, found, inLog, inPodLog, p, n, r) ==
  IF Facts[c].form = "private" /\ ~found
  THEN w.scope = "host" /\ w.pod = NoText /\ w.name = NoText /\ w.runtime = NoText
  ELSE /\ w.pod = IF inLog \/ inPodLog \/ (found /\ p) THEN Facts[c].pod ELSE NoText
       /\ w.name = IF inLog THEN Facts[c].name ELSE IF found THEN n ELSE NoText
       /\ w.runtime = IF found /\ r THEN Facts[c].runtime ELSE PathRuntime(c)
       /\ w.scope = IF inLog \/ inPodLog \/ (found /\ p) THEN "pod" ELSE PathScope(c)

\* The catalog and the logs tell this of c, and nothing of another container.
Tells(c, found, inLog, p, n, r) ==
  /\ found \in BOOLEAN /\ Lookup(Facts[c].shown) = IF found THEN {c} ELSE {}
  /\ inLog \in BOOLEAN
  /\ Fits[Facts[c].shown] \cap logs.container = IF inLog THEN {c} ELSE {}
  /\ p \in BOOLEAN /\ n # NoText /\ r \in BOOLEAN
  /\ p => Facts[c].pod # NoText
  /\ found => IsEntry(catalog[c], c, p, n, r)

LEMMA WorkloadOf ==
  ASSUME NEW c \in Container, NEW found, NEW inLog, NEW p, NEW n, NEW r,
         Tells(c, found, inLog, p, n, r)
  PROVE  Describes(WorkloadForPath(c), c, found, inLog, HasPodLog(c), p, n, r)
<1> SUFFICES
      ASSUME found \in BOOLEAN, Lookup(Facts[c].shown) = IF found THEN {c} ELSE {},
             inLog \in BOOLEAN,
             Fits[Facts[c].shown] \cap logs.container = IF inLog THEN {c} ELSE {},
             p \in BOOLEAN, n # NoText, r \in BOOLEAN,
             p => Facts[c].pod # NoText, found => IsEntry(catalog[c], c, p, n, r)
      PROVE  Describes(WorkloadForPath(c), c, found, inLog, HasPodLog(c), p, n, r)
  BY DEF Tells
<1> DEFINE fitting == Fits[Facts[c].shown] \cap logs.container
           log     == CHOOSE f \in fitting : TRUE
           from    == FromCatalog(c)
<1>1. inLog => log = c
  <2>1. inLog => log \in fitting
    BY FactsOf
  <2> QED BY <2>1
<1>2. /\ from.pod = IF found /\ p THEN Facts[c].pod ELSE NoText
      /\ from.name = IF found THEN n ELSE NoText
      /\ from.runtime = IF found /\ r THEN Facts[c].runtime ELSE PathRuntime(c)
      /\ from.scope = IF found /\ p THEN "pod" ELSE PathScope(c)
  <2>1. CASE found
    <3>1. Lookup(Facts[c].shown) = {c} /\ IsEntry(catalog[c], c, p, n, r)
      BY <2>1
    <3>2. from = MergeWorkload(FromPath(c), catalog[c])
      BY <3>1 DEF FromCatalog
    <3>3. /\ from.pod = Richer(FromPath(c).pod, catalog[c].pod)
          /\ from.name = Richer(FromPath(c).name, catalog[c].name)
          /\ from.runtime = MergeRuntime(FromPath(c).runtime, catalog[c].runtime)
          /\ from.scope = MergeScope(FromPath(c).scope, catalog[c].scope)
      BY <3>2 DEF MergeWorkload
    <3>4. Facts[c].runtime \notin {NoText, "cri"}
      BY FactsOf
    <3> HIDE DEF from
    <3> QED BY <2>1, <3>1, <3>3, <3>4, FromPathOf
            DEF IsEntry, Richer, MergeRuntime, MergeScope, NoText, PathScope
  <2>2. CASE ~found
    <3>1. from = FromPath(c)
      BY <2>2 DEF FromCatalog
    <3> HIDE DEF from
    <3> QED BY <2>2, <3>1, FromPathOf
  <2> QED BY <2>1, <2>2
<1>3. WorkloadForPath(c) =
        IF Facts[c].form = "private" /\ ~found
        THEN [Blank EXCEPT !.scope = "host"]
        ELSE IF inLog
        THEN [from EXCEPT !.pod = Facts[log].pod, !.name = Facts[log].name, !.scope = "pod"]
        ELSE IF HasPodLog(c)
        THEN [from EXCEPT !.pod = Facts[c].pod, !.scope = "pod"]
        ELSE from
  <2>1. (Lookup(Facts[c].shown) = {}) <=> ~found
    OBVIOUS
  <2>2. (fitting # {}) <=> inLog
    OBVIOUS
  <2> QED BY <2>1, <2>2 DEF WorkloadForPath
<1>4. DOMAIN from = {"scope", "runtime", "pod", "name", "id"}
  <2>1. DOMAIN FromPath(c) = {"scope", "runtime", "pod", "name", "id"}
    BY FactsOf DEF FromPath, InPath, Blank
  <2> QED BY <2>1 DEF FromCatalog, MergeWorkload
<1> HIDE DEF from, log
<1>5. HasPodLog(c) \in BOOLEAN
  BY DEF HasPodLog
<1>6. CASE Facts[c].form = "private" /\ ~found
  BY <1>3, <1>6 DEF Describes, Blank
<1>7. CASE ~(Facts[c].form = "private" /\ ~found) /\ inLog
  <2>1. WorkloadForPath(c) =
          [from EXCEPT !.pod = Facts[c].pod, !.name = Facts[c].name, !.scope = "pod"]
    BY <1>1, <1>3, <1>7
  <2> QED BY <1>2, <1>4, <1>7, <2>1 DEF Describes
<1>8. CASE ~(Facts[c].form = "private" /\ ~found) /\ ~inLog /\ HasPodLog(c)
  <2>1. WorkloadForPath(c) = [from EXCEPT !.pod = Facts[c].pod, !.scope = "pod"]
    BY <1>3, <1>8
  <2> QED BY <1>2, <1>4, <1>8, <2>1 DEF Describes
<1>9. CASE ~(Facts[c].form = "private" /\ ~found) /\ ~inLog /\ ~HasPodLog(c)
  <2>1. WorkloadForPath(c) = from
    BY <1>3, <1>9
  <2> QED BY <1>2, <1>9, <2>1 DEF Describes
<1> QED BY <1>5, <1>6, <1>7, <1>8, <1>9
\* It is what is true of c.
LEMMA OwnWorkload ==
  ASSUME MetadataInv, NEW c \in Container, ~Mistakable(c)
  PROVE  LET w == WorkloadForPath(c)
         IN  /\ w.pod \in {NoText, Facts[c].pod}
             /\ w.name \in {NoText, Facts[c].name, Facts[c].fileName}
             /\ w.scope = "host" => Facts[c].form = "private"
<1> DEFINE w == WorkloadForPath(c)
<1>1. Lookup(Facts[c].shown) \subseteq {c} \cap DOMAIN catalog
  BY LookupOwn DEF Mistakable, MetadataInv, CatalogKnown
<1>2. Fits[Facts[c].shown] \cap logs.container \subseteq {c}
  BY DEF Mistakable, Similar
<1>3. PICK found \in BOOLEAN : found <=> Lookup(Facts[c].shown) # {}
  OBVIOUS
<1>4. PICK inLog \in BOOLEAN : inLog <=> Fits[Facts[c].shown] \cap logs.container # {}
  OBVIOUS
<1>5. \E p, r \in BOOLEAN : \E n \in {Facts[c].name, Facts[c].fileName} :
        /\ found => IsEntry(catalog[c], c, p, n, r)
        /\ p => Facts[c].pod # NoText
  <2>1. CASE found
    BY <1>1, <1>3, <2>1 DEF MetadataInv, CatalogKnown, KnownItem, CanPod
  <2>2. CASE ~found
    BY <2>2
  <2> QED BY <2>1, <2>2
<1>6. PICK p \in BOOLEAN, r \in BOOLEAN, n \in {Facts[c].name, Facts[c].fileName} :
        /\ found => IsEntry(catalog[c], c, p, n, r)
        /\ p => Facts[c].pod # NoText
  BY <1>5
<1>7. n # NoText
  BY <1>6, FactsOf
<1>8. Describes(w, c, found, inLog, HasPodLog(c), p, n, r)
  <2>1. Lookup(Facts[c].shown) = IF found THEN {c} ELSE {}
    BY <1>1, <1>3
  <2>2. Fits[Facts[c].shown] \cap logs.container = IF inLog THEN {c} ELSE {}
    BY <1>2, <1>4
  <2>3. Tells(c, found, inLog, p, n, r)
    BY <1>6, <1>7, <2>1, <2>2 DEF Tells
  <2> QED BY <2>3, WorkloadOf, Zenon
<1> HIDE DEF w
<1>9. HasPodLog(c) \in BOOLEAN
  BY DEF HasPodLog
<1>10. w.scope = "host" => Facts[c].form = "private"
  BY <1>8, <1>9 DEF Describes, PathScope
<1>11. w.pod \in {NoText, Facts[c].pod}
  BY <1>8, <1>9 DEF Describes
<1>12. w.name \in {NoText, Facts[c].name, Facts[c].fileName}
  BY <1>6, <1>8, <1>9 DEF Describes
<1> QED BY <1>10, <1>11, <1>12 DEF w
-----------------------------------------------------------------------------
(* What is published from one snapshot to the next.                        *)

LogOf(c) == "container" \in Facts[c].logs
PodLogOf(c) == Facts[c].uid /\ Facts[c].form # "private" /\ "pod" \in Facts[c].logs
Hidden(c, found) == Facts[c].form = "private" /\ ~found

\* c was published as w, with no more than its logs and a catalog tell that has
\* found it or not, with its Pod and its runtime or not.
HasPod(c, found, p) ==
  Facts[c].pod # NoText /\ ~Hidden(c, found) /\ (LogOf(c) \/ PodLogOf(c) \/ (found /\ p))
HasName(c, found) == ~Hidden(c, found) /\ (LogOf(c) \/ found)
HasRuntime(c, found, r) == Facts[c].form = "runtime" \/ (found /\ r)
HasScope(c, found, p) ==
  ~Hidden(c, found) /\ (LogOf(c) \/ PodLogOf(c) \/ (found /\ p) \/ PathScope(c) = "pod")
AtMost(w, c, found, p, r) ==
  /\ w.pod # NoText => HasPod(c, found, p)
  /\ w.name # NoText => HasName(c, found)
  /\ w.runtime \notin {NoText, "cri"} => HasRuntime(c, found, r)
  /\ w.scope = "pod" => HasScope(c, found, p)

\* The names are no less; the same for the names that the catalog tells alone, and
\* for the runtime.
NamesAtLeast(w, c, found, p) ==
  /\ HasPod(c, found, p) => w.pod # NoText
  /\ HasName(c, found) => w.name # NoText
  /\ HasScope(c, found, p) => w.scope = "pod"
FoundAtLeast(w, c, found, p) ==
  found => /\ w.name # NoText
           /\ p /\ Facts[c].pod # NoText => w.pod # NoText /\ w.scope = "pod"
RuntimeAtLeast(w, c, found, r) ==
  HasRuntime(c, found, r) => w.runtime \notin {NoText, "cri"}

\* What is published is what the catalog tells until it is made anew, and at all
\* times no more than could be known.
Cached == step \in {"waiting", "due", "catalog"} \/ (step = "scan" /\ fresh # TTL)
PodInCatalog(c) == catalog[c].pod # NoText
RuntimeInCatalog(c) == catalog[c].runtime # NoText
PublishedInv ==
  \A c \in DOMAIN published : Unmistakable(c) =>
    /\ AtMost(published[c], c, CanList(c), CanPod(c), CanList(c))
    /\ Cached =>
         AtMost(published[c], c, c \in DOMAIN catalog, PodInCatalog(c), RuntimeInCatalog(c))

\* The logs that were read are containers' own.
LogsInv ==
  /\ \A c \in logs.container : LogOf(c)
  /\ \A c \in logs.pod : "pod" \in Facts[c].logs

LEMMA MoreKnown ==
  ASSUME NEW w, NEW c,
         NEW f \in BOOLEAN, NEW p \in BOOLEAN, NEW r \in BOOLEAN,
         NEW f2 \in BOOLEAN, NEW p2 \in BOOLEAN, NEW r2 \in BOOLEAN,
         f => f2, f /\ p => p2, f /\ r => r2
  PROVE  /\ AtMost(w, c, f, p, r) => AtMost(w, c, f2, p2, r2)
         /\ NamesAtLeast(w, c, f2, p2) => NamesAtLeast(w, c, f, p)
         /\ RuntimeAtLeast(w, c, f2, r2) => RuntimeAtLeast(w, c, f, r)
  BY DEF AtMost, NamesAtLeast, RuntimeAtLeast, HasPod, HasName, HasRuntime, HasScope, Hidden

LEMMA NotPoorer ==
  ASSUME NEW new, NEW old, NEW c, NEW f, NEW p, NEW r, AtMost(old, c, f, p, r)
  PROVE  /\ NamesAtLeast(new, c, f, p) => ~NamesLost(new, old)
         /\ RuntimeAtLeast(new, c, f, r) => ~RuntimeLost(new, old)
  BY DEF AtMost, NamesAtLeast, RuntimeAtLeast, NamesLost, RuntimeLost

LEMMA DescribesAtMost ==
  ASSUME NEW w, NEW c \in Container, NEW found \in BOOLEAN, NEW inLog \in BOOLEAN,
         NEW inPodLog \in BOOLEAN, NEW p \in BOOLEAN, NEW n, NEW r \in BOOLEAN,
         Describes(w, c, found, inLog, inPodLog, p, n, r),
         n # NoText, p => Facts[c].pod # NoText, 
         inLog => LogOf(c), inPodLog => PodLogOf(c)
  PROVE  /\ AtMost(w, c, found, p, r)
         /\ RuntimeAtLeast(w, c, found, r) /\ FoundAtLeast(w, c, found, p)
         /\ (inLog <=> LogOf(c)) /\ (inPodLog <=> PodLogOf(c)) => NamesAtLeast(w, c, found, p)
<1>1. /\ Facts[c].runtime \notin {NoText, "cri"} /\ Facts[c].name # NoText
      /\ Facts[c].form \in {"runtime", "kubepods", "private"}
  BY FactsOf
<1>2. PathRuntime(c) \notin {NoText, "cri"} <=> Facts[c].form = "runtime"
  BY <1>1 DEF PathRuntime
<1>3. PathRuntime(c) = NoText <=> Facts[c].form = "private"
  BY <1>1 DEF PathRuntime, NoText
<1>4. PathScope(c) = "pod" => Facts[c].form # "private"
  BY DEF PathScope
<1>5. AtMost(w, c, found, p, r)
  BY <1>1, <1>2, <1>3, <1>4
     DEF Describes, AtMost, HasPod, HasName, HasRuntime, HasScope, Hidden, NoText
<1>6. ASSUME inLog <=> LogOf(c), inPodLog <=> PodLogOf(c) PROVE NamesAtLeast(w, c, found, p)
  BY <1>1, <1>3, <1>4, <1>6
     DEF Describes, NamesAtLeast, HasPod, HasName, HasScope, Hidden, NoText
<1>7. RuntimeAtLeast(w, c, found, r)
  BY <1>1, <1>2 DEF Describes, RuntimeAtLeast, HasRuntime
<1>8. FoundAtLeast(w, c, found, p)
  BY <1>1 DEF Describes, FoundAtLeast
<1> QED BY <1>5, <1>6, <1>7, <1>8

\* What c would be published as now.
LEMMA PublishedNow ==
  ASSUME MetadataInv, LogsInv, NEW c \in Container, Unmistakable(c)
  PROVE  LET w == WorkloadForPath(c)
         IN  /\ AtMost(w, c, c \in DOMAIN catalog, PodInCatalog(c), RuntimeInCatalog(c))
             /\ AtMost(w, c, CanList(c), CanPod(c), CanList(c))
             /\ RuntimeAtLeast(w, c, c \in DOMAIN catalog, RuntimeInCatalog(c))
             /\ FoundAtLeast(w, c, c \in DOMAIN catalog, PodInCatalog(c))
             /\ ~LogsUnread(c) => NamesAtLeast(w, c, c \in DOMAIN catalog, PodInCatalog(c))
<1> DEFINE w == WorkloadForPath(c)
           found == c \in DOMAIN catalog
           inLog == c \in logs.container
<1>1. Fits[Facts[c].shown] = {c} /\ Similar(c) = {}
  BY DEF Unmistakable, Similar
<1>2. Lookup(Facts[c].shown) = IF found THEN {c} ELSE {}
  <2>1. Lookup(Facts[c].shown) = {c} \cap DOMAIN catalog
    BY <1>1, LookupOwn DEF MetadataInv, CatalogKnown
  <2> QED BY <2>1
<1>3. Fits[Facts[c].shown] \cap logs.container = IF inLog THEN {c} ELSE {}
  BY <1>1
<1>4. \E p, r \in BOOLEAN : \E n \in {Facts[c].name, Facts[c].fileName} :
        /\ found => IsEntry(catalog[c], c, p, n, r) /\ CanList(c)
        /\ p => CanPod(c)
  <2>1. CASE found
    BY <2>1 DEF MetadataInv, CatalogKnown, KnownItem
  <2>2. CASE ~found
    BY <2>2
  <2> QED BY <2>1, <2>2
<1>5. PICK p \in BOOLEAN, r \in BOOLEAN, n \in {Facts[c].name, Facts[c].fileName} :
        /\ found => IsEntry(catalog[c], c, p, n, r) /\ CanList(c)
        /\ p => CanPod(c)
  BY <1>4
<1>6. n # NoText /\ (p => Facts[c].pod # NoText)
  BY <1>5, FactsOf DEF CanPod
<1>7. found \in BOOLEAN /\ inLog \in BOOLEAN
  OBVIOUS
<1> HIDE DEF found, inLog
<1>8. Describes(w, c, found, inLog, HasPodLog(c), p, n, r)
  <2>1. Tells(c, found, inLog, p, n, r)
    BY <1>2, <1>3, <1>5, <1>6, <1>7 DEF Tells
  <2> QED BY <2>1, WorkloadOf, Zenon
<1>9. /\ HasPodLog(c) \in BOOLEAN
      /\ inLog => LogOf(c)
      /\ HasPodLog(c) => PodLogOf(c)
  BY DEF HasPodLog, PodLogOf, LogsInv, inLog
<1>10. ~LogsUnread(c) => (inLog <=> LogOf(c)) /\ (HasPodLog(c) <=> PodLogOf(c))
  BY <1>9 DEF HasPodLog, PodLogOf, LogOf, LogsUnread, inLog
<1>11. found => (p <=> PodInCatalog(c)) /\ (r <=> RuntimeInCatalog(c))
  BY <1>5, <1>6, FactsOf DEF IsEntry, PodInCatalog, RuntimeInCatalog
<1>12. /\ PodInCatalog(c) \in BOOLEAN /\ RuntimeInCatalog(c) \in BOOLEAN
       /\ CanList(c) \in BOOLEAN /\ CanPod(c) \in BOOLEAN
  BY DEF PodInCatalog, RuntimeInCatalog, CanList, CanPod
<1> HIDE DEF w
<1>13. /\ AtMost(w, c, found, p, r)
       /\ RuntimeAtLeast(w, c, found, r) /\ FoundAtLeast(w, c, found, p)
       /\ (inLog <=> LogOf(c)) /\ (HasPodLog(c) <=> PodLogOf(c)) => NamesAtLeast(w, c, found, p)
  BY <1>5, <1>6, <1>8, <1>9, <1>7, DescribesAtMost
<1>14. AtMost(w, c, found, PodInCatalog(c), RuntimeInCatalog(c))
  BY <1>5, <1>11, <1>12, <1>7, <1>13, MoreKnown
<1>15. AtMost(w, c, CanList(c), CanPod(c), CanList(c))
  BY <1>5, <1>12, <1>7, <1>13, MoreKnown
<1>16. /\ RuntimeAtLeast(w, c, found, RuntimeInCatalog(c))
       /\ NamesAtLeast(w, c, found, p) => NamesAtLeast(w, c, found, PodInCatalog(c))
  BY <1>5, <1>11, <1>12, <1>7, <1>13, MoreKnown
<1>17. FoundAtLeast(w, c, found, PodInCatalog(c))
  BY <1>11, <1>13 DEF FoundAtLeast
<1>18. ~LogsUnread(c) => NamesAtLeast(w, c, found, PodInCatalog(c))
  BY <1>10, <1>13, <1>16
<1> QED BY <1>14, <1>15, <1>16, <1>17, <1>18 DEF w, found

LEMMA NamesInit == Init => LogsInv /\ PublishedInv
  BY DEF Init, LogsInv, PublishedInv, NoLogs

LEMMA LogsNext == MetadataInv /\ LogsInv /\ [Next]_vars => LogsInv'
<1> SUFFICES ASSUME MetadataInv, LogsInv, [Next]_vars PROVE LogsInv'
  OBVIOUS
<1> USE DEF LogsInv, LogOf
<1>1. CASE LoadLogs
  BY <1>1 DEF LoadLogs
<1>2. CASE Scan
  BY <1>2 DEF Scan, NoLogs
<1>3. CASE UNCHANGED logs
  BY <1>3
<1> QED
  BY <1>1, <1>2, <1>3
     DEF Next, CollectorStep, vars, UseCache, BeginRefresh, MergeResult, LoadDocker, LoadOCI,
         ListContainers, DescribeContainers, Tick, StartContainer, RemoveContainer, Recover

LEMMA PublishedNext == MetadataInv /\ LogsInv /\ PublishedInv /\ [Next]_vars => PublishedInv'
<1> SUFFICES ASSUME MetadataInv, LogsInv, PublishedInv, [Next]_vars PROVE PublishedInv'
  OBVIOUS
<1>1. CASE Scan
  <2>1. /\ published' = [c \in Alive |-> WorkloadForPath(c)]
        /\ UNCHANGED catalog
    BY <1>1 DEF Scan, cache
  <2> SUFFICES ASSUME NEW c \in DOMAIN published', Unmistakable(c)
               PROVE  /\ AtMost(published'[c], c, CanList(c), CanPod(c), CanList(c))
                      /\ AtMost(published'[c], c, c \in DOMAIN catalog',
                                PodInCatalog(c)', RuntimeInCatalog(c)')
    BY DEF PublishedInv, Unmistakable, CanList, CanPod, AtMost, HasPod, HasName, HasRuntime,
           HasScope, Hidden, LogOf, PodLogOf, PathScope
  <2>2. c \in Container /\ published'[c] = WorkloadForPath(c)
    BY <2>1 DEF Alive
  <2>3. /\ AtMost(published'[c], c, c \in DOMAIN catalog, PodInCatalog(c), RuntimeInCatalog(c))
        /\ AtMost(published'[c], c, CanList(c), CanPod(c), CanList(c))
    BY <2>2, PublishedNow
  <2> QED BY <2>1, <2>3 DEF PodInCatalog, RuntimeInCatalog
<1>2. CASE UNCHANGED published /\ ~Cached'
  BY <1>2 DEF PublishedInv, Unmistakable, AtMost, HasPod, HasName, HasRuntime, HasScope
<1>3. CASE UNCHANGED <<published, catalog>> /\ Cached
  BY <1>3 DEF PublishedInv, PodInCatalog, RuntimeInCatalog
<1> QED
  <2> USE DEF world, refresh, cache
  <2>1. CASE LoadLogs
    BY <1>3, <2>1 DEF LoadLogs, Cached
  <2>2. CASE UseCache
    BY <1>3, <2>2 DEF UseCache, Cached
  <2>3. CASE BeginRefresh \/ MergeResult \/ LoadDocker \/ LoadOCI
    BY <1>2, <2>3 DEF BeginRefresh, MergeResult, LoadDocker, LoadOCI, AllIn, Cached
  <2>4. ASSUME NEW e \in Endpoint, ListContainers(e) \/ DescribeContainers(e)
        PROVE  PublishedInv'
    BY <1>2, <2>4 DEF ListContainers, DescribeContainers, Pending, Cached
  <2>5. CASE Tick
    <3>1. CASE step = "calls"
      BY <1>2, <2>5, <3>1 DEF Tick, Cached
    <3>2. CASE step # "calls"
      BY <1>3, <2>5, <3>2 DEF Tick, Cached
    <3> QED BY <3>1, <3>2
  <2>6. CASE UNCHANGED <<step, fresh, published, catalog>>
    <3>1. Cached' <=> Cached
      BY <2>6 DEF Cached
    <3> QED BY <1>2, <1>3, <2>6, <3>1
  <2>7. ASSUME NEW d \in Container, StartContainer(d) \/ RemoveContainer(d)
        PROVE  PublishedInv'
    BY <2>6, <2>7 DEF StartContainer, RemoveContainer
  <2>8. ASSUME NEW e \in Endpoint, Recover(e) PROVE PublishedInv'
    BY <2>6, <2>8 DEF Recover
  <2>9. CASE UNCHANGED vars
    BY <2>6, <2>9 DEF vars
  <2> QED BY <1>1, <2>1, <2>2, <2>3, <2>4, <2>5, <2>7, <2>8, <2>9 DEF Next, CollectorStep

\* If nothing that has c has failed, the new catalog has all that could be known.
LEMMA AllKnown ==
  ASSUME MetadataInv, Refreshed, NEW c \in Container, ~Failed(c)
  PROVE  /\ CanList(c) => c \in DOMAIN catalog /\ RuntimeInCatalog(c)
         /\ CanList(c) /\ CanPod(c) => PodInCatalog(c)
<1>1. MergedFrom(Endpoint)
  BY DEF MetadataInv, Merging
<1>2. /\ \A e \in Endpoint : c \in Serves[e] =>
           c \in answer[e].listed /\ c \in answer[e].sandboxes /\ answer[e].version
      /\ \A k \in Facts[c].files : k \in {"docker", "oci"} /\ c \in files[k]
  BY FactsOf DEF Failed
<1> SUFFICES ASSUME CanList(c)
             PROVE  /\ c \in DOMAIN catalog /\ RuntimeInCatalog(c)
                    /\ CanPod(c) => PodInCatalog(c)
  OBVIOUS
<1>3. ListedFrom(c, Endpoint) /\ RuntimeFrom(c, Endpoint)
  BY <1>2 DEF CanList, ListedFrom, RuntimeFrom, ReadFrom
<1>4. CanPod(c) => PodFrom(c, Endpoint)
  BY <1>2 DEF CanPod, PodFrom
<1>5. c \in DOMAIN catalog
  BY <1>1, <1>3 DEF MergedFrom
<1>6. IsEntry(catalog[c], c, PodFrom(c, Endpoint), NameKnown(c), RuntimeFrom(c, Endpoint))
  BY <1>1, <1>5 DEF MergedFrom
<1>7. RuntimeInCatalog(c)
  BY <1>3, <1>6, FactsOf DEF IsEntry, RuntimeInCatalog
<1>8. CanPod(c) => PodInCatalog(c)
  BY <1>4, <1>6 DEF IsEntry, PodInCatalog, CanPod
<1> QED BY <1>5, <1>7, <1>8

LEMMA NotLost ==
  ASSUME MetadataInv, LogsInv, PublishedInv, [Next]_vars, ~UNCHANGED vars,
         NEW c \in DOMAIN published \cap DOMAIN published', Unmistakable(c)
  PROVE  Kept(c, published'[c], published[c])
<1> DEFINE new   == published'[c]
           old   == published[c]
           found == c \in DOMAIN catalog
<1>1. CASE UNCHANGED published
  <2>1. ~RuntimeLost(old, old) /\ ~NamesLost(old, old)
    BY DEF RuntimeLost, NamesLost
  <2> QED BY <1>1, <2>1 DEF Kept
<1>2. CASE Scan
  <2>1. step = "scan" /\ published' = [x \in Alive |-> WorkloadForPath(x)]
    BY <1>2 DEF Scan
  <2>2. c \in Container /\ new = WorkloadForPath(c)
    BY <2>1 DEF Alive
  <2>3. /\ RuntimeAtLeast(new, c, found, RuntimeInCatalog(c))
        /\ FoundAtLeast(new, c, found, PodInCatalog(c))
        /\ ~LogsUnread(c) => NamesAtLeast(new, c, found, PodInCatalog(c))
    BY <2>2, PublishedNow
  <2> HIDE DEF new
  <2>4. ASSUME ~Refreshed
        PROVE  ~RuntimeLost(new, old) /\ (~LogsUnread(c) => ~NamesLost(new, old))
    <3>1. Cached
      BY <2>1, <2>4 DEF Cached, Refreshed
    <3>2. AtMost(old, c, found, PodInCatalog(c), RuntimeInCatalog(c))
      BY <3>1 DEF PublishedInv
    <3> HIDE DEF old, found
    <3> QED BY <2>3, <3>2, NotPoorer
  <2>5. ASSUME Refreshed, ~Failed(c)
        PROVE  /\ ~RuntimeLost(new, old)
               /\ ~LogsUnread(c) \/ Told(c) => ~NamesLost(new, old)
    <3>1. AtMost(old, c, CanList(c), CanPod(c), CanList(c))
      BY DEF PublishedInv
    <3>2. /\ CanList(c) => found
          /\ CanList(c) /\ CanPod(c) => PodInCatalog(c)
          /\ CanList(c) /\ CanList(c) => RuntimeInCatalog(c)
      BY <2>2, <2>5, AllKnown
    <3>3. /\ PodInCatalog(c) \in BOOLEAN /\ RuntimeInCatalog(c) \in BOOLEAN
          /\ CanList(c) \in BOOLEAN /\ CanPod(c) \in BOOLEAN /\ found \in BOOLEAN
      BY DEF PodInCatalog, RuntimeInCatalog, CanList, CanPod
    <3> HIDE DEF old, found
    <3>4. /\ RuntimeAtLeast(new, c, CanList(c), CanList(c))
          /\ ~LogsUnread(c) => NamesAtLeast(new, c, CanList(c), CanPod(c))
      BY <2>3, <3>2, <3>3, MoreKnown
    <3>5. ASSUME Told(c) PROVE NamesAtLeast(new, c, CanList(c), CanPod(c))
      <4>1. CanList(c) /\ CanPod(c) /\ Facts[c].pod # NoText
        BY <3>5 DEF Told, CanList, CanPod
      <4> QED BY <2>3, <3>2, <4>1 DEF FoundAtLeast, NamesAtLeast
    <3> QED BY <3>1, <3>4, <3>5, NotPoorer
  <2> QED BY <2>4, <2>5 DEF Kept, new, old
<1> QED
  BY <1>1, <1>2
     DEF Next, CollectorStep, world, refresh, cache, LoadLogs, UseCache, BeginRefresh,
         MergeResult, LoadDocker, LoadOCI, ListContainers, DescribeContainers, Tick,
         StartContainer, RemoveContainer, Recover

-----------------------------------------------------------------------------

\* The invariant holds in every state.
THEOREM MetadataInvariant == Spec => []MetadataInv
<1>1. Init => MetadataInv
  BY MetadataInit
<1>2. MetadataInv /\ [Next]_vars => MetadataInv'
  BY MetadataNext
<1> QED BY <1>1, <1>2, PTL DEF Spec

\* Every variable has its type, and no item of the catalog has the placeholder
\* for a runtime, the ID of another container or no scope.
THEOREM MetadataTypeCorrect == Spec => []TypeOK
<1>1. MetadataInv => TypeOK
  BY KnownType DEF MetadataInv, Fields, TypeOK, Result
<1> QED BY <1>1, MetadataInvariant, PTL

\* A refresh leaves in the catalog all that was answered to it and read by it,
\* whichever endpoints fail at whichever calls, in whatever order they finish.
THEOREM NothingAnsweredIsLost == Spec => []AnswersMerged
<1>1. MetadataInv => AnswersMerged
  <2> SUFFICES ASSUME MetadataInv, Refreshed PROVE
        /\ DOMAIN catalog = {c \in Container : ListedBy(c) # {} \/ ReadFrom(c) # {}}
        /\ \A c \in DOMAIN catalog :
             /\ catalog[c].pod = IF PodKnown(c) THEN Facts[c].pod ELSE NoText
             /\ catalog[c].scope = IF PodKnown(c) THEN "pod" ELSE "container"
             /\ catalog[c].name = NameKnown(c)
             /\ catalog[c].runtime = IF RuntimeKnown(c) THEN Facts[c].runtime ELSE NoText
    BY DEF AnswersMerged
  <2>1. MergedFrom(Endpoint)
    BY DEF MetadataInv, Merging
  <2>2. \A c : /\ ListedFrom(c, Endpoint) <=> (ListedBy(c) # {} \/ ReadFrom(c) # {})
               /\ PodFrom(c, Endpoint) <=> PodKnown(c)
               /\ RuntimeFrom(c, Endpoint) <=> RuntimeKnown(c)
    BY DEF ListedFrom, ListedBy, PodFrom, PodKnown, RuntimeFrom, RuntimeKnown
  <2> QED BY <2>1, <2>2 DEF MergedFrom, IsEntry
<1> QED BY <1>1, MetadataInvariant, PTL
\* No container is published under the Pod or the name of another one, but by a
\* path or a log that fits both.
THEOREM NoOtherNames == Spec => []NeverInvented
<1>1. MetadataInv => NeverInvented
  BY OwnWorkload DEF NeverInvented, Alive
<1> QED BY <1>1, MetadataInvariant, PTL
\* From one snapshot to the next a container loses its runtime only in a refresh
\* in which a source that has it failed, and its names in such a refresh or while
\* its logs cannot be read, if they are not told by a refresh that does not fail.
THEOREM NamesAreKept == Spec => NamesKept
<1>1. Init => MetadataInv /\ LogsInv /\ PublishedInv
  BY MetadataInit, NamesInit
<1>2. MetadataInv /\ LogsInv /\ PublishedInv /\ [Next]_vars
      => (MetadataInv /\ LogsInv /\ PublishedInv)'
  BY MetadataNext, LogsNext, PublishedNext
<1>3. MetadataInv /\ LogsInv /\ PublishedInv /\ [Next]_vars =>
        [\A c \in DOMAIN published \cap DOMAIN published' :
           Unmistakable(c) => Kept(c, published'[c], published[c])]_vars
  BY NotLost
<1> QED BY <1>1, <1>2, <1>3, PTL DEF Spec, NamesKept
=============================================================================
