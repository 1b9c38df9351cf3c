------------------------ MODULE SnapshotFile_proofs ------------------------
(***************************************************************************)
(* The snapshot file is a register of whole snapshots, for every number of *)
(* windows, restarts, failures and kills.                                  *)
(***************************************************************************)
EXTENDS SnapshotFile, TLAPS

\* The types make SnapshotFile's states finite; what makes it a register is
\* that a temporary file is newer than the file it will replace, and whole
\* from Flush on.
WholeOrNone(file) == file = None \/ Whole(file)

NewerTemp ==
  /\ WholeOrNone(path)
  /\ \A s \in Section : WholeOrNone(loaded[s])
  /\ path.window <= window
  /\ writer \notin {"down", "capture"} =>
       /\ temp.window = window
       /\ path.window < window
  /\ writer \in {"sync", "close", "rename"} => Whole(temp)

\* A snapshot is a record of its two fields.
LEMMA SnapshotFields ==
  /\ None \in [window : Nat, groups : Nat] /\ None.window = 0 /\ None.groups = 0
  /\ \A w, n : Snapshot(w, n).window = w /\ Snapshot(w, n).groups = n
  BY DEF None, Snapshot

\* Every variable keeps its type.
THEOREM SnapshotFileTypes == Spec => []TypeOK
<1> USE SnapshotFileAssumption DEF NGroups, Snapshot
<1>1. Init => TypeOK
  <2> SUFFICES ASSUME Init PROVE TypeOK
    OBVIOUS
  <2>1. 0 \in 0..MaxStarts /\ 0 \in 0..MaxGeneration /\ 0 \in 0..4
    OBVIOUS
  <2>2. loaded \in [Section -> Files \cup {None}]
    BY DEF Init, Empty
  <2> QED BY <2>1, <2>2 DEF Init, TypeOK
<1>2. TypeOK /\ [Next]_vars => TypeOK'
  <2> SUFFICES ASSUME TypeOK, [Next]_vars PROVE TypeOK'
    OBVIOUS
  <2> USE DEF TypeOK
  <2>1. CASE StartCollector
    BY <2>1 DEF StartCollector, reading
  <2>2. CASE CreateTemp
    <3>1. temp' \in Files /\ temp' # None
      BY <2>2 DEF CreateTemp, Files, None
    <3> QED BY <2>2, <3>1 DEF CreateTemp, reading
  <2>3. CASE Chmod
    BY <2>3 DEF Chmod, reading
  <2>4. CASE PrintRecords
    <3>0. temp \in Files /\ temp # None
      BY <2>4 DEF PrintRecords
    <3>1. CASE buffered' = buffered + 1 /\ UNCHANGED temp
      <4>1. buffered' \in 0..NGroups
        BY <2>4, <3>0, <3>1 DEF PrintRecords, Files
      <4> QED BY <2>4, <3>1, <4>1 DEF PrintRecords, reading
    <3>2. CASE temp' = [temp EXCEPT !.groups = @ + buffered + 1] /\ buffered' = 0
      <4>1. temp' \in Files /\ temp'.groups > 0
        BY <2>4, <3>0, <3>2 DEF PrintRecords, Files
      <4>2. temp' # None
        BY <4>1 DEF None
      <4> QED BY <2>4, <3>2, <4>1, <4>2 DEF PrintRecords, reading
    <3> QED BY <2>4, <3>1, <3>2 DEF PrintRecords
  <2>5. CASE Flush
    <3>0. temp \in Files /\ temp # None
      BY <2>5 DEF Flush
    <3>1. temp' \in Files /\ temp'.groups = 4
      BY <2>5, <3>0 DEF Flush, Files
    <3>2. temp' # None
      BY <3>1 DEF None
    <3> QED BY <2>5, <3>1, <3>2 DEF Flush, reading
  <2>6. CASE SyncAndClose
    BY <2>6 DEF SyncAndClose, reading
  <2>7. CASE Rename
    BY <2>7 DEF Rename, reading
  <2>8. CASE WriteFails
    BY <2>8 DEF WriteFails, reading
  <2>9. CASE Killed
    BY <2>9 DEF Killed, reading
  <2>10. CASE LoadMeta
    BY <2>10 DEF LoadMeta, Empty, Section, writing
  <2>11. CASE LoadRecords
    BY <2>11 DEF LoadRecords, Section, writing
  <2>12. CASE UNCHANGED vars
    BY <2>12 DEF vars, writing, reading
  <2> QED BY <2>1, <2>2, <2>3, <2>4, <2>5, <2>6, <2>7, <2>8, <2>9, <2>10, <2>11, <2>12
          DEF Next, CollectorStep, ReaderStep
<1> QED BY <1>1, <1>2, PTL DEF Spec

\* The strengthening: temporary files are newer than the file, and whole
\* before they take its place.
LEMMA TempIsNewer == Spec => []NewerTemp
<1> USE SnapshotFileAssumption DEF NGroups
<1>1. Init => NewerTemp
  BY DEF Init, NewerTemp, WholeOrNone, Empty, None, Snapshot
<1>2. TypeOK /\ NewerTemp /\ [Next]_vars => NewerTemp'
  <2> SUFFICES ASSUME TypeOK, NewerTemp, [Next]_vars PROVE NewerTemp'
    OBVIOUS
  <2>0. path.window \in Nat /\ window \in Nat
    BY DEF TypeOK, Files, None, Snapshot
  <2>1. CASE StartCollector
    BY <2>1 DEF StartCollector, NewerTemp, reading
  <2>2. CASE CreateTemp
    <3>1. temp'.window = window + 1
      BY <2>2 DEF CreateTemp, Snapshot
    <3> QED BY <2>0, <2>2, <3>1 DEF CreateTemp, NewerTemp, reading
  <2>3. CASE Chmod
    BY <2>3 DEF Chmod, NewerTemp, reading
  <2>4. CASE PrintRecords
    <3>0. temp \in Files
      BY <2>4 DEF PrintRecords, TypeOK
    <3>1. temp'.window = temp.window
      BY <2>4, <3>0 DEF PrintRecords, Files
    <3> QED BY <2>4, <3>1 DEF PrintRecords, NewerTemp, reading
  <2>5. CASE Flush
    <3>0. temp \in Files
      BY <2>5 DEF Flush, TypeOK
    <3>1. temp'.window = temp.window /\ temp'.groups = 4
      BY <2>5, <3>0 DEF Flush, Files, TypeOK
    <3>2. Whole(temp')
      BY <3>1 DEF Whole, None, Snapshot
    <3> QED BY <2>5, <3>1, <3>2 DEF Flush, NewerTemp, reading, Whole
  <2>6. CASE SyncAndClose
    BY <2>6 DEF SyncAndClose, NewerTemp, reading, Whole
  <2>7. CASE Rename
    <3>1. Whole(temp) /\ temp.window = window
      BY <2>7 DEF Rename, NewerTemp
    <3> QED BY <2>0, <2>7, <3>1 DEF Rename, NewerTemp, reading, WholeOrNone, Whole
  <2>8. CASE WriteFails
    BY <2>8 DEF WriteFails, NewerTemp, reading
  <2>9. CASE Killed
    BY <2>9 DEF Killed, NewerTemp, reading
  <2>10. CASE LoadMeta
    BY <2>10 DEF LoadMeta, NewerTemp, WholeOrNone, Whole, Empty, writing
  <2>11. CASE LoadRecords
    BY <2>11 DEF LoadRecords, NewerTemp, WholeOrNone, Whole, writing, TypeOK
  <2>12. CASE UNCHANGED vars
    BY <2>12 DEF vars, writing, reading, NewerTemp, WholeOrNone, Whole
  <2> QED BY <2>1, <2>2, <2>3, <2>4, <2>5, <2>6, <2>7, <2>8, <2>9, <2>10, <2>11, <2>12
          DEF Next, CollectorStep, ReaderStep
<1> QED BY <1>1, <1>2, SnapshotFileTypes, PTL DEF Spec

\* WriteSnapshot and load_net_snapshot implement the register: readers get
\* whole snapshots, ever newer ones, however many writes fail or are killed.
THEOREM ImplementsRegister == Spec => IsRegister
<1> USE SnapshotFileAssumption
<1>1. Init => Register!Init
  BY DEF Init, Register!Init, Number, Empty, Register!None
<1>2. TypeOK /\ NewerTemp /\ [Next]_vars => [Register!Next]_(Register!regvars)
  <2> SUFFICES ASSUME TypeOK, NewerTemp, [Next]_vars
               PROVE  [Register!Next]_(Register!regvars)
    OBVIOUS
  <2>1. CASE UNCHANGED <<path, loaded>>
    BY <2>1 DEF Register!regvars
  <2>2. CASE Rename
    <3>1. Whole(temp) /\ temp.window = window /\ path.window < window
          /\ window \in 0..MaxGeneration
      BY <2>2 DEF Rename, NewerTemp, TypeOK
    <3>2. Number(path') = window
      BY <2>2, <3>1 DEF Rename, Number, Whole
    <3>3. Number(path) = IF path = None THEN 0 ELSE path.window
      BY DEF Number, NewerTemp, WholeOrNone
    <3>4. path.window \in Nat /\ None.window = 0
      BY DEF TypeOK, Files, None, Snapshot
    <3>5. Number(path') \in (Number(path) + 1)..MaxGeneration
      BY <3>1, <3>2, <3>3, <3>4
    <3>6. UNCHANGED loaded
      BY <2>2 DEF Rename, reading
    <3> QED BY <3>5, <3>6 DEF Register!Next, Register!Publish
  <2>3. CASE LoadMeta
    <3>0. UNCHANGED path
      BY <2>3 DEF LoadMeta
    <3>1. CASE loaded' = Empty
      <4>1. \A s \in Section : Number(loaded'[s]) = 0
        BY <3>1 DEF Empty, Number
      <4> QED BY <3>0, <4>1 DEF Register!Next, Register!Restart, Register!None
    <3>2. CASE loaded' = [Empty EXCEPT !["M"] = path]
      <4>1. \A s \in Section :
              Number(loaded'[s]) = IF s = "M" THEN Number(path) ELSE 0
        BY <3>2 DEF Empty, Number
      <4>2. Register!RestartAndLoad("M")
        BY <3>0, <4>1 DEF Register!RestartAndLoad, Register!None
      <4> QED BY <4>2 DEF Register!Next, Section
    <3> QED BY <2>3, <3>1, <3>2 DEF LoadMeta
  <2>4. CASE LoadRecords
    <3>1. reader \in Section /\ loaded' = [loaded EXCEPT ![reader] = path]
          /\ UNCHANGED path
      BY <2>4 DEF LoadRecords, Section
    <3>2. \A s \in Section :
            Number(loaded'[s]) = IF s = reader THEN Number(path) ELSE Number(loaded[s])
      BY <3>1 DEF TypeOK
    <3>3. Register!Load(reader)
      BY <3>1, <3>2 DEF Register!Load
    <3> QED BY <3>1, <3>3 DEF Register!Next
  <2> QED BY <2>1, <2>2, <2>3, <2>4
          DEF Next, CollectorStep, ReaderStep, StartCollector, CreateTemp, Chmod,
              PrintRecords, Flush, SyncAndClose, WriteFails, Killed, vars, reading
<1> QED BY <1>1, <1>2, SnapshotFileTypes, TempIsNewer, PTL
        DEF Spec, IsRegister, Register!Spec

\* Only a kill in the middle of a call leaves a temporary file behind.
THEOREM NoLitterFromFailures == Spec => []LitterOnlyFromKills
<1>1. Init => LitterOnlyFromKills
  BY DEF Init, LitterOnlyFromKills
<1>2. TypeOK /\ LitterOnlyFromKills /\ [Next]_vars => LitterOnlyFromKills'
  BY DEF TypeOK, LitterOnlyFromKills, Next, CollectorStep, ReaderStep, StartCollector,
         CreateTemp, Chmod, PrintRecords, Flush, SyncAndClose, Rename, WriteFails,
         Killed, LoadMeta, LoadRecords, vars, writing
<1> QED BY <1>1, <1>2, SnapshotFileTypes, PTL DEF Spec

\* In a --once session nothing writes any more when the reader reads: what the
\* load has gathered so far is the file.
Waited ==
  once =>
    /\ reader # "idle" \/ ended \/ met # {} => writer = "down" /\ starts = 1
    /\ met \subseteq {path}
    /\ reader \in {"P", "C", "W"} \/ ended => loaded["M"] = path
    /\ reader \in {"C", "W"} \/ ended => loaded["P"] = path
    /\ reader = "W" \/ ended => loaded["C"] = path
    /\ ended => loaded["W"] = path

\* The JSON output of a --once session is made of the one snapshot its collector
\* leaves behind.
THEOREM OnceSessionConsistent == Spec => []OneSnapshotAfterWait
<1>1. Init => Waited
  BY DEF Init, Waited
<1>2. TypeOK /\ Waited /\ [Next]_vars => Waited'
  <2> SUFFICES ASSUME TypeOK, Waited, [Next]_vars, once PROVE Waited'
    BY DEF Waited, Next, CollectorStep, ReaderStep, StartCollector, CreateTemp, Chmod,
           PrintRecords, Flush, SyncAndClose, Rename, WriteFails, Killed, LoadMeta,
           LoadRecords, vars, reading
  <2>1. CASE CollectorStep
    <3>1. ~(writer = "down" /\ starts = 1)
      BY <2>1 DEF CollectorStep, StartCollector, CreateTemp, Chmod, PrintRecords, Flush,
                  SyncAndClose, Rename, WriteFails, Killed
    <3>2. UNCHANGED reading
      BY <2>1 DEF CollectorStep, StartCollector, CreateTemp, Chmod, PrintRecords, Flush,
                  SyncAndClose, Rename, WriteFails, Killed
    <3>3. reader = "idle" /\ ~ended /\ met = {}
      BY <3>1 DEF Waited, TypeOK
    <3> QED BY <3>2, <3>3 DEF Waited, reading
  <2>2. CASE LoadMeta
    <3>1. writer = "down" /\ starts = 1
      BY <2>2 DEF LoadMeta, MayLoad
    <3>2. reader' = "P" => loaded'["M"] = path
      BY <2>2 DEF LoadMeta, Empty, Section
    <3> QED BY <2>2, <3>1, <3>2 DEF LoadMeta, Waited, writing
  <2>3. CASE LoadRecords
    <3>1. reader \in {"P", "C", "W"} /\ reader # "idle"
      BY <2>3 DEF LoadRecords
    <3>2. loaded'[reader] = path
          /\ \A s \in Section \ {reader} : loaded'[s] = loaded[s]
      BY <2>3 DEF LoadRecords, TypeOK, Section
    <3> QED BY <2>3, <3>1, <3>2 DEF LoadRecords, Waited, writing, Section
  <2>4. CASE UNCHANGED vars
    BY <2>4 DEF vars, writing, reading, Waited
  <2> QED BY <2>1, <2>2, <2>3, <2>4 DEF Next, ReaderStep
<1>3. Waited => OneSnapshotAfterWait
  BY DEF Waited, OneSnapshotAfterWait, Section
<1> QED BY <1>1, <1>2, <1>3, SnapshotFileTypes, PTL DEF Spec
=============================================================================
