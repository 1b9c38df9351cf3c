-------------------------- MODULE ProcScan_proofs --------------------------
(***************************************************************************)
(* What the scan of /proc may conclude, for any PIDs, namespaces, cgroups  *)
(* and sockets, and anything the processes do meanwhile.                   *)
(***************************************************************************)
EXTENDS ProcScan, TLAPS

LEMMA HoldingIs ==
  ASSUME NEW ps
  PROVE  \A h : h \in Holding(ps) <=>
           \E p \in Pid : \E s \in ps[p].fds :
             h = [pid |-> p, start |-> ps[p].start, ns |-> ps[p].ns, socket |-> s]
  BY DEF Holding

-----------------------------------------------------------------------------
(* What the processes do.                                                  *)

ProcsOK == procs \in [Pid -> Process \cup {NoProcess}]
SocketsOK == sockets \in [Socket -> [ns : NetNS, key : 0..NKeys]]

\* An open socket has been made.
OpenIsMade == \A p \in Pid : \A s \in procs[p].fds : sockets[s].key # 0

\* All that the scan can tell of what processes do: a PID's start time stays,
\* ends, or is later than all others, and a socket that was made stays as it is.
Happens ==
  /\ UNCHANGED <<mode, phase, todo, cur, links, found, unread>>
  /\ events' \in {events, events + 1} /\ events' <= MaxEvents
  /\ held' = held \cup Holding(procs') /\ steady' = steady \cap Holding(procs')
  /\ \A p \in Pid : \/ procs'[p].start = procs[p].start
                    \/ procs'[p].start = 0
                    \/ procs'[p].start = events + 2 /\ events' = events + 1
  /\ \A s \in Socket : sockets[s].key # 0 => sockets'[s] = sockets[s]

LEMMA EventHappens ==
  ASSUME ProcsOK, SocketsOK, OpenIsMade, events \in 0..MaxEvents, Event
  PROVE  Happens /\ ProcsOK' /\ SocketsOK' /\ OpenIsMade'
<1> USE ProcScanAssumption DEF Happens, ProcsOK, SocketsOK, OpenIsMade, Becomes, Counted,
        Process, NoProcess
<1>1. ASSUME NEW p \in Pid, Exit(p)
      PROVE  Happens /\ ProcsOK' /\ SocketsOK' /\ OpenIsMade'
  BY <1>1 DEF Exit
<1>2. ASSUME NEW p \in Pid, NEW q \in Pid, Fork(p, q)
      PROVE  Happens /\ ProcsOK' /\ SocketsOK' /\ OpenIsMade'
  <2>1. PICK fds \in SUBSET procs[p].fds :
          Becomes([procs EXCEPT ![q] = [start |-> events + 2, ns |-> procs[p].ns,
                                        cgroup |-> procs[p].cgroup, fds |-> fds]])
    BY <1>2 DEF Fork
  <2>2. procs[p] \in Process /\ events' = events + 1 /\ events < MaxEvents /\ sockets' = sockets
    BY <1>2 DEF Fork, Live
  <2>3. fds \in SUBSET Socket /\ events + 2 \in Nat \ {0}
    BY <2>2
  <2>4. ProcsOK'
    BY <2>1, <2>2, <2>3
  <2>5. \A r \in Pid : procs'[r].fds \subseteq procs[r].fds \cup procs[p].fds
    BY <2>1, <2>2
  <2>6. OpenIsMade'
    BY <2>2, <2>5
  <2>7. \A r \in Pid : procs'[r].start = procs[r].start
                       \/ (procs'[r].start = events + 2 /\ events' = events + 1)
    BY <2>1, <2>2
  <2>8. Happens
    BY <2>1, <2>2, <2>7
  <2> QED BY <2>2, <2>4, <2>8, <2>6
<1>3. ASSUME NEW p \in Pid, NEW s \in Socket, OpenSocket(p, s)
      PROVE  Happens /\ ProcsOK' /\ SocketsOK' /\ OpenIsMade'
  <2>1. PICK k \in Key : sockets' = [sockets EXCEPT ![s] = [ns |-> procs[p].ns, key |-> k]]
    BY <1>3 DEF OpenSocket
  <2>2. procs[p] \in Process /\ sockets[s].key = 0 /\ events' = events + 1 /\ events < MaxEvents
    BY <1>3 DEF OpenSocket, Live, NoSocket
  <2>3. SocketsOK' /\ sockets'[s].key # 0
    BY <2>1, <2>2 DEF Key
  <2>4. Becomes([procs EXCEPT ![p].fds = @ \cup {s}])
    BY <1>3 DEF OpenSocket
  <2>5. ProcsOK'
    BY <2>2, <2>4
  <2>6. \A t \in Socket : t # s => sockets'[t] = sockets[t]
    BY <2>1
  <2>7. \A r \in Pid : procs'[r].start = procs[r].start /\ procs'[r].fds \subseteq procs[r].fds \cup {s}
    BY <2>4
  <2>8. OpenIsMade'
    BY <2>3, <2>5, <2>6, <2>7
  <2>9. Happens
    BY <2>2, <2>4, <2>6, <2>7
  <2> QED BY <2>3, <2>5, <2>8, <2>9
<1>4. ASSUME NEW p \in Pid, NEW s \in Socket, CloseSocket(p, s)
      PROVE  Happens /\ ProcsOK' /\ SocketsOK' /\ OpenIsMade'
  BY <1>4 DEF CloseSocket
<1>5. ASSUME NEW p \in Pid, NEW q \in Pid, NEW s \in Socket, PassSocket(p, q, s)
      PROVE  Happens /\ ProcsOK' /\ SocketsOK' /\ OpenIsMade'
  BY <1>5 DEF PassSocket, Live
<1>6. ASSUME NEW p \in Pid, NEW n \in NetNS, ChangeNetNS(p, n)
      PROVE  Happens /\ ProcsOK' /\ SocketsOK' /\ OpenIsMade'
  BY <1>6 DEF ChangeNetNS, Live
<1>7. ASSUME NEW p \in Pid, NEW c \in Cgroup, ChangeCgroup(p, c)
      PROVE  Happens /\ ProcsOK' /\ SocketsOK' /\ OpenIsMade'
  BY <1>7 DEF ChangeCgroup, Live
<1> QED BY <1>1, <1>2, <1>3, <1>4, <1>5, <1>6, <1>7 DEF Event

-----------------------------------------------------------------------------
(* Types.                                                                  *)

\* In the turn of a process its descriptors are read after it was recorded, and
\* only LoadSystemResolver reads more of a process than these.
TurnOK ==
  /\ mode = "cgroup" /\ phase \in {"fds", "links"} =>
       \E p \in processes : p.pid = cur.pid /\ p.start = cur.start /\ p.ns = cur.ns
  /\ phase \in {"netns", "cgroup", "tables"} => mode = "cgroup"
  /\ phase = "own tables" => mode = "host"
  /\ phase \in {"tables", "done"} => todo = {}

TypeInv == TypeOK /\ OpenIsMade /\ TurnOK

ProcessSeen == [pid : Pid, start : Nat \ {0}, ns : NetNS]
HolderSeen == [pid : Pid, start : Nat \ {0}, ns : NetNS, socket : Socket]

\* The two halves of TypeInv: what the processes change, and what the scan does.
SystemInv ==
  /\ ProcsOK /\ SocketsOK /\ OpenIsMade
  /\ events \in 0..MaxEvents
  /\ held \subseteq HolderSeen

ScanInv ==
  /\ mode \in {"cgroup", "host"}
  /\ phase \in {"own tables", "dirs", "next", "netns", "cgroup", "fds", "links",
                "tables", "done"}
  /\ todo \subseteq Pid /\ links \subseteq Socket /\ (links # {} <=> phase = "links")
  /\ IF phase \in {"netns", "cgroup", "fds", "links"} THEN cur \in ProcessSeen ELSE cur = NoOne
  /\ processes \subseteq [pid : Pid, start : Nat \ {0}, ns : NetNS, cgroup : Cgroup]
  /\ owners \subseteq [ns : NetNS, socket : Socket, pid : Pid, start : Nat \ {0}]
  /\ mode = "cgroup" => \A o \in owners : \E p \in processes :
       p.pid = o.pid /\ p.start = o.start /\ p.ns = o.ns
  /\ unread \subseteq NetNS /\ entries \in [NetNS -> SUBSET Socket]
  /\ TurnOK

LEMMA Halves ==
  TypeInv <=> SystemInv /\ ScanInv /\ steady \subseteq held
BY
     DEF TypeInv, TypeOK, SystemInv, ScanInv, ProcsOK, SocketsOK, ProcessSeen, HolderSeen

LEMMA HoldingType ==
  ASSUME NEW ps \in [Pid -> Process \cup {NoProcess}]
  PROVE  Holding(ps) \subseteq HolderSeen
BY HoldingIs DEF Process, NoProcess, HolderSeen

LEMMA LiveProcess ==
  ASSUME ProcsOK, NEW p \in Pid, Live(p)
  PROVE  /\ procs[p].start \in Nat \ {0} /\ procs[p].ns \in NetNS
         /\ procs[p].cgroup \in Cgroup /\ procs[p].fds \subseteq Socket
BY DEF ProcsOK, Live, Process, NoProcess

LEMMA EventTypes ==
  ASSUME SystemInv, ScanInv, steady \subseteq held, Event
  PROVE  SystemInv' /\ ScanInv' /\ (steady \subseteq held)'
<1>1. Happens /\ ProcsOK' /\ SocketsOK' /\ OpenIsMade'
  BY EventHappens DEF SystemInv
<1>2. Holding(procs') \subseteq HolderSeen
  BY <1>1, HoldingType DEF ProcsOK
<1>3. SystemInv'
  BY <1>1, <1>2, ProcScanAssumption DEF SystemInv, Happens
<1>4. ScanInv'
  BY <1>1 DEF ScanInv, TurnOK, Happens, found
<1> QED BY <1>1, <1>3, <1>4 DEF Happens

LEMMA ScanTypes ==
  ASSUME SystemInv, ScanInv, steady \subseteq held, Scan
  PROVE  SystemInv' /\ ScanInv' /\ (steady \subseteq held)'
<1> USE ProcScanAssumption DEF ScanInv, TurnOK, found, NoOne
<1>0. ASSUME UNCHANGED system PROVE SystemInv'
  BY <1>0 DEF SystemInv, ProcsOK, SocketsOK, OpenIsMade, system
<1>1. CASE ReadDir
  BY <1>0, <1>1 DEF ReadDir, system
<1>2. CASE ReadNetNS
  <2>1. procs[cur.pid].ns \in NetNS /\ cur \in ProcessSeen
    BY <1>2, LiveProcess DEF ReadNetNS, SystemInv, ProcessSeen
  <2>2. cur' \in ProcessSeen /\ phase' = "cgroup"
    BY <1>2, <2>1 DEF ReadNetNS, ProcessSeen
  <2> QED BY <1>0, <1>2, <2>2 DEF ReadNetNS, system
<1>3. CASE ReadCgroup
  <2>1. cur \in ProcessSeen /\ procs[cur.pid].cgroup \in Cgroup
    BY <1>3, LiveProcess DEF ReadCgroup, SystemInv, ProcessSeen
  <2>2. /\ Owner \in [pid : Pid, start : Nat \ {0}, ns : NetNS, cgroup : Cgroup]
        /\ Owner.pid = cur.pid /\ Owner.start = cur.start /\ Owner.ns = cur.ns
    BY <2>1 DEF Owner, ProcessSeen
  <2>3. Owner \in processes' /\ processes' \subseteq processes \cup {Owner}
        /\ processes \subseteq processes'
    BY <1>3 DEF ReadCgroup
  <2> HIDE DEF Owner
  <2> QED BY <1>0, <1>3, <2>1, <2>2, <2>3 DEF ReadCgroup, system
<1>4. CASE ListFds
  <2>1. cur \in ProcessSeen /\ procs[cur.pid].fds \subseteq Socket
    BY <1>4, LiveProcess DEF ListFds, SystemInv, ProcessSeen
  <2> QED BY <1>0, <1>4, <2>1 DEF ListFds, Links, NextDir, system
<1>5. CASE Unreadable
  BY <1>0, <1>5 DEF Unreadable, NextDir, Unseen, system
<1>6. CASE ProcessesRead
  BY <1>0, <1>6 DEF ProcessesRead, system
<1>7. CASE ReadOwnTables
  BY <1>0, <1>7 DEF ReadOwnTables, Tables, system
<1>8. CASE TablesRead
  BY <1>0, <1>8 DEF TablesRead, system
<1>9. ASSUME NEW p \in Pid, StartTime(p)
      PROVE  SystemInv' /\ ScanInv' /\ (steady \subseteq held)'
  <2>1. cur' \in ProcessSeen /\ phase' = IF mode = "cgroup" THEN "netns" ELSE "fds"
    BY <1>9, LiveProcess DEF StartTime, SystemInv, ProcessSeen
  <2> QED BY <1>0, <1>9, <2>1 DEF StartTime, system
<1>10. ASSUME NEW p \in Pid, NoStartTime(p)
       PROVE  SystemInv' /\ ScanInv' /\ (steady \subseteq held)'
  BY <1>0, <1>10 DEF NoStartTime, Unseen, system
<1>11. ASSUME NEW s \in Socket, NEW t \in Socket, Readlink(s, t)
       PROVE  SystemInv' /\ ScanInv' /\ (steady \subseteq held)'
  <2> DEFINE o == [ns |-> cur.ns, socket |-> t, pid |-> cur.pid, start |-> cur.start]
  <2>1. cur \in ProcessSeen
    BY <1>11 DEF Readlink
  <2>2. /\ o \in [ns : NetNS, socket : Socket, pid : Pid, start : Nat \ {0}]
        /\ o.pid = cur.pid /\ o.start = cur.start /\ o.ns = cur.ns
    BY <2>1 DEF ProcessSeen
  <2>3. owners' = owners \cup {o} /\ Links(links \ {s}) /\ UNCHANGED steady /\ phase = "links"
    BY <1>11 DEF Readlink
  <2> HIDE DEF o
  <2> QED BY <1>0, <2>1, <2>2, <2>3 DEF Links, NextDir, system
<1>12. ASSUME NEW s \in Socket, ReadlinkFails(s)
       PROVE  SystemInv' /\ ScanInv' /\ (steady \subseteq held)'
  BY <1>0, <1>12 DEF ReadlinkFails, Links, NextDir, Unseen, system
<1>13. ASSUME NEW n \in NetNS, NoTables(n)
       PROVE  SystemInv' /\ ScanInv' /\ (steady \subseteq held)'
  BY <1>0, <1>13 DEF NoTables, system
<1>14. ASSUME NEW n \in NetNS, NEW p \in Pid, ReadTables(n, p)
       PROVE  SystemInv' /\ ScanInv' /\ (steady \subseteq held)'
  BY <1>0, <1>14 DEF ReadTables, TablesThrough, Tables, system
<1> QED
  BY <1>1, <1>2, <1>3, <1>4, <1>5, <1>6, <1>7, <1>8, <1>9, <1>10, <1>11, <1>12, <1>13,
     <1>14 DEF Scan

LEMMA TypeStep ==
  ASSUME TypeInv, [Next]_vars
  PROVE  TypeInv'
<1>1. CASE Event
  BY <1>1, Halves, EventTypes
     DEF TypeInv, TypeOK, SystemInv, ScanInv, ProcsOK, SocketsOK, ProcessSeen, HolderSeen
<1>2. CASE Scan
  BY <1>2, Halves, ScanTypes
     DEF TypeInv, TypeOK, SystemInv, ScanInv, ProcsOK, SocketsOK, ProcessSeen, HolderSeen
<1>3. CASE UNCHANGED vars
  BY <1>3 DEF vars, system, found, TypeInv, TypeOK, OpenIsMade, TurnOK
<1> QED BY <1>1, <1>2, <1>3 DEF Next

LEMMA TypeInit ==
  Init => TypeInv
<1> SUFFICES ASSUME Init PROVE TypeInv
  OBVIOUS
<1>1. ProcsOK
  <2>1. [start : {1}, ns : NetNS, cgroup : Cgroup, fds : SUBSET Socket] \subseteq Process
    BY DEF Process
  <2> QED BY <2>1 DEF Init, ProcsOK
<1>2. SocketsOK
  <2>1. NoSocket \in [ns : NetNS, key : 0..NKeys]
    BY ProcScanAssumption DEF NoSocket
  <2>2. [ns : NetNS, key : Key] \subseteq [ns : NetNS, key : 0..NKeys]
    BY ProcScanAssumption DEF Key
  <2> QED BY <2>1, <2>2 DEF Init, SocketsOK
<1>3. OpenIsMade
  <2> SUFFICES ASSUME NEW p \in Pid, NEW s \in procs[p].fds PROVE sockets[s].key # 0
    BY DEF OpenIsMade
  <2>1. s \in Socket
    BY <1>1 DEF ProcsOK, Process, NoProcess
  <2>2. sockets[s] \in [ns : NetNS, key : Key]
    BY <2>1 DEF Init
  <2> QED BY <2>2, ProcScanAssumption DEF Key
<1>4. held \subseteq HolderSeen /\ steady = held
  BY <1>1, HoldingType DEF Init, ProcsOK
<1>5. SystemInv
  <2>0. events = 0
    BY DEF Init
  <2>1. events \in 0..MaxEvents
    BY <2>0, ProcScanAssumption
  <2> QED BY <1>1, <1>2, <1>3, <1>4, <2>1 DEF SystemInv
<1>6. ScanInv
  BY DEF Init, ScanInv, TurnOK
<1> QED BY <1>4, <1>5, <1>6, Halves

\* Every variable of the scan has its type, whatever is read and whatever happens
\* meanwhile.
THEOREM TypeInvariant == Spec => []TypeOK
<1>1. Init => TypeInv
  BY TypeInit
<1>2. TypeInv /\ [Next]_vars => TypeInv'
  BY TypeStep
<1>3. TypeInv => TypeOK
  BY DEF TypeInv
<1> QED BY <1>1, <1>2, <1>3, PTL DEF Spec

-----------------------------------------------------------------------------
(* Who had what.                                                           *)

\* Every start time was given to a process by now.
StartsPast ==
  /\ \A p \in Pid : procs[p].start <= events + 1
  /\ \A o \in owners : o.start <= events + 1
  /\ cur.start <= events + 1

\* What is open is held, and an owner that still runs has held its socket.
OwnersHeld ==
  /\ Holding(procs) \subseteq held
  /\ \A o \in owners : procs[o.pid].start = o.start =>
       \E h \in held : h.pid = o.pid /\ h.start = o.start /\ h.socket = o.socket

NameInv == StartsPast /\ OwnersHeld

LEMMA NameStep ==
  ASSUME TypeInv, NameInv, [Next]_vars
  PROVE  NameInv'
<1> USE DEF NameInv, StartsPast, OwnersHeld
<1>1. SystemInv /\ ScanInv
  BY Halves
<1>2. CASE Event
  <2>1. Happens /\ ProcsOK'
    BY <1>1, <1>2, EventHappens DEF SystemInv
  <2>2. /\ events \in Nat /\ events' \in {events, events + 1}
        /\ owners' = owners /\ cur' = cur /\ held' = held \cup Holding(procs')
    BY <1>1, <2>1, ProcScanAssumption DEF Happens, SystemInv, found
  <2>3. \A p \in Pid : procs[p].start \in Nat
    BY <1>1 DEF SystemInv, ProcsOK, Process, NoProcess
  <2>4. \A p \in Pid : procs'[p].start <= events' + 1
    BY <2>1, <2>2, <2>3 DEF Happens
  <2>5. \A o \in owners : o.start \in Nat \ {0} /\ o.pid \in Pid
    BY <1>1 DEF ScanInv
  <2>6. cur.start \in Nat
    <3>1. cur \in ProcessSeen \/ cur = NoOne
      BY <1>1 DEF ScanInv
    <3> QED BY <3>1 DEF ProcessSeen, NoOne
  <2>7. \A o \in owners : procs'[o.pid].start = o.start => procs[o.pid].start = o.start
    BY <2>1, <2>2, <2>5 DEF Happens
  <2> QED BY <2>2, <2>4, <2>5, <2>6, <2>7
<1>3. ASSUME UNCHANGED system, UNCHANGED owners,
             cur' = NoOne \/ cur'.start = cur.start
      PROVE  NameInv'
  BY <1>1, <1>3 DEF system, NoOne, SystemInv
<1>4. ASSUME NEW p \in Pid, StartTime(p)
      PROVE  NameInv'
  BY <1>4 DEF StartTime, system, found
<1>5. ASSUME NEW s \in Socket, NEW t \in Socket, Readlink(s, t)
      PROVE  NameInv'
  <2> DEFINE o == [ns |-> cur.ns, socket |-> t, pid |-> cur.pid, start |-> cur.start]
  <2>1. UNCHANGED system /\ owners' = owners \cup {o} /\ cur.pid \in Pid
        /\ (cur' = NoOne \/ cur' = cur) /\ t \in procs[cur.pid].fds
    BY <1>1, <1>5 DEF Readlink, Links, NextDir, ScanInv, ProcessSeen
  <2>2. procs[o.pid].start = o.start =>
          \E h \in held : h.pid = o.pid /\ h.start = o.start /\ h.socket = o.socket
    <3>1. [pid |-> cur.pid, start |-> procs[cur.pid].start, ns |-> procs[cur.pid].ns,
           socket |-> t] \in Holding(procs)
      BY <2>1, HoldingIs
    <3> QED BY <3>1
  <2>3. o.start <= events + 1
    OBVIOUS
  <2>4. cur'.start <= events + 1
    BY <1>1, <2>1 DEF NoOne, SystemInv
  <2> HIDE DEF o
  <2> QED BY <2>1, <2>2, <2>3, <2>4 DEF system
<1>6. CASE Scan
  <2>1. CASE ReadDir \/ ReadCgroup \/ ProcessesRead \/ ReadOwnTables \/ TablesRead
    BY <2>1, <1>3 DEF ReadDir, ReadCgroup, ProcessesRead, ReadOwnTables, TablesRead, found
  <2>2. CASE ReadNetNS
    BY <2>2, <1>1, <1>3 DEF ReadNetNS, found, ScanInv, ProcessSeen
  <2>3. CASE ListFds \/ Unreadable
    BY <2>3, <1>3 DEF ListFds, Links, Unreadable, NextDir, found
  <2>4. ASSUME NEW p \in Pid, NoStartTime(p)
        PROVE  NameInv'
    BY <2>4, <1>3 DEF NoStartTime, found
  <2>5. ASSUME NEW s \in Socket, ReadlinkFails(s)
        PROVE  NameInv'
    BY <2>5, <1>3 DEF ReadlinkFails, Links, NextDir
  <2>6. ASSUME NEW n \in NetNS, NoTables(n)
        PROVE  NameInv'
    BY <2>6, <1>3 DEF NoTables, found
  <2>7. ASSUME NEW n \in NetNS, NEW p \in Pid, ReadTables(n, p)
        PROVE  NameInv'
    BY <2>7, <1>3 DEF ReadTables
  <2> QED BY <1>4, <1>5, <1>6, <2>1, <2>2, <2>3, <2>4, <2>5, <2>6, <2>7 DEF Scan
<1>7. CASE UNCHANGED vars
  BY <1>3, <1>7 DEF vars, found
<1> QED BY <1>2, <1>6, <1>7 DEF Next

LEMMA NameInit ==
  Init => NameInv
<1> SUFFICES ASSUME Init PROVE NameInv
  OBVIOUS
<1>1. \A p \in Pid : procs[p].start <= 1
  <2> SUFFICES ASSUME NEW p \in Pid PROVE procs[p].start <= 1
    OBVIOUS
  <2>1. procs[p] = NoProcess
        \/ procs[p] \in [start : {1}, ns : NetNS, cgroup : Cgroup, fds : SUBSET Socket]
    BY DEF Init
  <2> QED BY <2>1 DEF NoProcess
<1>2. events = 0 /\ cur = NoOne /\ owners = {} /\ held = Holding(procs)
  BY DEF Init
<1> QED BY <1>1, <1>2 DEF NameInv, StartsPast, OwnersHeld, NoOne

\* A process is published only with sockets it has had: whatever PIDs are reused
\* during the scan and before the snapshot, what one process had is never taken
\* for another's.
THEOREM PublishedHolder == Spec => []NamesHolder
<1>1. Init => TypeInv /\ NameInv
  BY TypeInit, NameInit
<1>2. TypeInv /\ NameInv /\ [Next]_vars => TypeInv' /\ NameInv'
  BY TypeStep, NameStep
<1>3. TypeInv /\ NameInv => NamesHolder
  BY DEF NamesHolder, NameInv, OwnersHeld, Assigned, Verified
<1> QED BY <1>1, <1>2, <1>3, PTL DEF Spec

-----------------------------------------------------------------------------
(* Who is seen.                                                            *)

\* The namespace under which the owners of what h holds are recorded.
SeenIn(h) == IF mode = "host" THEN Host ELSE h.ns

Recorded(h) ==
  [ns |-> SeenIn(h), socket |-> h.socket, pid |-> h.pid, start |-> h.start] \in owners

\* The loop is at the process of h, and h is still to be found.
InTurn(h) ==
  /\ phase \in {"netns", "cgroup", "fds", "links"}
  /\ cur.pid = h.pid /\ cur.start = h.start
  /\ phase # "netns" => cur.ns = SeenIn(h)
  /\ phase = "links" => h.socket \in links

\* A holder that could be seen all along is recorded, or its turn is to come.
SeenInv ==
  /\ steady \subseteq Holding(procs)
  /\ mode = "host" => \A o \in owners : o.ns = Host
  /\ mode = "host" /\ phase \in {"fds", "links"} => cur.ns = Host
  /\ \A h \in steady : \/ phase \in {"own tables", "dirs"} \/ h.pid \in todo
                        \/ InTurn(h) \/ Recorded(h)

LEMMA SteadyHas ==
  ASSUME TypeInv, SeenInv
  PROVE  \A h \in steady : /\ h.pid \in Pid /\ h.socket \in procs[h.pid].fds /\ Live(h.pid)
                           /\ procs[h.pid].start = h.start /\ procs[h.pid].ns = h.ns
<1> SUFFICES ASSUME NEW h \in steady
             PROVE  /\ h.pid \in Pid /\ h.socket \in procs[h.pid].fds /\ Live(h.pid)
                    /\ procs[h.pid].start = h.start /\ procs[h.pid].ns = h.ns
  OBVIOUS
<1>1. PICK p \in Pid : \E s \in procs[p].fds :
        h = [pid |-> p, start |-> procs[p].start, ns |-> procs[p].ns, socket |-> s]
  <2>1. h \in Holding(procs)
    BY DEF SeenInv
  <2> QED BY <2>1, HoldingIs
<1>2. h.start # 0
  BY DEF TypeInv, TypeOK
<1> QED BY <1>1, <1>2 DEF Live

LEMMA SeenStep ==
  ASSUME TypeInv, SeenInv, [Next]_vars
  PROVE  SeenInv'
<1> USE DEF SeenInv, InTurn, Recorded, SeenIn
<1>1. SystemInv /\ ScanInv
  BY Halves
<1>2. CASE Event
  <2>1. Happens
    BY <1>1, <1>2, EventHappens DEF SystemInv
  <2> QED BY <2>1 DEF Happens, found
<1>3. ASSUME UNCHANGED <<system, mode>>, steady' \subseteq steady, owners' = owners,
             \A h \in steady' : \/ phase' \in {"own tables", "dirs"} \/ h.pid \in todo'
                               \/ InTurn(h)' \/ Recorded(h),
             mode = "host" /\ phase' \in {"fds", "links"} => cur'.ns = Host
      PROVE  SeenInv'
  <2>1. procs' = procs
    BY <1>3 DEF system
  <2>2. (steady \subseteq Holding(procs))'
    <3>1. steady \subseteq Holding(procs) /\ steady' \subseteq steady
      BY <1>3
    <3>2. Holding(procs') = Holding(procs)
      BY <2>1
    <3> QED BY <3>1, <3>2
  <2> QED BY <1>3, <2>2
<1>4. CASE ReadDir
  BY <1>3, <1>4, SteadyHas DEF ReadDir, system, found
<1>5. CASE ReadNetNS
  <2>1. cur' = [cur EXCEPT !.ns = procs[cur.pid].ns] /\ cur \in ProcessSeen
    BY <1>1, <1>5 DEF ReadNetNS, ScanInv
  <2>2. cur'.pid = cur.pid /\ cur'.start = cur.start /\ cur'.ns = procs[cur.pid].ns
    BY <2>1 DEF ProcessSeen
  <2>3. mode = "cgroup"
    BY <1>1, <1>5 DEF ReadNetNS, ScanInv, TurnOK
  <2> QED BY <1>3, <1>5, <2>2, <2>3, SteadyHas DEF ReadNetNS, system, found
<1>6. CASE ReadCgroup
  <2>1. mode = "cgroup"
    BY <1>1, <1>6 DEF ReadCgroup, ScanInv, TurnOK
  <2> QED BY <1>3, <1>6, <2>1 DEF ReadCgroup
<1>7. CASE ListFds
  <2>1. /\ UNCHANGED <<system, mode, todo, owners, steady>> /\ phase = "fds"
        /\ links' = procs[cur.pid].fds
        /\ links' # {} => phase' = "links" /\ cur' = cur
        /\ links' = {} => phase' = "next"
    BY <1>7 DEF ListFds, Links, NextDir
  <2>2. \A h \in steady : InTurn(h) => InTurn(h)'
    BY <2>1, SteadyHas
  <2> QED BY <1>3, <2>1, <2>2
<1>8. CASE Unreadable
  <2>1. /\ UNCHANGED <<system, mode, todo, owners>> /\ phase' = "next"
        /\ steady' = {h \in steady : h.pid # cur.pid}
        /\ phase \notin {"own tables", "dirs"}
    BY <1>8 DEF Unreadable, NextDir, Unseen, found
  <2> QED BY <1>3, <2>1
<1>9. CASE ProcessesRead
  BY <1>3, <1>9 DEF ProcessesRead, found
<1>10. CASE ReadOwnTables
  BY <1>3, <1>10 DEF ReadOwnTables
<1>11. CASE TablesRead
  BY <1>3, <1>11 DEF TablesRead, found
<1>12. ASSUME NEW p \in Pid, StartTime(p)
       PROVE  SeenInv'
  BY <1>1, <1>3, <1>12, SteadyHas DEF StartTime, found, ScanInv
<1>13. ASSUME NEW p \in Pid, NoStartTime(p)
       PROVE  SeenInv'
  BY <1>3, <1>13 DEF NoStartTime, Unseen, found
<1>14. ASSUME NEW s \in Socket, NEW t \in Socket, Readlink(s, t)
       PROVE  SeenInv'
  <2>1. /\ UNCHANGED <<system, mode, todo, steady>> /\ phase = "links"
        /\ links' = links \ {s}
        /\ links' # {} => phase' = "links" /\ cur' = cur
        /\ links' = {} => phase' = "next"
        /\ owners' = owners \cup {[ns |-> cur.ns, socket |-> t,
                                   pid |-> cur.pid, start |-> cur.start]}
        /\ s \in procs[cur.pid].fds /\ procs[cur.pid].start = cur.start => t = s
    BY <1>14 DEF Readlink, Links, NextDir
  <2>2. (steady \subseteq Holding(procs))'
    BY <2>1 DEF system, Holding
  <2>3. ASSUME NEW h \in steady, InTurn(h) PROVE InTurn(h)' \/ Recorded(h)'
    BY <2>1, <2>3, SteadyHas
  <2>4. \A h \in steady' : h.pid \in todo' \/ InTurn(h)' \/ Recorded(h)'
    BY <2>1, <2>3
  <2>5. mode = "host" => cur.ns = Host
    BY <2>1
  <2>6. (mode = "host" => \A o \in owners : o.ns = Host)'
    BY <2>1, <2>5
  <2>7. (mode = "host" /\ phase \in {"fds", "links"} => cur.ns = Host)'
    BY <2>1, <2>5
  <2> QED BY <2>2, <2>4, <2>6, <2>7
<1>15. ASSUME NEW s \in Socket, ReadlinkFails(s)
       PROVE  SeenInv'
  <2>1. /\ UNCHANGED <<system, mode, todo, owners>> /\ phase = "links"
        /\ links' = {} => phase' = "next"
        /\ links' # {} => phase' = "links" /\ cur' = cur
        /\ steady' = {h \in steady : h.pid # cur.pid}
    BY <1>15 DEF ReadlinkFails, Links, NextDir, Unseen
  <2> QED BY <1>3, <2>1
<1>16. ASSUME NEW n \in NetNS, NoTables(n)
       PROVE  SeenInv'
  BY <1>3, <1>16 DEF NoTables, found
<1>17. ASSUME NEW n \in NetNS, NEW p \in Pid, ReadTables(n, p)
       PROVE  SeenInv'
  BY <1>3, <1>17 DEF ReadTables
<1>18. CASE UNCHANGED vars
  BY <1>3, <1>18 DEF vars, found
<1> QED
  BY <1>2, <1>4, <1>5, <1>6, <1>7, <1>8, <1>9, <1>10, <1>11, <1>12, <1>13, <1>14, <1>15,
     <1>16, <1>17, <1>18 DEF Next, Scan

LEMMA SeenInit ==
  Init => SeenInv
BY DEF Init, SeenInv, NoOne

\* A socket that two processes of a namespace share is assigned to neither, unless
\* one of them could not be read or did not have it all along.
THEOREM SharedUnknown == Spec => []SharedSocketUnknown
<1>1. Init => TypeInv /\ SeenInv
  BY TypeInit, SeenInit
<1>2. TypeInv /\ SeenInv /\ [Next]_vars => TypeInv' /\ SeenInv'
  BY TypeStep, SeenStep
<1>3. ASSUME TypeInv, SeenInv PROVE SharedSocketUnknown
  <2> SUFFICES ASSUME phase = "done", NEW a \in Assigned, NEW h \in steady,
                      h.socket = a.socket, mode = "host" \/ h.ns = a.ns
               PROVE  h.pid = a.pid /\ h.start = a.start
    BY DEF SharedSocketUnknown
  <2>1. /\ a \in owners
        /\ OwnersOf(a.ns, a.socket) = {[pid |-> a.pid, start |-> a.start]}
    BY DEF Assigned, Resolves
  <2>2. Recorded(h) /\ SeenIn(h) = a.ns
    BY <1>3, <2>1, Halves DEF SeenInv, InTurn, SeenIn, ScanInv, TurnOK
  <2>3. [pid |-> h.pid, start |-> h.start] \in OwnersOf(a.ns, a.socket)
    BY <2>2 DEF Recorded, OwnersOf
  <2> QED BY <2>1, <2>3
<1> QED BY <1>1, <1>2, <1>3, PTL DEF Spec

-----------------------------------------------------------------------------
(* Which sockets are seen.                                                 *)

\* Every table that was read has all sockets of its namespace that were there all
\* along, even if it is another namespace than it was read for.
TablesWhole ==
  \A n \in NetNS : \A s \in entries[n] :
    /\ sockets[s].key # 0
    /\ \A h \in steady : sockets[h.socket].ns = sockets[s].ns => h.socket \in entries[n]

LEMMA TablesAre ==
  ASSUME SystemInv, NEW n
  PROVE  \A s \in Tables(n) : /\ s \in Socket /\ sockets[s].key # 0 /\ sockets[s].ns = n
BY DEF SystemInv, OpenIsMade, Tables

LEMMA TablesStep ==
  ASSUME TypeInv, SeenInv, TablesWhole, [Next]_vars
  PROVE  TablesWhole'
<1> USE DEF TablesWhole
<1>1. SystemInv /\ ScanInv
  BY Halves
<1>2. \A h \in steady : h.socket \in Socket /\ sockets[h.socket].key # 0
                        /\ h.socket \in Tables(sockets[h.socket].ns)
  BY <1>1, SteadyHas DEF SystemInv, OpenIsMade, ProcsOK, Process, NoProcess, Tables
<1>3. CASE Event
  <2>1. Happens
    BY <1>1, <1>3, EventHappens DEF SystemInv
  <2>2. /\ entries' = entries /\ steady' \subseteq steady
        /\ \A s \in Socket : sockets[s].key # 0 => sockets'[s] = sockets[s]
    BY <2>1 DEF Happens, found
  <2>3. \A n \in NetNS : entries[n] \subseteq Socket
    BY <1>1 DEF ScanInv
  <2> SUFFICES ASSUME NEW n \in NetNS, NEW s \in entries'[n]
               PROVE  /\ sockets'[s].key # 0
                      /\ \A h \in steady' : sockets'[h.socket].ns = sockets'[s].ns =>
                           h.socket \in entries'[n]
    OBVIOUS
  <2>4. s \in entries[n] /\ sockets'[s] = sockets[s] /\ sockets[s].key # 0
    BY <2>2, <2>3
  <2>5. \A h \in steady' : h \in steady /\ sockets'[h.socket] = sockets[h.socket]
    BY <1>2, <2>2
  <2> QED BY <2>2, <2>4, <2>5
<1>4. ASSUME UNCHANGED <<sockets, entries>>, steady' \subseteq steady
      PROVE  TablesWhole'
  BY <1>4
<1>5. ASSUME UNCHANGED sockets, UNCHANGED steady, NEW n \in NetNS, NEW m \in NetNS,
             entries' = [entries EXCEPT ![n] = Tables(m)]
      PROVE  TablesWhole'
  <2>1. entries'[n] = Tables(m) /\ \A k \in NetNS \ {n} : entries'[k] = entries[k]
    BY <1>1, <1>5 DEF ScanInv
  <2>2. \A s \in Tables(m) : sockets[s].key # 0 /\ sockets[s].ns = m
    BY <1>1, TablesAre
  <2>3. \A h \in steady : sockets[h.socket].ns = m => h.socket \in Tables(m)
    BY <1>2
  <2> HIDE DEF Tables
  <2> QED BY <1>5, <2>1, <2>2, <2>3
<1>6. CASE ReadOwnTables
  BY <1>4, <1>5, <1>6, ProcScanAssumption DEF ReadOwnTables, system
<1>7. ASSUME NEW n \in NetNS, NEW p \in Pid, ReadTables(n, p)
      PROVE  TablesWhole'
  BY <1>1, <1>5, <1>7, LiveProcess DEF ReadTables, TablesThrough, system, SystemInv
<1>8. CASE Scan /\ UNCHANGED entries
  BY <1>4, <1>8 DEF Scan, ReadDir, ReadNetNS, ReadCgroup, ListFds, Links, NextDir,
     Unreadable, Unseen, ProcessesRead, ReadOwnTables, TablesRead, StartTime, NoStartTime,
     Readlink, ReadlinkFails, NoTables, ReadTables, system
<1>9. CASE Scan
  BY <1>6, <1>7, <1>8, <1>9 DEF Scan, ReadDir, ReadNetNS, ReadCgroup, ListFds, Links,
     Unreadable, ProcessesRead, TablesRead, StartTime, NoStartTime, Readlink,
     ReadlinkFails, NoTables, found
<1>10. CASE UNCHANGED vars
  BY <1>4, <1>10 DEF vars, system, found
<1> QED BY <1>3, <1>9, <1>10 DEF Next

LEMMA TablesInit ==
  Init => TablesWhole
BY DEF Init, TablesWhole

\* A flow that a second socket of the namespace fits as well or better, as after a
\* port was shared, is not assigned by the first: whatever the number of wildcard
\* keys, and wherever the representative of a namespace has gone.
THEOREM ReusedUnknown == Spec => []ReusedPortUnknown
<1>1. Init => TypeInv /\ SeenInv /\ TablesWhole
  BY TypeInit, SeenInit, TablesInit
<1>2. TypeInv /\ SeenInv /\ TablesWhole /\ [Next]_vars
        => TypeInv' /\ SeenInv' /\ TablesWhole'
  BY TypeStep, SeenStep, TablesStep
<1>3. ASSUME TypeInv, SeenInv, TablesWhole PROVE ReusedPortUnknown
  <2> SUFFICES ASSUME NEW a \in Assigned, NEW h \in steady,
                      sockets[h.socket].ns = sockets[a.socket].ns,
                      sockets[h.socket].key <= sockets[a.socket].key
               PROVE  h.socket = a.socket
    BY DEF ReusedPortUnknown
  <2>1. a.ns \in NetNS /\ Matched(a.ns) = {a.socket}
    BY <1>3 DEF Assigned, Resolves, TypeInv, TypeOK
  <2>2. /\ a.socket \in entries[a.ns]
        /\ \A t \in entries[a.ns] : sockets[a.socket].key <= sockets[t].key
    BY <2>1 DEF Matched
  <2>3. h.socket \in entries[a.ns]
    BY <1>3, <2>1, <2>2 DEF TablesWhole
  <2>4. \A t \in entries[a.ns] : sockets[t].key \in Nat
    <3>1. entries[a.ns] \subseteq Socket
      BY <1>3, <2>1, Halves DEF ScanInv
    <3>2. \A t \in Socket : sockets[t].key \in 0..NKeys
      BY <1>3, Halves DEF SystemInv, SocketsOK
    <3> QED BY <3>1, <3>2, ProcScanAssumption
  <2>5. h.socket \in Matched(a.ns)
    BY <2>2, <2>3, <2>4 DEF Matched
  <2> QED BY <2>1, <2>5
<1> QED BY <1>1, <1>2, <1>3, PTL DEF Spec

-----------------------------------------------------------------------------
(* What is found when nothing happens.                                     *)

\* What was read of a process that is still there is still so.
ReadStill ==
  /\ \A q \in processes : Live(q.pid) =>
       /\ procs[q.pid].start = q.start /\ procs[q.pid].ns = q.ns
       /\ procs[q.pid].cgroup = q.cgroup
  /\ phase \in {"netns", "cgroup", "fds", "links"} /\ Live(cur.pid) =>
       /\ procs[cur.pid].start = cur.start
       /\ mode = "cgroup" /\ phase # "netns" => procs[cur.pid].ns = cur.ns

\* Nothing but what is held was read, and no table under another namespace.
ReadHeld ==
  /\ \A o \in owners : \E g \in steady :
       g.pid = o.pid /\ g.start = o.start /\ g.socket = o.socket
  /\ \A n \in NetNS : \A s \in entries[n] :
       sockets[s].ns = n /\ \E g \in steady : g.socket = s

\* The sockets of a namespace are all in its table.
TableHas(n) == \A g \in steady : sockets[g.socket].ns = n => g.socket \in entries[n]

\* The tables that have been read are those of the namespaces found.
ReadAll ==
  /\ mode = "host" /\ phase # "own tables" => TableHas(Host)
  /\ mode = "cgroup" /\ phase \in {"tables", "done"} =>
       \A q \in processes : q.ns \notin unread => TableHas(q.ns)
  /\ mode = "cgroup" /\ phase = "done" => unread = {}

QuietInv == Quiet => ReadStill /\ ReadHeld /\ ReadAll

\* Only the processes change what is held, and what was not seen stays so.
LEMMA QuietBefore ==
  ASSUME TypeInv, [Next]_vars, Quiet'
  PROVE  Quiet /\ steady' = steady /\ held' = held /\ events' = events
<1>1. SystemInv /\ ScanInv /\ steady \subseteq held
  BY Halves
<1>2. events \in Nat
  BY <1>1, ProcScanAssumption DEF SystemInv
<1>3. held \subseteq held' /\ steady' \subseteq steady /\ (events' = 0 => events = 0)
  <2>1. CASE Event
    <3>1. Happens
      BY <1>1, <2>1, EventHappens DEF SystemInv
    <3> QED BY <1>2, <3>1 DEF Happens
  <2>2. CASE Scan
    BY <2>2 DEF Scan, ReadDir, ReadNetNS, ReadCgroup, ListFds, Links, NextDir,
       Unreadable, Unseen, ProcessesRead, ReadOwnTables, TablesRead, StartTime, NoStartTime,
       Readlink, ReadlinkFails, NoTables, ReadTables, system
  <2>3. CASE UNCHANGED vars
    BY <2>3 DEF vars, system
  <2> QED BY <2>1, <2>2, <2>3 DEF Next
<1> QED BY <1>1, <1>3 DEF Quiet

\* What happens then is that a process without sockets ends.
LEMMA QuietEvent ==
  ASSUME SystemInv, Event, events' = events
  PROVE  \E p \in Pid : procs' = [procs EXCEPT ![p] = NoProcess] /\ sockets' = sockets
<1>1. events \in Nat
  BY ProcScanAssumption DEF SystemInv
<1>2. ~Counted
  BY <1>1 DEF Counted
<1>3. \E p \in Pid : Exit(p)
  BY <1>2 DEF Event, Fork, OpenSocket, CloseSocket, PassSocket, ChangeNetNS, ChangeCgroup
<1> QED BY <1>3 DEF Exit, Becomes

LEMMA QuietInit == Init => QuietInv
<1> SUFFICES ASSUME Init PROVE ReadStill /\ ReadHeld /\ ReadAll
  BY DEF QuietInv
<1>1. /\ processes = {} /\ owners = {} /\ entries = [n \in NetNS |-> {}]
      /\ mode = "host" => phase = "own tables"
      /\ mode = "cgroup" => phase = "dirs"
      /\ phase \in {"own tables", "dirs"}
  BY DEF Init
<1> QED BY <1>1 DEF ReadStill, ReadHeld, ReadAll

LEMMA QuietStep ==
  ASSUME TypeInv, NameInv, SeenInv, QuietInv, [Next]_vars
  PROVE  QuietInv'
<1> SUFFICES ASSUME Quiet' PROVE ReadStill' /\ ReadHeld' /\ ReadAll'
  BY DEF QuietInv
<1>1. SystemInv /\ ScanInv
  BY Halves
<1>2. Quiet /\ steady' = steady /\ held' = held /\ events' = events
  BY QuietBefore
<1>3. ReadStill /\ ReadHeld /\ ReadAll
  BY <1>2 DEF QuietInv
<1>4. Holding(procs) = steady
  BY <1>2 DEF Quiet, SeenInv, NameInv, OwnersHeld
<1>5. \A p \in Pid : \A s \in procs[p].fds : \E g \in steady :
        g.pid = p /\ g.start = procs[p].start /\ g.socket = s
  <2> SUFFICES ASSUME NEW p \in Pid, NEW s \in procs[p].fds
               PROVE  \E g \in steady : g.pid = p /\ g.start = procs[p].start /\ g.socket = s
    OBVIOUS
  <2>1. [pid |-> p, start |-> procs[p].start, ns |-> procs[p].ns, socket |-> s] \in steady
    BY <1>4, HoldingIs
  <2> QED BY <2>1
<1>6. \A n : \A s \in Tables(n) : sockets[s].ns = n /\ \E g \in steady : g.socket = s
  BY <1>5 DEF Tables
<1>7. \A n : \A g \in steady : sockets[g.socket].ns = n => g.socket \in Tables(n)
  BY <1>1, SteadyHas DEF Tables, SystemInv, ProcsOK, Process, NoProcess
<1> USE DEF ReadStill, ReadHeld, ReadAll, TableHas
<1>8. CASE Event
  <2>1. PICK p \in Pid : procs' = [procs EXCEPT ![p] = NoProcess] /\ sockets' = sockets
    BY <1>1, <1>2, <1>8, QuietEvent
  <2>2. UNCHANGED <<mode, phase, todo, cur, links, found, unread>>
    BY <1>1, <1>8, EventHappens DEF SystemInv, Happens
  <2>3. \A q \in Pid : procs'[q].start # 0 => procs[q].start # 0 /\ procs'[q] = procs[q]
    BY <1>1, <2>1 DEF NoProcess, SystemInv, ProcsOK
  <2>4. /\ \A q \in processes : q.pid \in Pid
        /\ phase \in {"netns", "cgroup", "fds", "links"} => cur.pid \in Pid
    BY <1>1 DEF ScanInv, ProcessSeen
  <2>5. ReadStill'
    <3>1. processes' = processes /\ phase' = phase /\ cur' = cur /\ mode' = mode
      BY <2>2 DEF found
    <3>2. \A q \in processes : procs'[q.pid].start # 0 =>
            procs[q.pid].start # 0 /\ procs'[q.pid] = procs[q.pid]
      BY <2>3, <2>4
    <3>3. phase \in {"netns", "cgroup", "fds", "links"} /\ procs'[cur.pid].start # 0 =>
            procs[cur.pid].start # 0 /\ procs'[cur.pid] = procs[cur.pid]
      BY <2>3, <2>4
    <3> QED BY <1>3, <3>1, <3>2, <3>3 DEF Live
  <2>6. ReadHeld' /\ ReadAll'
    BY <1>2, <1>3, <2>1, <2>2 DEF found
  <2> QED BY <2>5, <2>6
<1>9. ASSUME UNCHANGED <<system, mode, owners, entries, unread>>,
             ReadStill',
             phase' # phase => phase' \notin {"own tables", "tables", "done"} /\ phase # "own tables",
             processes' = processes \/ phase' \notin {"tables", "done"}
      PROVE  ReadStill' /\ ReadHeld' /\ ReadAll'
  BY <1>2, <1>3, <1>9 DEF system
<1>10. ASSUME UNCHANGED <<system, processes>>,
              \/ phase' \notin {"netns", "cgroup", "fds", "links"}
              \/ UNCHANGED <<cur, mode>> /\ phase \in {"cgroup", "fds", "links"}
       PROVE  ReadStill'
  BY <1>3, <1>10 DEF system, Live
<1>11. CASE Scan
  <2>1. CASE ReadDir
    BY <1>9, <1>10, <2>1 DEF ReadDir, found
  <2>2. CASE ReadNetNS
    <3>1. cur' = [cur EXCEPT !.ns = procs[cur.pid].ns] /\ cur \in ProcessSeen /\ Live(cur.pid)
          /\ phase = "netns" /\ phase' = "cgroup"
          /\ UNCHANGED <<system, mode, todo, links, found, unread, steady>>
      BY <1>1, <2>2 DEF ReadNetNS, ScanInv
    <3>2. cur'.pid = cur.pid /\ cur'.start = cur.start /\ cur'.ns = procs[cur.pid].ns
      BY <3>1 DEF ProcessSeen
    <3>3. ReadStill'
      BY <1>3, <3>1, <3>2 DEF system, found, Live
    <3> QED BY <1>9, <3>1, <3>3 DEF found
  <2>3. CASE ReadCgroup
    <3>1. /\ phase = "cgroup" /\ Live(cur.pid) /\ processes' = processes \cup {Owner}
          /\ phase' = "fds" /\ mode = "cgroup"
          /\ UNCHANGED <<system, mode, todo, cur, links, owners, entries, unread, steady>>
      BY <1>1, <2>3 DEF ReadCgroup, ScanInv, TurnOK
    <3>2. /\ Owner.pid = cur.pid /\ Owner.start = cur.start /\ Owner.ns = cur.ns
          /\ Owner.cgroup = procs[cur.pid].cgroup
      BY DEF Owner
    <3>3. procs[cur.pid].start = cur.start /\ procs[cur.pid].ns = cur.ns
      BY <1>3, <3>1
    <3> HIDE DEF Owner
    <3>4. ReadStill'
      BY <1>3, <3>1, <3>2, <3>3 DEF system, Live
    <3> QED BY <1>9, <3>1, <3>4
  <2>4. CASE ListFds
    <3>1. /\ UNCHANGED <<system, mode, todo, processes, entries, unread, owners>> /\ phase = "fds"
          /\ \/ phase' = "links" /\ cur' = cur
             \/ phase' = "next"
      BY <2>4 DEF ListFds, Links, NextDir
    <3> QED BY <1>9, <1>10, <3>1
  <2>5. CASE Unreadable
    BY <1>9, <1>10, <2>5 DEF Unreadable, NextDir, found
  <2>6. CASE ProcessesRead
    <3>1. /\ phase = "next" /\ phase' = IF mode = "cgroup" THEN "tables" ELSE "done"
          /\ unread' = {p.ns : p \in processes}
          /\ UNCHANGED <<system, mode, todo, cur, links, found, steady>>
      BY <2>6 DEF ProcessesRead
    <3>2. ReadStill'
      BY <1>10, <3>1 DEF found
    <3>3. ReadHeld'
      BY <1>2, <1>3, <3>1 DEF system, found
    <3>4. ReadAll'
      <4>1. CASE mode = "cgroup"
        BY <3>1, <4>1 DEF found
      <4>2. CASE mode # "cgroup"
        BY <1>2, <1>3, <3>1, <4>2 DEF system, found
      <4> QED BY <4>1, <4>2
    <3> QED BY <3>2, <3>3, <3>4
  <2>7. CASE ReadOwnTables
    <3>1. /\ phase = "own tables" /\ phase' = "dirs" /\ mode = "host"
          /\ entries' \in {[entries EXCEPT ![Host] = Tables(Host)], entries}
          /\ steady' = IF entries' = entries THEN {} ELSE steady
          /\ UNCHANGED <<system, mode, todo, cur, links, processes, owners, unread>>
      BY <1>1, <2>7 DEF ReadOwnTables, ScanInv, TurnOK
    <3>2. ReadStill'
      BY <1>10, <3>1
    <3>3. CASE entries' = entries
      BY <1>2, <1>3, <3>1, <3>2, <3>3 DEF system
    <3>4. CASE entries' # entries
      <4>1. /\ entries'[Host] = Tables(Host)
            /\ \A n \in NetNS \ {Host} : entries'[n] = entries[n]
        BY <1>1, <3>1, <3>4, ProcScanAssumption DEF ScanInv
      <4>2. ReadHeld'
        <5>1. \A n \in NetNS : \A s \in entries'[n] :
                sockets[s].ns = n /\ \E g \in steady : g.socket = s
          <6> SUFFICES ASSUME NEW n \in NetNS, NEW s \in entries'[n]
                       PROVE  sockets[s].ns = n /\ \E g \in steady : g.socket = s
            OBVIOUS
          <6>1. CASE n = Host
            BY <1>6, <4>1, <6>1
          <6>2. CASE n # Host
            BY <1>3, <4>1, <6>2
          <6> QED BY <6>1, <6>2
        <5>2. sockets' = sockets /\ owners' = owners
          BY <3>1 DEF system
        <5> QED BY <1>2, <1>3, <5>1, <5>2
      <4>3. ReadAll'
        BY <1>2, <1>7, <3>1, <4>1 DEF system
      <4> QED BY <3>2, <4>2, <4>3
    <3> QED BY <3>3, <3>4
  <2>8. CASE TablesRead
    <3>1. /\ phase = "tables" /\ unread = {} /\ phase' = "done" /\ mode = "cgroup"
          /\ UNCHANGED <<system, mode, todo, cur, links, found, unread, steady>>
      BY <1>1, <2>8 DEF TablesRead, ScanInv, TurnOK
    <3>2. ReadStill'
      BY <1>10, <3>1 DEF found
    <3> QED BY <1>3, <3>1, <3>2 DEF system, found
  <2>9. ASSUME NEW p \in Pid, StartTime(p)
        PROVE  ReadStill' /\ ReadHeld' /\ ReadAll'
    <3>1. /\ Live(p) /\ phase = "next"
          /\ cur' = [pid |-> p, start |-> procs[p].start, ns |-> Host]
          /\ phase' = IF mode = "cgroup" THEN "netns" ELSE "fds"
          /\ UNCHANGED <<system, mode, links, found, unread, steady>>
      BY <2>9 DEF StartTime
    <3>2. ReadStill'
      BY <1>3, <3>1 DEF system, found, Live
    <3> QED BY <1>9, <3>1, <3>2 DEF found
  <2>10. ASSUME NEW p \in Pid, NoStartTime(p)
         PROVE  ReadStill' /\ ReadHeld' /\ ReadAll'
    BY <1>9, <1>10, <2>10 DEF NoStartTime, found
  <2>11. ASSUME NEW s \in Socket, NEW t \in Socket, Readlink(s, t)
         PROVE  ReadStill' /\ ReadHeld' /\ ReadAll'
    <3> DEFINE o == [ns |-> cur.ns, socket |-> t, pid |-> cur.pid, start |-> cur.start]
    <3>1. /\ phase = "links" /\ owners' = owners \cup {o}
          /\ t \in procs[cur.pid].fds /\ cur.pid \in Pid
          /\ \/ phase' = "links" /\ cur' = cur
             \/ phase' = "next"
          /\ UNCHANGED <<system, mode, todo, processes, entries, unread>>
      BY <1>1, <2>11 DEF Readlink, Links, NextDir, ScanInv, ProcessSeen
    <3>2. Live(cur.pid)
      BY <1>1, <3>1 DEF Live, SystemInv, ProcsOK, Process, NoProcess
    <3>3. procs[cur.pid].start = cur.start
      BY <1>3, <3>1, <3>2
    <3>4. \E g \in steady : g.pid = o.pid /\ g.start = o.start /\ g.socket = o.socket
      BY <1>5, <3>1, <3>3
    <3>5. ReadStill'
      BY <1>10, <3>1
    <3> HIDE DEF o
    <3>6. ReadHeld'
      BY <1>2, <1>3, <3>1, <3>4 DEF system
    <3>7. ReadAll'
      BY <1>2, <1>3, <3>1 DEF system
    <3> QED BY <3>5, <3>6, <3>7
  <2>12. ASSUME NEW s \in Socket, ReadlinkFails(s)
         PROVE  ReadStill' /\ ReadHeld' /\ ReadAll'
    <3>1. /\ UNCHANGED <<system, mode, todo, processes, entries, unread, owners>> /\ phase = "links"
          /\ \/ phase' = "links" /\ cur' = cur
             \/ phase' = "next"
      BY <2>12 DEF ReadlinkFails, Links, NextDir
    <3> QED BY <1>9, <1>10, <3>1
  <2>13. ASSUME NEW n \in NetNS, NoTables(n)
         PROVE  ReadStill' /\ ReadHeld' /\ ReadAll'
    <3>1. /\ phase = "tables" /\ steady' = {} /\ unread' = unread \ {n} /\ mode = "cgroup"
          /\ UNCHANGED <<system, mode, phase, todo, cur, links, found>>
      BY <1>1, <2>13 DEF NoTables, ScanInv, TurnOK
    <3>2. ReadStill'
      BY <1>10, <3>1 DEF found
    <3> QED BY <1>2, <1>3, <3>1, <3>2 DEF system, found
  <2>14. ASSUME NEW n \in NetNS, NEW p \in Pid, ReadTables(n, p)
         PROVE  ReadStill' /\ ReadHeld' /\ ReadAll'
    <3>1. /\ phase = "tables" /\ unread' = unread \ {n} /\ mode = "cgroup"
          /\ IsRepresentative(p, n) /\ Live(p)
          /\ entries' = [entries EXCEPT ![n] = Tables(procs[p].ns)]
          /\ UNCHANGED <<system, mode, phase, todo, cur, links, processes, owners, steady>>
      BY <1>1, <2>14 DEF ReadTables, TablesThrough, ScanInv, TurnOK
    <3>2. procs[p].ns = n
      BY <1>3, <3>1 DEF IsRepresentative
    <3>3. entries'[n] = Tables(n) /\ \A m \in NetNS \ {n} : entries'[m] = entries[m]
      BY <1>1, <3>1, <3>2 DEF ScanInv
    <3>4. ReadStill'
      BY <1>10, <3>1
    <3>5. ReadHeld'
      BY <1>2, <1>3, <1>6, <3>1, <3>3 DEF system
    <3>6. ReadAll'
      <4>1. \A q \in processes : q.ns \in NetNS
        BY <1>1 DEF ScanInv
      <4> QED BY <1>2, <1>3, <1>7, <3>1, <3>3, <4>1 DEF system
    <3> QED BY <3>4, <3>5, <3>6
  <2> QED BY <1>11, <2>1, <2>2, <2>3, <2>4, <2>5, <2>6, <2>7, <2>8, <2>9, <2>10, <2>11, <2>12,
             <2>13, <2>14 DEF Scan
<1>12. CASE UNCHANGED vars
  BY <1>3, <1>12 DEF vars, system, found, Live
<1> QED BY <1>8, <1>11, <1>12 DEF Next

\* When nothing happens and everything can be read, a flow is assigned to the
\* process that alone has the only socket for it, however many processes,
\* namespaces and cgroups there are and in whatever order they are read.
THEOREM OwnerFound == Spec => []SoleOwnerFound
<1>1. Init => TypeInv /\ NameInv /\ SeenInv /\ QuietInv
  BY TypeInit, NameInit, SeenInit, QuietInit
<1>2. TypeInv /\ NameInv /\ SeenInv /\ QuietInv /\ [Next]_vars
        => TypeInv' /\ NameInv' /\ SeenInv' /\ QuietInv'
  BY TypeStep, NameStep, SeenStep, QuietStep
<1>3. ASSUME TypeInv, SeenInv, QuietInv PROVE SoleOwnerFound
  <2> SUFFICES ASSUME phase = "done", Quiet, NEW h \in steady, SoleOwner(h)
               PROVE  \E a \in Assigned : a.pid = h.pid /\ a.start = h.start /\ a.socket = h.socket
    BY DEF SoleOwnerFound
  <2>1. SystemInv /\ ScanInv
    BY <1>3, Halves
  <2>2. ReadStill /\ ReadHeld /\ ReadAll
    BY <1>3 DEF QuietInv
  <2>3. /\ h.pid \in Pid /\ procs[h.pid].start = h.start /\ procs[h.pid].ns = h.ns /\ Live(h.pid)
        /\ h.ns \in NetNS /\ h.ns = sockets[h.socket].ns /\ SeenIn(h) = h.ns
    BY <1>3, <2>1, SteadyHas, LiveProcess DEF SoleOwner, SeenIn, SystemInv
  <2> DEFINE a == [ns |-> h.ns, socket |-> h.socket, pid |-> h.pid, start |-> h.start]
             o == [pid |-> h.pid, start |-> h.start]
  <2>4. a \in owners
    <3>1. Recorded(h)
      BY <1>3, <2>1 DEF SeenInv, InTurn, ScanInv, TurnOK
    <3> QED BY <2>3, <3>1 DEF Recorded
  <2>5. mode = "cgroup" => \E p \in processes : p.pid = h.pid /\ p.start = h.start /\ p.ns = h.ns
    BY <2>1, <2>4 DEF ScanInv
  <2>6. h.socket \in entries[h.ns]
    <3>1. CASE mode = "host"
      BY <2>2, <2>3, <3>1 DEF ReadAll, TableHas, SoleOwner
    <3>2. CASE mode = "cgroup"
      BY <2>2, <2>3, <2>5, <3>2 DEF ReadAll, TableHas
    <3> QED BY <2>1, <3>1, <3>2 DEF ScanInv
  <2>7. Matched(h.ns) = {h.socket}
    <3>1. \A s \in entries[h.ns] : s = h.socket
      BY <2>2, <2>3 DEF ReadHeld, SoleOwner
    <3>2. sockets[h.socket].key <= sockets[h.socket].key
      <4>1. h.socket \in Socket
        BY <2>1, <2>4 DEF ScanInv
      <4> QED BY <2>1, <4>1, ProcScanAssumption DEF SystemInv, SocketsOK
    <3> QED BY <2>6, <3>1, <3>2 DEF Matched
  <2>8. OwnersOf(h.ns, h.socket) = {o}
    <3>1. ASSUME NEW w \in owners, w.socket = h.socket
          PROVE  w.pid = h.pid /\ w.start = h.start
      <4>1. PICK g \in steady : g.pid = w.pid /\ g.start = w.start /\ g.socket = w.socket
        BY <2>2 DEF ReadHeld
      <4>2. g.pid = h.pid
        BY <3>1, <4>1 DEF SoleOwner
      <4> QED BY <1>3, <2>3, <4>1, <4>2, SteadyHas
    <3>2. o \in OwnersOf(h.ns, h.socket)
      BY <2>4 DEF OwnersOf
    <3> QED BY <3>1, <3>2 DEF OwnersOf
  <2>9. Resolves(h.ns, h.socket, o)
    BY <2>7, <2>8 DEF Resolves
  <2>10. CASE mode = "host"
    BY <2>4, <2>9, <2>10 DEF Assigned
  <2>11. CASE mode = "cgroup"
    <3>1. PICK p \in processes : p.pid = h.pid /\ p.start = h.start /\ p.ns = h.ns
      BY <2>5, <2>11
    <3>2. p.cgroup = procs[h.pid].cgroup
      BY <2>2, <2>3, <3>1 DEF ReadStill
    <3>3. p \in Candidates(p.cgroup)
      <4>1. h.socket \in Socket /\ Resolves(p.ns, h.socket, [pid |-> p.pid, start |-> p.start])
        BY <2>1, <2>4, <2>9, <3>1 DEF ScanInv
      <4> QED BY <4>1 DEF Candidates
    <3>4. ASSUME NEW q \in Candidates(p.cgroup) PROVE q = p
      <4>1. PICK s \in Socket : Resolves(q.ns, s, [pid |-> q.pid, start |-> q.start])
        BY DEF Candidates
      <4>2. [pid |-> q.pid, start |-> q.start] \in OwnersOf(q.ns, s)
        BY <4>1 DEF Resolves
      <4>3. PICK w \in owners : w.ns = q.ns /\ w.socket = s /\ w.pid = q.pid /\ w.start = q.start
        BY <4>2 DEF OwnersOf
      <4>4. PICK g \in steady : g.pid = w.pid /\ g.start = w.start /\ g.socket = w.socket
        BY <2>2 DEF ReadHeld
      <4>5. Live(q.pid) /\ q.pid \in Pid
        BY <1>3, <4>3, <4>4, SteadyHas
      <4>6. q \in processes /\ q.cgroup = p.cgroup
        BY DEF Candidates
      <4>7. procs[q.pid].ns = q.ns /\ procs[q.pid].cgroup = q.cgroup
        BY <2>2, <4>5, <4>6 DEF ReadStill
      <4>8. q.ns = h.ns
        BY <2>11, <3>2, <4>5, <4>6, <4>7 DEF SoleOwner
      <4>9. s = h.socket /\ [pid |-> q.pid, start |-> q.start] = o
        BY <2>7, <2>8, <4>1, <4>8 DEF Resolves
      <4>10. q.pid = p.pid /\ q.start = p.start /\ q.ns = p.ns /\ q.cgroup = p.cgroup
        BY <3>1, <4>6, <4>8, <4>9
      <4>11. /\ q \in [pid : Pid, start : Nat \ {0}, ns : NetNS, cgroup : Cgroup]
             /\ p \in [pid : Pid, start : Nat \ {0}, ns : NetNS, cgroup : Cgroup]
        BY <2>1, <4>6 DEF ScanInv
      <4> QED BY <4>10, <4>11
    <3>5. Candidates(p.cgroup) = {p}
      BY <3>3, <3>4
    <3>6. a \in Assigned
      BY <2>4, <2>9, <3>1, <3>5 DEF Assigned
    <3> QED BY <3>6
  <2> QED BY <2>1, <2>10, <2>11 DEF ScanInv
<1> QED BY <1>1, <1>2, <1>3, PTL DEF Spec
=============================================================================
