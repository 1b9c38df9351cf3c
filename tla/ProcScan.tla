----------------------------- MODULE ProcScan -----------------------------
(***************************************************************************)
(* How smon-net finds the process that owns a flow: the scan of /proc      *)
(* (proc.go, cgroup.go) while processes start, end, have their PIDs        *)
(* reused, pass sockets on and change their namespaces and cgroups, and    *)
(* the resolution of a flow from what was read.                            *)
(*                                                                         *)
(* Modelled: every read of /proc as a step of its own, in both orders the  *)
(* code has (LoadSystemResolver: processes, then socket tables of every    *)
(* network namespace; LoadResolver: the collector's own tables, then       *)
(* processes), reads that fail, and Resolve.                               *)
(*                                                                         *)
(* Abstracted: there is one flow, and sockets differ in how specifically   *)
(* they match it (a TCP flow matches key 1 only); a process has one        *)
(* descriptor for a socket; the four tables of a namespace are read at     *)
(* once; a cgroup is its ID.                                               *)
(***************************************************************************)
EXTENDS Naturals, FiniteSets

CONSTANTS
  Pid,        \* process IDs, numbers
  NetNS,      \* network namespaces
  Host,       \* the collector's own
  Cgroup,     \* cgroups
  Socket,     \* inodes of sockets
  NKeys,      \* the keys a flow looks for: exact, then with wildcards
  MaxEvents   \* bound on what processes do during the scan

ASSUME ProcScanAssumption ==
  /\ Pid \subseteq Nat
  /\ Host \in NetNS
  /\ NKeys \in Nat \ {0}
  /\ MaxEvents \in Nat

Key == 1..NKeys

\* A process: its start time, where it is, and the sockets it has open.  Start
\* times begin at 1.
Process == [start : Nat \ {0}, ns : NetNS, cgroup : Cgroup, fds : SUBSET Socket]

\* A PID that is not in use, and an inode that is not.
NoProcess == [start |-> 0, ns |-> Host, cgroup |-> "none", fds |-> {}]
NoSocket == [ns |-> Host, key |-> 0]

VARIABLES
  procs,     \* the system's processes
  sockets,   \* namespace and key of every socket that was ever made
  events,    \* how much has happened to them
  mode,      \* "cgroup": LoadSystemResolver, "host": LoadResolver
  phase,     \* what is read next; "done" is the moment of the snapshot
  todo,      \* entries of /proc not looked at yet
  cur,       \* the process looked at
  links,     \* its descriptors not looked at yet
  processes, \* data.processes and data.cgroups of all namespaces
  owners,    \* data.owners of all namespaces
  unread,    \* namespaces whose tables are not read yet
  entries,   \* the socket tables read
  \* History.
  held,      \* who had which socket at any time of the scan
  steady     \* who could be seen to have it at all times of the scan

system == <<procs, sockets, events, held>>
found  == <<processes, owners, entries>>
vars   == <<system, mode, phase, todo, cur, links, found, unread, steady>>

Live(p) == procs[p].start # 0

\* Who has which socket.
Holding(ps) == UNION {{[pid |-> p, start |-> ps[p].start, ns |-> ps[p].ns, socket |-> s] :
                         s \in ps[p].fds} : p \in Pid}

\* The sockets in the tables of a namespace: those somebody has open.
Tables(n) == {s \in Socket : sockets[s].ns = n /\ \E p \in Pid : s \in procs[p].fds}

-----------------------------------------------------------------------------
(* What processes do.  Start times do not repeat.                          *)

Becomes(ps) ==
  /\ phase # "done"
  /\ procs' = ps
  /\ held' = held \cup Holding(ps)
  /\ steady' = steady \cap Holding(ps)
  /\ UNCHANGED <<mode, phase, todo, cur, links, found, unread>>

\* Exits are not counted: they end by themselves.
Counted == events < MaxEvents /\ events' = events + 1

\* A child has its parent's place and those of its sockets that are not closed
\* on exec.
Fork(p, q) ==
  /\ Live(p) /\ ~Live(q)
  /\ \E fds \in SUBSET procs[p].fds :
       Becomes([procs EXCEPT ![q] = [start |-> events + 2, ns |-> procs[p].ns,
                                     cgroup |-> procs[p].cgroup, fds |-> fds]])
  /\ Counted /\ UNCHANGED sockets

Exit(p) ==
  /\ Live(p)
  /\ Becomes([procs EXCEPT ![p] = NoProcess])
  /\ UNCHANGED <<sockets, events>>

OpenSocket(p, s) ==
  /\ Live(p) /\ sockets[s] = NoSocket
  /\ \E k \in Key : sockets' = [sockets EXCEPT ![s] = [ns |-> procs[p].ns, key |-> k]]
  /\ Becomes([procs EXCEPT ![p].fds = @ \cup {s}])
  /\ Counted

CloseSocket(p, s) ==
  /\ s \in procs[p].fds
  /\ Becomes([procs EXCEPT ![p].fds = @ \ {s}])
  /\ Counted /\ UNCHANGED sockets

\* A descriptor sent over a Unix socket.
PassSocket(p, q, s) ==
  /\ Live(q) /\ s \in procs[p].fds \ procs[q].fds
  /\ Becomes([procs EXCEPT ![q].fds = @ \cup {s}])
  /\ Counted /\ UNCHANGED sockets

ChangeNetNS(p, n) ==
  /\ Live(p) /\ procs[p].ns # n
  /\ Becomes([procs EXCEPT ![p].ns = n])
  /\ Counted /\ UNCHANGED sockets

ChangeCgroup(p, c) ==
  /\ Live(p) /\ procs[p].cgroup # c
  /\ Becomes([procs EXCEPT ![p].cgroup = c])
  /\ Counted /\ UNCHANGED sockets

Event ==
  \E p \in Pid :
    \/ Exit(p)
    \/ \E q \in Pid : Fork(p, q)
    \/ \E s \in Socket : \/ OpenSocket(p, s) \/ CloseSocket(p, s)
                         \/ \E q \in Pid : PassSocket(p, q, s)
    \/ \E n \in NetNS : ChangeNetNS(p, n)
    \/ \E c \in Cgroup : ChangeCgroup(p, c)

-----------------------------------------------------------------------------
(* The scan of the processes.                                              *)

ReadDir ==
  /\ phase = "dirs"
  /\ todo' = {p \in Pid : Live(p)}
  /\ phase' = "next"
  /\ UNCHANGED <<system, mode, cur, links, found, unread, steady>>

\* The loop goes on: its variables are gone.
NoOne == [pid |-> 0, start |-> 0, ns |-> Host]
NextDir == phase' = "next" /\ cur' = NoOne

\* What cannot be read of a process, be it gone or not, ends its turn.
Unseen(p) == steady' = {h \in steady : h.pid # p}

StartTime(p) ==
  /\ phase = "next" /\ p \in todo
  /\ todo' = todo \ {p}
  /\ Live(p)
  /\ cur' = [pid |-> p, start |-> procs[p].start, ns |-> Host]
  /\ phase' = IF mode = "cgroup" THEN "netns" ELSE "fds"
  /\ UNCHANGED <<system, mode, links, found, unread, steady>>

NoStartTime(p) ==
  /\ phase = "next" /\ p \in todo /\ ~Live(p)
  /\ todo' = todo \ {p}
  /\ Unseen(p)
  /\ UNCHANGED <<system, mode, phase, cur, links, found, unread>>

\* Each read finds the process that has the PID then.
ReadNetNS ==
  /\ phase = "netns" /\ Live(cur.pid)
  /\ cur' = [cur EXCEPT !.ns = procs[cur.pid].ns]
  /\ phase' = "cgroup"
  /\ UNCHANGED <<system, mode, todo, links, found, unread, steady>>

OwnerOfHost == [pid |-> cur.pid, start |-> cur.start, ns |-> Host,
                cgroup |-> procs[cur.pid].cgroup]

\* The ProcessOwner made of what was read.
Owner == [pid |-> cur.pid, start |-> cur.start, ns |-> cur.ns,
          cgroup |-> procs[cur.pid].cgroup]

ReadCgroup ==
  /\ phase = "cgroup" /\ Live(cur.pid)
  /\ processes' = processes \cup {Owner}
  /\ phase' = "fds"
  /\ UNCHANGED <<system, mode, todo, cur, links, owners, entries, unread, steady>>

\* The descriptors of a process are read one after the other.
Links(fds) ==
  /\ links' = fds
  /\ \/ fds # {} /\ phase' = "links" /\ UNCHANGED cur
     \/ fds = {} /\ NextDir
  /\ UNCHANGED <<system, mode, todo, processes, entries, unread>>

ListFds ==
  /\ phase = "fds" /\ Live(cur.pid)
  /\ Links(procs[cur.pid].fds)
  /\ UNCHANGED <<owners, steady>>

Unreadable ==
  /\ phase \in {"netns", "cgroup", "fds"}
  /\ NextDir
  /\ Unseen(cur.pid)
  /\ UNCHANGED <<system, mode, todo, links, found, unread>>

\* A descriptor that was closed, or that another process has by now, may be
\* another socket's.
Readlink(s, t) ==
  /\ phase = "links" /\ s \in links
  /\ t \in procs[cur.pid].fds
  /\ s \in procs[cur.pid].fds /\ procs[cur.pid].start = cur.start => t = s
  /\ Links(links \ {s})
  /\ owners' = owners \cup {[ns |-> cur.ns, socket |-> t,
                             pid |-> cur.pid, start |-> cur.start]}
  /\ UNCHANGED steady

ReadlinkFails(s) ==
  /\ phase = "links" /\ s \in links
  /\ Links(links \ {s})
  /\ Unseen(cur.pid)
  /\ UNCHANGED owners

ProcessesRead ==
  /\ phase = "next" /\ todo = {}
  /\ phase' = IF mode = "cgroup" THEN "tables" ELSE "done"
  /\ unread' = {p.ns : p \in processes}
  /\ UNCHANGED <<system, mode, todo, cur, links, found, steady>>

-----------------------------------------------------------------------------
(* The socket tables.                                                      *)

\* LoadResolver: /proc/net, before the processes.
ReadOwnTables ==
  /\ phase = "own tables"
  /\ entries' \in {[entries EXCEPT ![Host] = Tables(Host)], entries}
  /\ steady' = IF entries' = entries THEN {} ELSE steady
  /\ phase' = "dirs"
  /\ UNCHANGED <<system, mode, todo, cur, links, processes, owners, unread>>

\* The process through whose /proc/<pid>/net the tables of a namespace are read.
IsRepresentative(p, n) ==
  /\ \E q \in processes : q.pid = p /\ q.ns = n
  /\ \A q \in processes : q.ns = n => p <= q.pid

OwnTables(p) == Tables(Host)

TablesThrough(p) == Tables(procs[p].ns)

\* The tables of the namespace in which the process with that PID is now.
ReadTables(n, p) ==
  /\ phase = "tables" /\ n \in unread
  /\ IsRepresentative(p, n) /\ Live(p)
  /\ entries' = [entries EXCEPT ![n] = TablesThrough(p)]
  /\ unread' = unread \ {n}
  /\ UNCHANGED <<system, mode, phase, todo, cur, links, processes, owners, steady>>

\* With the representative gone there are none, and no error.
NoTables(n) ==
  /\ phase = "tables" /\ n \in unread
  /\ unread' = unread \ {n}
  /\ steady' = {}
  /\ UNCHANGED <<system, mode, phase, todo, cur, links, found>>

TablesRead ==
  /\ phase = "tables" /\ unread = {}
  /\ phase' = "done"
  /\ UNCHANGED <<system, mode, todo, cur, links, found, unread, steady>>

Scan ==
  \/ ReadDir \/ ReadNetNS \/ ReadCgroup \/ ListFds \/ Unreadable \/ ProcessesRead
  \/ ReadOwnTables \/ TablesRead
  \/ \E p \in Pid : StartTime(p) \/ NoStartTime(p)
  \/ \E s \in Socket : ReadlinkFails(s) \/ \E t \in Socket : Readlink(s, t)
  \/ \E n \in NetNS : NoTables(n) \/ \E p \in Pid : ReadTables(n, p)

Init ==
  /\ procs \in [Pid -> {NoProcess} \cup [start : {1}, ns : NetNS, cgroup : Cgroup,
                                         fds : SUBSET Socket]]
  /\ sockets \in [Socket -> {NoSocket} \cup [ns : NetNS, key : Key]]
  /\ \A s \in Socket : sockets[s] # NoSocket <=> \E p \in Pid : s \in procs[p].fds
  /\ events = 0
  /\ mode \in {"cgroup", "host"}
  /\ phase = IF mode = "cgroup" THEN "dirs" ELSE "own tables"
  /\ todo = {} /\ links = {} /\ unread = {}
  /\ cur = NoOne
  /\ processes = {} /\ owners = {} /\ entries = [n \in NetNS |-> {}]
  /\ held = Holding(procs) /\ steady = Holding(procs)

Next == Event \/ Scan

Spec == Init /\ [][Next]_vars

-----------------------------------------------------------------------------
(* Resolve.                                                                *)

\* The sockets of a namespace under the first of the keys that is there.
Matched(n) == {s \in entries[n] : \A t \in entries[n] : sockets[s].key <= sockets[t].key}

OwnersOf(n, s) == {[pid |-> o.pid, start |-> o.start] :
                     o \in {w \in owners : w.ns = n /\ w.socket = s}}

ResolvesFirstInode(n, s, o) == s \in Matched(n) /\ OwnersOf(n, s) = {o}

ResolvesFirstOwner(n, s, o) ==
  Matched(n) = {s} /\ o \in {w \in OwnersOf(n, s) : \A v \in OwnersOf(n, s) : w.pid <= v.pid}

\* Resolver.Resolve assigns the flow to process o by socket s.
Resolves(n, s, o) == Matched(n) = {s} /\ OwnersOf(n, s) = {o}

\* The candidates of a cgroup, of all the namespaces its processes are in.
Candidates(c) == {p \in processes :
  p.cgroup = c /\ \E s \in Socket : Resolves(p.ns, s, [pid |-> p.pid, start |-> p.start])}

\* All assignments of the flow, for any cgroup it may come from; LoadResolver has
\* no cgroups.
Assigned ==
  {o \in owners :
     /\ Resolves(o.ns, o.socket, [pid |-> o.pid, start |-> o.start])
     /\ \/ mode = "host"
        \/ \E p \in processes : /\ p.pid = o.pid /\ p.start = o.start /\ p.ns = o.ns
                               /\ Candidates(p.cgroup) = {p}}

VerifiedPID(o) == Live(o.pid)

\* The snapshot reads the start time again and counts the rest as exited.
Verified(o) == procs[o.pid].start = o.start

-----------------------------------------------------------------------------
\* Every variable has its type, the loop's variables exist only in the loop, and
\* descriptors are kept under a ProcessOwner that is kept as well.
TypeOK ==
  /\ procs \in [Pid -> Process \cup {NoProcess}]
  /\ sockets \in [Socket -> [ns : NetNS, key : 0..NKeys]]
  /\ events \in 0..MaxEvents /\ mode \in {"cgroup", "host"}
  /\ phase \in {"own tables", "dirs", "next", "netns", "cgroup", "fds", "links",
                "tables", "done"}
  /\ todo \subseteq Pid /\ links \subseteq Socket /\ (links # {} <=> phase = "links")
  /\ IF phase \in {"netns", "cgroup", "fds", "links"}
     THEN cur \in [pid : Pid, start : Nat \ {0}, ns : NetNS] ELSE cur = NoOne
  /\ processes \subseteq [pid : Pid, start : Nat \ {0}, ns : NetNS, cgroup : Cgroup]
  /\ owners \subseteq [ns : NetNS, socket : Socket, pid : Pid, start : Nat \ {0}]
  /\ mode = "cgroup" => \A o \in owners : \E p \in processes :
       p.pid = o.pid /\ p.start = o.start /\ p.ns = o.ns
  /\ unread \subseteq NetNS /\ entries \in [NetNS -> SUBSET Socket]
  /\ held \subseteq [pid : Pid, start : Nat \ {0}, ns : NetNS, socket : Socket]
  /\ steady \subseteq held

\* The process that is published with traffic has had the socket: what a PID's
\* earlier or next process had is never taken for its.
NamesHolder ==
  phase = "done" => \A a \in Assigned : Verified(a) =>
    \E h \in held : h.pid = a.pid /\ h.start = procs[a.pid].start /\ h.socket = a.socket

\* A socket that a second process of the namespace has all along is assigned to
\* none.
SharedSocketUnknown ==
  phase = "done" => \A a \in Assigned : \A h \in steady :
    h.socket = a.socket /\ (mode = "host" \/ h.ns = a.ns) =>
      h.pid = a.pid /\ h.start = a.start

\* Nor is a flow for which a second socket of the namespace is there all along
\* that fits it as well, or better.
ReusedPortUnknown ==
  phase = "done" => \A a \in Assigned : \A h \in steady :
    /\ sockets[h.socket].ns = sockets[a.socket].ns
    /\ sockets[h.socket].key <= sockets[a.socket].key
    => h.socket = a.socket

\* Nothing has happened to any holder of a socket, and all of it could be read.
Quiet == events = 0 /\ held = steady

\* h has the only socket for the flow in its namespace, and is there with all
\* processes of its cgroup (where cgroups matter).
SoleOwner(h) ==
  /\ h.ns = sockets[h.socket].ns
  /\ \A g \in steady : sockets[g.socket].ns = h.ns => g.socket = h.socket
  /\ \A g \in steady : g.socket = h.socket => g.pid = h.pid
  /\ IF mode = "host" THEN h.ns = Host
     ELSE \A p \in Pid : procs[p].cgroup = procs[h.pid].cgroup => procs[p].ns = h.ns

\* When nothing happens and everything can be read, a flow is assigned to its
\* sole owner.
SoleOwnerFound ==
  phase = "done" /\ Quiet => \A h \in steady : SoleOwner(h) =>
    \E a \in Assigned : a.pid = h.pid /\ a.start = h.start /\ a.socket = h.socket

\* What the comment at UnknownReason says: attribution never guesses.  When
\* nothing happens, a flow is only assigned by a socket that nobody else has.
NeverGuesses ==
  phase = "done" /\ Quiet => \A a \in Assigned : \A h \in steady :
    h.socket = a.socket => h.pid = a.pid
=============================================================================
