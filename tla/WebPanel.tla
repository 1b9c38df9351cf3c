----------------------------- MODULE WebPanel -----------------------------
(***************************************************************************)
(* The backend of the web panel (web.py): the thread that keeps one        *)
(* smon-net running, the thread that samples "smon -j" into the response   *)
(* cache, and the main thread that serves and shuts both down.             *)
(*                                                                         *)
(* Modelled: every statement at which the threads can meet, the process    *)
(* table with exits, zombies and reused PIDs, failing starts, a port that  *)
(* is taken, the interrupt and the kill of the panel, the removal of the   *)
(* temporary directory, the steps of smon -j at which it looks at the      *)
(* processes and at the snapshot file, and its failures.                   *)
(*                                                                         *)
(* Abstracted: a panel that found no collector or no interface has no      *)
(* supervisor and is left out; a snapshot is fresh until it is too old; a  *)
(* response is the PIDs it lists and whether it admits to degraded data.   *)
(***************************************************************************)
EXTENDS Integers, FiniteSets

CONSTANT Pid   \* process IDs the system gives out

ASSUME WebPanelAssumption == "none" \notin Pid

NoPid == "none"

VARIABLES
  main,      \* "starting", "serving", "closing", "cleaning", "exited"
  stop,      \* STOP is set
  sup,       \* the next statement of collector_supervisor
  handle,    \* its local variable process
  net,       \* NET_PROCESS
  monitored, \* MONITOR_PIDS
  proc,      \* the process table
  signalled, \* collectors that have been sent a signal
  dir,       \* the temporary directory exists
  file,      \* net.tsv in it: "none", "fresh", or "old" by its time stamp
  sam,       \* the next statement of sampler, collect and smon -j
  excluded,  \* the PIDs collect has put into SMON_EXCLUDE_PIDS
  children,  \* PID_PARENT of smon -j: the processes known to be the panel's
  listed,    \* the processes smon -j has found, still there with their start time
  degraded,  \* smon -j has fallen back to ss_tcp_info
  cache,     \* CACHE["json"]
  \* History: of the sample in progress, and of the end.
  through,   \* the processes of others that were there all the time
  escaped    \* how the panel left a running collector its directory, or "none"

supervising == <<sup, handle, net, monitored>>
sampling    == <<sam, excluded, children, listed, degraded, cache, through>>
kernel      == <<proc, signalled>>
files       == <<dir, file>>
ending      == <<main, stop, escaped>>
vars        == <<supervising, sampling, kernel, files, ending>>

Running(p) == proc[p] = "collector"
Others == {p \in Pid : proc[p] = "other"}

\* Threads run until the main thread has left: they are daemon threads.
ThreadsAlive == main # "exited"

-----------------------------------------------------------------------------
(* The system's processes.                                                 *)

\* What happens to a PID whose process ends: what was found of it no longer
\* has the start time it was found with.
Gone(p) ==
  /\ listed' = listed \ {p}
  /\ through' = through \ {p}
  /\ UNCHANGED <<sam, excluded, children, degraded, cache>>

OtherStarts(p) ==
  /\ proc[p] = "free"
  /\ proc' = [proc EXCEPT ![p] = "other"]
  /\ UNCHANGED <<supervising, sampling, signalled, files, ending>>

OtherExits(p) ==
  /\ proc[p] = "other"
  /\ proc' = [proc EXCEPT ![p] = "free"]
  /\ Gone(p)
  /\ UNCHANGED <<supervising, signalled, files, ending>>

\* WriteSnapshot of a running collector.
CollectorPublishes(p) ==
  /\ Running(p) /\ dir
  /\ file' = "fresh"
  /\ UNCHANGED <<supervising, sampling, kernel, dir, ending>>

\* The collector fails at any time; the panel's process waits for it, and once
\* that has exited nobody needs to.
CollectorExits(p) ==
  /\ Running(p)
  /\ proc' = [proc EXCEPT ![p] = IF ThreadsAlive THEN "zombie" ELSE "free"]
  /\ signalled' = signalled \ {p}
  /\ Gone(p)
  /\ UNCHANGED <<supervising, files, ending>>

\* A collector that was signalled, or finds no directory, does not go on.
CollectorMustExit(p) == (p \in signalled \/ ~dir) /\ CollectorExits(p)

\* Nothing is published for longer than max_age.
FileAges ==
  /\ file = "fresh"
  /\ file' = "old"
  /\ UNCHANGED <<supervising, sampling, kernel, dir, ending>>

-----------------------------------------------------------------------------
(* collector_supervisor.                                                   *)

SupLoop ==
  /\ ThreadsAlive /\ sup = "loop"
  /\ sup' = IF stop THEN "done" ELSE "popen"
  /\ UNCHANGED <<handle, net, monitored, sampling, kernel, files, ending>>

\* Popen: a new process, not yet known to anyone but this thread.
Popen(p) ==
  /\ ThreadsAlive /\ sup = "popen"
  /\ proc[p] = "free"
  /\ proc' = [proc EXCEPT ![p] = "collector"]
  /\ handle' = p
  /\ sup' = "register"
  /\ UNCHANGED <<net, monitored, sampling, signalled, files, ending>>

GiveUp == "done"

\* The statement after a failed Popen: the finally clause, and then the loop.
AfterFailure == "clear"

PopenFails ==
  /\ ThreadsAlive /\ sup = "popen"
  /\ sup' = AfterFailure
  /\ UNCHANGED <<handle, net, monitored, sampling, kernel, files, ending>>

Register ==
  /\ ThreadsAlive /\ sup = "register"
  /\ net' = handle
  /\ monitored' = monitored \cup {handle}
  /\ sup' = "communicate"
  /\ UNCHANGED <<handle, sampling, kernel, files, ending>>

CommunicateNoWait == TRUE

\* communicate returns when the process has ended; waiting for it frees its
\* PID, unless poll has already done so.
HasEnded == ~Running(handle)

Communicate ==
  /\ ThreadsAlive /\ sup = "communicate"
  /\ HasEnded
  /\ proc' = [proc EXCEPT ![handle] = IF @ = "zombie" THEN "free" ELSE @]
  /\ sup' = "clear"
  /\ handle' = NoPid
  /\ UNCHANGED <<net, monitored, sampling, signalled, files, ending>>

ClearForgotten ==
  /\ ThreadsAlive /\ sup = "clear"
  /\ sup' = "wait"
  /\ UNCHANGED <<handle, net, monitored, sampling, kernel, files, ending>>

Clear ==
  /\ ThreadsAlive /\ sup = "clear"
  /\ net' = NoPid
  /\ sup' = "wait"
  /\ UNCHANGED <<handle, monitored, sampling, kernel, files, ending>>

SupWait ==
  /\ ThreadsAlive /\ sup = "wait"
  /\ sup' = "loop"
  /\ UNCHANGED <<handle, net, monitored, sampling, kernel, files, ending>>

SupStep == \/ SupLoop \/ PopenFails \/ Register \/ Communicate \/ Clear \/ SupWait
           \/ \E p \in Pid : Popen(p)

-----------------------------------------------------------------------------
(* sampler, with collect and the smon -j it runs.                          *)

\* A response: its status, and the processes of others it does not list
\* although they were there all the time.
Response == [status : {"sampling", "error", "degraded", "ok"},
             missing : SUBSET Pid]

\* collect returns: the sampler stores its result, and its variables and those
\* of smon -j are gone.
Return(response) ==
  /\ cache' = response
  /\ sam' = "wait"
  /\ excluded' = {} /\ children' = {} /\ listed' = {} /\ through' = {}
  /\ degraded' = TRUE

SamLoop ==
  /\ ThreadsAlive /\ sam = "loop"
  /\ sam' = IF stop THEN "done" ELSE "exclude"
  /\ through' = Others
  /\ UNCHANGED <<supervising, excluded, children, listed, degraded, cache,
                 kernel, files, ending>>

\* The processes once NET_PROCESS.poll() has waited for one that has ended.
Polled == [p \in Pid |-> IF p = net /\ proc[p] = "zombie" THEN "free" ELSE proc[p]]

\* Under NET_PROCESS_LOCK.  NET_PROCESS, when it runs, is among MONITOR_PIDS.
ReadExcluded ==
  /\ ThreadsAlive /\ sam = "exclude"
  /\ excluded' = monitored
  /\ sam' = "parents"
  /\ proc' = Polled
  /\ UNCHANGED <<supervising, children, listed, degraded, cache, through,
                 signalled, files, ending>>

\* refresh_pid_parents: is_excluded_pid follows it up to the panel's own PID.
RefreshParents ==
  /\ ThreadsAlive /\ sam = "parents"
  /\ children' = {p \in Pid : proc[p] \in {"collector", "zombie"}}
  /\ sam' = "list"
  /\ UNCHANGED <<supervising, excluded, listed, degraded, cache, through,
                 kernel, files, ending>>

\* linux_snapshot: all processes but zombies and the excluded ones.
ListProcesses ==
  /\ ThreadsAlive /\ sam = "list"
  /\ listed' = {p \in Pid : proc[p] \in {"collector", "other"}}
               \ (excluded \cup children)
  /\ sam' = "load"
  /\ UNCHANGED <<supervising, excluded, children, degraded, cache, through,
                 kernel, files, ending>>

FileThere == file # "none"

\* load_net_snapshot accepts the file when there is one and it is not too old.
Accepted == file = "fresh"

LoadFile ==
  /\ ThreadsAlive /\ sam = "load"
  /\ degraded' = ~Accepted
  /\ sam' = "answer"
  /\ UNCHANGED <<supervising, excluded, children, listed, cache, through,
                 kernel, files, ending>>

\* linux_collect and emit_json; collect filters the PIDs again and stores.
Answer ==
  /\ ThreadsAlive /\ sam = "answer"
  /\ Return([status  |-> IF degraded THEN "degraded" ELSE "ok",
             missing |-> through \ (listed \ excluded)])
  /\ UNCHANGED <<supervising, kernel, files, ending>>

\* smon -j fails, takes longer than 25 s, or prints no JSON.
SmonFails ==
  /\ ThreadsAlive /\ sam \in {"parents", "list", "load", "answer"}
  /\ Return([status |-> "error", missing |-> {}])
  /\ UNCHANGED <<supervising, kernel, files, ending>>

SamWait ==
  /\ ThreadsAlive /\ sam = "wait"
  /\ sam' = "loop"
  /\ UNCHANGED <<supervising, excluded, children, listed, degraded, cache, through,
                 kernel, files, ending>>

SamStep == \/ SamLoop \/ ReadExcluded \/ RefreshParents \/ ListProcesses
           \/ LoadFile \/ Answer \/ SamWait

-----------------------------------------------------------------------------
(* The main thread.                                                        *)

\* The server's socket is bound after the threads were started; when that
\* fails the exception leaves the with block, not the try below it.
Bind ==
  /\ main = "starting"
  /\ main' \in {"serving", "cleaning"}
  /\ UNCHANGED <<supervising, sampling, kernel, files, stop, escaped>>

\* KeyboardInterrupt, and STOP.set.  Ctrl+C in a terminal reaches the
\* collector as well, kill -INT only the panel.
Interrupt ==
  /\ main = "serving"
  /\ main' = "closing"
  /\ stop' = TRUE
  /\ signalled' \in {signalled, {p \in Pid : Running(p)}}
  /\ UNCHANGED <<supervising, sampling, proc, files, escaped>>

\* The rest of the finally clause, under NET_PROCESS_LOCK.
Terminate ==
  /\ main = "closing"
  /\ main' = "cleaning"
  /\ proc' = Polled
  /\ signalled' = signalled \cup {p \in Pid : p = net /\ Running(p)}
  /\ UNCHANGED <<supervising, sampling, files, stop, escaped>>

\* Threads end with the main thread, and init waits for its processes.
Leave ==
  /\ main' = "exited"
  /\ proc' = [p \in Pid |-> IF proc[p] = "zombie" THEN "free" ELSE proc[p]]
  /\ UNCHANGED <<supervising, sampling, signalled, stop>>

LeaveDirectory == Leave /\ UNCHANGED <<files, escaped>>

\* TemporaryDirectory removes the directory.
RemoveDirectory ==
  /\ Leave
  /\ dir' = FALSE /\ file' = "none"
  /\ UNCHANGED escaped

Cleanup == main = "cleaning" /\ RemoveDirectory

\* A file a collector creates meanwhile makes the removal fail.
CleanupFails ==
  /\ main = "cleaning"
  /\ \E p \in Pid : Running(p)
  /\ Leave
  /\ escaped' = "cleanup failed"
  /\ UNCHANGED files

\* SIGTERM or SIGKILL: nothing of the above runs.
Killed ==
  /\ ThreadsAlive
  /\ Leave
  /\ escaped' = "killed"
  /\ UNCHANGED files

MainStep == Terminate \/ Cleanup \/ CleanupFails

-----------------------------------------------------------------------------
Init ==
  /\ main = "starting" /\ stop = FALSE /\ escaped = "none"
  /\ sup = "loop" /\ handle = NoPid /\ net = NoPid /\ monitored = {}
  /\ proc \in [Pid -> {"free", "other"}] /\ signalled = {}
  /\ dir = TRUE /\ file = "none"
  /\ sam = "loop" /\ excluded = {} /\ children = {} /\ listed = {}
  /\ degraded = TRUE /\ through = {}
  /\ cache = [status |-> "sampling", missing |-> {}]

Next == \/ SupStep \/ SamStep \/ SmonFails
        \/ Bind \/ Interrupt \/ MainStep \/ Killed \/ FileAges
        \/ \E p \in Pid : \/ OtherStarts(p) \/ OtherExits(p)
                          \/ CollectorPublishes(p) \/ CollectorExits(p)

\* The threads run, time passes for the file, and a collector that was
\* signalled or cannot write its snapshot exits.  Nothing makes a collector
\* crash or start successfully, nor the panel end.
Spec == /\ Init /\ [][Next]_vars
        /\ WF_vars(SupStep) /\ WF_vars(SamStep) /\ WF_vars(MainStep)
        /\ WF_vars(FileAges)
        /\ \A p \in Pid : WF_vars(CollectorMustExit(p))

-----------------------------------------------------------------------------
\* Every variable has its type, and the supervisor's variables agree: what
\* NET_PROCESS shows the other threads is the process being waited for, known
\* to MONITOR_PIDS, and nothing otherwise.
TypeOK ==
  /\ main \in {"starting", "serving", "closing", "cleaning", "exited"}
  /\ stop \in BOOLEAN /\ escaped \in {"none", "cleanup failed", "killed"}
  /\ sup \in {"loop", "popen", "register", "communicate", "clear", "wait", "done"}
  /\ handle \in Pid \cup {NoPid}
  /\ sup \in {"register", "communicate"} => handle \in Pid
  /\ net # NoPid => sup \in {"communicate", "clear"}
  /\ sup = "communicate" => net = handle
  /\ monitored \subseteq Pid /\ net \in monitored \cup {NoPid}
  /\ proc \in [Pid -> {"free", "other", "collector", "zombie"}]
  /\ signalled \subseteq {p \in Pid : Running(p)}
  /\ dir \in BOOLEAN /\ file \in {"none", "fresh", "old"}
  /\ sam \in {"loop", "exclude", "parents", "list", "load", "answer", "wait", "done"}
  /\ {excluded, children, listed, through} \subseteq SUBSET Pid
  /\ degraded \in BOOLEAN
  /\ cache \in Response

\* The panel runs one smon-net: a collector that runs, or has ended and was not
\* waited for, is the one its supervisor holds, before and after the panel's end.
OneCollector ==
  \A p \in Pid : proc[p] \in {"collector", "zombie"} =>
    p = handle /\ (ThreadsAlive => sup \in {"register", "communicate"})

\* A collector that ends, or cannot be started, is started again.
CrashRetried ==
  (sup # "register" /\ ~(sup = "communicate" /\ Running(handle)))
    ~> (sup = "popen" \/ stop \/ ~ThreadsAlive)

\* The panel leaves no collector behind, interrupted at any point or with its
\* port taken: those it does not terminate find their directory gone.  This
\* needs the removal of the directory, which a kill or a race prevents.
NoneLeftBehind ==
  (~ThreadsAlive /\ escaped = "none") ~> (\A p \in Pid : ~Running(p))

\* When no collector runs any more, the panel in time stops calling its data
\* good.
StaleAdmitted ==
  (/\ <>[](\A p \in Pid : ~Running(p))
   /\ [](ThreadsAlive /\ ~stop)) => <>[](cache.status # "ok")

\* What the README says of the list: all processes.  No run asks for it, as it
\* does not hold of a process that is given a collector's PID
\* (WebPanel_hidden.cfg shows how).
AllProcessesListed == cache.missing = {}
=============================================================================
