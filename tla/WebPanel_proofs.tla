-------------------------- MODULE WebPanel_proofs --------------------------
(***************************************************************************)
(* The panel's types, and that it never runs two collectors, for any set   *)
(* of process IDs.                                                         *)
(***************************************************************************)
EXTENDS WebPanel, TLAPS

\* The part of TypeOK about the processes and their supervisor.
ProcessesOK ==
  /\ sup \in {"loop", "popen", "register", "communicate", "clear", "wait", "done"}
  /\ handle \in Pid \cup {NoPid}
  /\ sup \in {"register", "communicate"} => handle \in Pid
  /\ net # NoPid => sup \in {"communicate", "clear"}
  /\ sup = "communicate" => net = handle
  /\ monitored \subseteq Pid /\ net \in monitored \cup {NoPid}
  /\ proc \in [Pid -> {"free", "other", "collector", "zombie"}]
  /\ signalled \subseteq {p \in Pid : Running(p)}

\* The part about the sampler.
SamplerOK ==
  /\ sam \in {"loop", "exclude", "parents", "list", "load", "answer", "wait", "done"}
  /\ {excluded, children, listed, through} \subseteq SUBSET Pid
  /\ degraded \in BOOLEAN
  /\ cache \in Response

\* The part about the main thread and the files.
MainOK ==
  /\ main \in {"starting", "serving", "closing", "cleaning", "exited"}
  /\ stop \in BOOLEAN /\ escaped \in {"none", "cleanup failed", "killed"}
  /\ dir \in BOOLEAN /\ file \in {"none", "fresh", "old"}

\* Steps of the supervisor, which leave the main thread and the files alone.
LEMMA SupervisorStep ==
  ASSUME ProcessesOK, OneCollector, SupStep
  PROVE  ProcessesOK' /\ OneCollector' /\ UNCHANGED <<files, ending>>
<1> USE WebPanelAssumption DEF ProcessesOK, OneCollector, Running, NoPid, ThreadsAlive, ending
<1>1. CASE SupLoop
  BY <1>1 DEF SupLoop, kernel
<1>2. CASE PopenFails
  BY <1>2 DEF PopenFails, AfterFailure, kernel
<1>3. CASE Register
  BY <1>3 DEF Register, kernel
<1>4. CASE Communicate
  BY <1>4 DEF Communicate, HasEnded
<1>5. CASE Clear
  BY <1>5 DEF Clear, kernel
<1>6. CASE SupWait
  BY <1>6 DEF SupWait, kernel
<1>7. ASSUME NEW p \in Pid, Popen(p)
      PROVE  ProcessesOK' /\ OneCollector' /\ UNCHANGED <<files, ending>>
  <2>1. \A q \in Pid : proc[q] \notin {"collector", "zombie"}
    BY <1>7 DEF Popen
  <2>2. ProcessesOK'
    BY <1>7, <2>1 DEF Popen
  <2>3. OneCollector'
    BY <1>7, <2>1 DEF Popen
  <2> QED BY <1>7, <2>2, <2>3 DEF Popen
<1> QED BY <1>1, <1>2, <1>3, <1>4, <1>5, <1>6, <1>7 DEF SupStep

\* The supervisor leaves the sampler alone.
LEMMA SupervisorLeavesSampler ==
  ASSUME SamplerOK, SupStep
  PROVE  SamplerOK'
<1>1. UNCHANGED sampling
  BY DEF SupStep, SupLoop, Popen, PopenFails, Register, Communicate, Clear, SupWait
<1> QED BY <1>1 DEF sampling, SamplerOK

\* The sampler keeps its own types; of the rest it only waits, by poll, for a
\* process that has ended.
LEMMA SamplerStep ==
  ASSUME ProcessesOK, SamplerOK, SamStep \/ SmonFails
  PROVE  /\ SamplerOK' /\ UNCHANGED <<supervising, signalled, files, ending>>
         /\ proc' \in {proc, Polled}
<1> USE DEF SamplerOK, kernel
<1>1. CASE SamLoop
  BY <1>1 DEF SamLoop, Others
<1>2. CASE ReadExcluded
  BY <1>2 DEF ReadExcluded, ProcessesOK
<1>3. CASE RefreshParents
  BY <1>3 DEF RefreshParents
<1>4. CASE ListProcesses
  BY <1>4 DEF ListProcesses
<1>5. CASE LoadFile
  <2>1. degraded' \in BOOLEAN
    BY <1>5, Zenon DEF LoadFile, Accepted
  <2> QED BY <1>5, <2>1 DEF LoadFile
<1>6. CASE Answer
  <2>1. cache' \in Response
    BY <1>6 DEF Answer, Return, Response
  <2> QED BY <1>6, <2>1 DEF Answer, Return
<1>7. CASE SmonFails
  <2>1. cache' \in Response
    BY <1>7 DEF SmonFails, Return, Response
  <2> QED BY <1>7, <2>1 DEF SmonFails, Return
<1>8. CASE SamWait
  BY <1>8 DEF SamWait
<1> QED BY <1>1, <1>2, <1>3, <1>4, <1>5, <1>6, <1>7, <1>8 DEF SamStep

\* The main thread: only signals and the zombies left to init change of the
\* processes.
LEMMA MainThread ==
  ASSUME ProcessesOK, OneCollector, MainOK, Bind \/ Interrupt \/ MainStep \/ Killed
  PROVE  ProcessesOK' /\ OneCollector' /\ MainOK' /\ UNCHANGED sampling
<1> USE DEF ProcessesOK, OneCollector, MainOK, Running, ThreadsAlive, Polled, supervising, kernel, files
<1>1. CASE Bind
  <2>1. UNCHANGED <<sampling, sup, handle, net, monitored, proc, signalled, stop, escaped>>
    BY <1>1 DEF Bind
  <2>2. main = "starting" /\ main' \in {"serving", "cleaning"} /\ UNCHANGED <<dir, file>>
    BY <1>1 DEF Bind
  <2>3. ProcessesOK'
    BY <2>1
  <2>4. OneCollector'
    BY <2>1, <2>2
  <2>5. MainOK'
    BY <2>1, <2>2
  <2> QED BY <2>1, <2>3, <2>4, <2>5
<1>2. CASE Interrupt
  BY <1>2 DEF Interrupt
<1>3. CASE Terminate
  BY <1>3 DEF Terminate
<1>4. CASE Cleanup
  BY <1>4 DEF Cleanup, RemoveDirectory, Leave
<1>5. CASE CleanupFails
  BY <1>5 DEF CleanupFails, Leave
<1>6. CASE Killed
  BY <1>6 DEF Killed, Leave
<1> QED BY <1>1, <1>2, <1>3, <1>4, <1>5, <1>6 DEF MainStep

\* Processes that start and end, and the clock.
SystemMoves ==
  \/ FileAges
  \/ \E p \in Pid : \/ OtherStarts(p) \/ OtherExits(p)
                    \/ CollectorPublishes(p) \/ CollectorExits(p)

LEMMA SystemStep ==
  ASSUME ProcessesOK, OneCollector, MainOK, SystemMoves
  PROVE  ProcessesOK' /\ OneCollector' /\ MainOK'
<1> USE DEF OneCollector, Running, ThreadsAlive
<1>1. CASE FileAges
  <2>1. UNCHANGED <<sup, handle, net, monitored, proc, signalled, main>>
    BY <1>1 DEF FileAges, supervising, kernel, ending
  <2>2. ProcessesOK' /\ OneCollector'
    BY <2>1 DEF ProcessesOK
  <2>3. MainOK'
    BY <1>1 DEF FileAges, MainOK, ending
  <2> QED BY <2>2, <2>3
<1>2. ASSUME NEW p \in Pid, OtherStarts(p)
      PROVE  ProcessesOK' /\ OneCollector' /\ MainOK'
  <2>1. UNCHANGED <<sup, handle, net, monitored, signalled, main>>
    BY <1>2 DEF OtherStarts, supervising, ending
  <2>2. ProcessesOK' /\ OneCollector'
    BY <1>2, <2>1 DEF ProcessesOK, OtherStarts
  <2>3. MainOK'
    BY <1>2 DEF OtherStarts, MainOK, files, ending
  <2> QED BY <2>2, <2>3
<1>3. ASSUME NEW p \in Pid, OtherExits(p)
      PROVE  ProcessesOK' /\ OneCollector' /\ MainOK'
  <2>1. UNCHANGED <<sup, handle, net, monitored, main>>
    BY <1>3 DEF OtherExits, supervising, ending
  <2>2. ProcessesOK' /\ OneCollector'
    BY <1>3, <2>1 DEF ProcessesOK, OtherExits
  <2>3. MainOK'
    BY <1>3 DEF OtherExits, MainOK, files, ending
  <2> QED BY <2>2, <2>3
<1>4. ASSUME NEW p \in Pid, CollectorPublishes(p)
      PROVE  ProcessesOK' /\ OneCollector' /\ MainOK'
  <2>1. UNCHANGED <<sup, handle, net, monitored, proc, signalled, main>>
    BY <1>4 DEF CollectorPublishes, supervising, kernel, ending
  <2>2. ProcessesOK' /\ OneCollector'
    BY <2>1 DEF ProcessesOK
  <2>3. MainOK'
    BY <1>4 DEF CollectorPublishes, MainOK, ending
  <2> QED BY <2>2, <2>3
<1>5. ASSUME NEW p \in Pid, CollectorExits(p)
      PROVE  ProcessesOK' /\ OneCollector' /\ MainOK'
  <2>1. UNCHANGED <<sup, handle, net, monitored, main>>
    BY <1>5 DEF CollectorExits, supervising, ending
  <2>2. ProcessesOK' /\ OneCollector'
    BY <1>5, <2>1 DEF ProcessesOK, CollectorExits
  <2>3. MainOK'
    BY <1>5 DEF CollectorExits, MainOK, files, ending
  <2> QED BY <2>2, <2>3
<1> QED BY <1>1, <1>2, <1>3, <1>4, <1>5 DEF SystemMoves

\* A process that ends is taken out of what the sampler has found.
LEMMA SystemLeavesSampler ==
  ASSUME SamplerOK, SystemMoves
  PROVE  SamplerOK'
<1>1. CASE UNCHANGED sampling
  BY <1>1 DEF sampling, SamplerOK
<1>2. ASSUME NEW p \in Pid, Gone(p) PROVE SamplerOK'
  <2>1. UNCHANGED <<sam, excluded, children, degraded, cache>>
    BY <1>2 DEF Gone
  <2>2. listed' \subseteq Pid /\ through' \subseteq Pid
    BY <1>2 DEF Gone, SamplerOK
  <2> QED BY <2>1, <2>2 DEF SamplerOK
<1> QED BY <1>1, <1>2 DEF SystemMoves, FileAges, OtherStarts, OtherExits,
                            CollectorPublishes, CollectorExits

\* All of it together is inductive: there are never two collectors because a
\* new one is made only where OneCollector leaves no PID for an old one.
LEMMA PanelInvariant == Spec => [](TypeOK /\ OneCollector)
<1> DEFINE Inv == ProcessesOK /\ SamplerOK /\ MainOK /\ OneCollector
<1>1. Init => Inv
  <2> SUFFICES ASSUME Init PROVE Inv
    OBVIOUS
  <2>1. ProcessesOK /\ OneCollector
    BY WebPanelAssumption DEF Init, ProcessesOK, OneCollector, Running, NoPid
  <2>2. cache \in Response
    BY DEF Init, Response
  <2>3. SamplerOK
    BY <2>2 DEF Init, SamplerOK
  <2>4. MainOK
    BY DEF Init, MainOK
  <2> QED BY <2>1, <2>3, <2>4
<1>2. Inv /\ [Next]_vars => Inv'
  <2> SUFFICES ASSUME Inv, [Next]_vars PROVE Inv'
    OBVIOUS
  <2>1. CASE SupStep
    <3>1. ProcessesOK' /\ OneCollector' /\ UNCHANGED <<files, ending>>
      BY <2>1, SupervisorStep
    <3>2. SamplerOK'
      BY <2>1, SupervisorLeavesSampler
    <3> QED BY <3>1, <3>2 DEF MainOK, files, ending
  <2>2. CASE SamStep \/ SmonFails
    <3>1. /\ SamplerOK' /\ UNCHANGED <<supervising, signalled, files, ending>>
          /\ proc' \in {proc, Polled}
      BY <2>2, SamplerStep
    <3>2. ProcessesOK' /\ OneCollector'
      BY <3>1 DEF ProcessesOK, OneCollector, Running, ThreadsAlive, Polled,
                  supervising, ending
    <3> QED BY <3>1, <3>2 DEF MainOK, files, ending
  <2>3. CASE Bind \/ Interrupt \/ MainStep \/ Killed
    <3>1. ProcessesOK' /\ OneCollector' /\ MainOK' /\ UNCHANGED sampling
      BY <2>3, MainThread
    <3> QED BY <3>1 DEF SamplerOK, sampling
  <2>4. CASE SystemMoves
    BY <2>4, SystemStep, SystemLeavesSampler
  <2>5. CASE UNCHANGED vars
    <3>1. UNCHANGED <<supervising, sampling, kernel, files, ending>>
      BY <2>5 DEF vars, supervising, sampling, kernel, files, ending
    <3>2. SamplerOK'
      BY <3>1 DEF SamplerOK, sampling
    <3>3. MainOK'
      BY <3>1 DEF files, ending, MainOK
    <3>4. ProcessesOK' /\ OneCollector'
      BY <3>1 DEF supervising, kernel, ending, ProcessesOK, OneCollector, Running,
                  ThreadsAlive
    <3> QED BY <3>2, <3>3, <3>4
  <2> QED BY <2>1, <2>2, <2>3, <2>4, <2>5 DEF Next, SystemMoves
<1>3. Inv => TypeOK /\ OneCollector
  BY DEF TypeOK, ProcessesOK, SamplerOK, MainOK
<1> QED BY <1>1, <1>2, <1>3, PTL DEF Spec

\* Every variable has its type, and what the threads know of the collector
\* process agrees, whatever they interleave.
THEOREM PanelTypes == Spec => []TypeOK
  BY PanelInvariant, PTL

\* The panel never has two collectors, however they crash and are restarted
\* and wherever it is interrupted.
THEOREM NeverTwoCollectors == Spec => []OneCollector
  BY PanelInvariant, PTL
=============================================================================
