---------------------------- MODULE ServiceProofs ----------------------------
(***************************************************************************)
(* Proofs about ServiceManager: its types, that a held service is down     *)
(* once its stop is done, that nothing runs twice, that the notification   *)
(* daemon keeps its event consumer, and that service.sh implements         *)
(* ServicePolicy; and about Watchdog: its types, and that the watchdog is  *)
(* one more caller of service.sh, so that all of that holds while it runs. *)
(***************************************************************************)
EXTENDS Watchdog, TLAPS

StopPC == {"halt", "release", "killipc"}
FreshPC == {"ipc", "spawn"}

(* What stop_process has been applied to is not live until the spawn. *)
StopProgress ==
  /\ job.pc = "halt" =>
       job.kill \subseteq StopSet(job.svc) /\ \A d \in StopSet(job.svc) \ job.kill : ~Live(d)
  /\ job.pc \in {"release", "killipc"} \cup FreshPC => ~Up(job.svc)

(* A stop never turns into a start, and `on' works on the private services. *)
StopOnly ==
  /\ job.act \in {"stop", "on"} =>
       job.pc \in {"privacy", "begin"} \cup StopPC /\ job.then = "begin"
  /\ job.act = "on" /\ job.pc = "privacy" => Members(job.todo) = Private \cap Service

(* On the way to a launch the service is not held. *)
Permitted ==
  \/ job.pc \in {"count", "keepipc", "await"} \cup FreshPC
  \/ job.pc \in StopPC /\ job.then \in FreshPC
  => ~Held(job.svc)

Shape == StopProgress /\ StopOnly /\ Permitted

IInv == TypeOK /\ Shape

-----------------------------------------------------------------------------
(* Taking the first service of a list leaves the others. *)
LEMMA TakeFirst ==
  ASSUME NEW todo \in Seq(Service), todo # <<>>
  PROVE  /\ Head(todo) \in Service /\ Tail(todo) \in Seq(Service)
         /\ Members(todo) = {Head(todo)} \cup Members(Tail(todo))
BY DEF Members

LEMMA ListedType == \A s \in AllService : Listed(s) \in Seq(Service)
BY DEF Listed

(* The privacy commands work on the private services that exist. *)
LEMMA PrivateMembers == Members(PRIVATE_SERVICES) = Private \cap Service
BY DEF Members, PRIVATE_SERVICES, Listed, Private

LEMMA WorkType ==
  ASSUME NEW cmd \in Command
  PROVE  Work(cmd[1]) \in Seq(Service)
<1>1. PRIVATE_SERVICES \in Seq(Service)
  BY ListedType DEF PRIVATE_SERVICES, AllService
<1>2. ALL_SERVICES \in Seq(Service)
  BY ListedType DEF ALL_SERVICES, AllService
<1>3. QED
  BY <1>1, <1>2, ServiceConstants DEF ServiceConstants, AllCommand, Work

(* The words of a command line. *)
LEMMA CommandWords ==
  ASSUME NEW cmd \in Command
  PROVE  /\ cmd = <<cmd[1], cmd[2]>>
         /\ cmd[1] \in AllService \cup {"all", "privacy"}
         /\ cmd[2] \in ServiceAction \cup {"on", "off"}
BY ServiceConstants DEF ServiceConstants, AllCommand, ServiceAction

(* StopSet and service_daemon name daemons. *)
LEMMA DaemonType ==
  ASSUME NEW s \in Service
  PROVE  /\ StopSet(s) \in SUBSET Daemon
         /\ \A d \in RtspDaemon : service_daemon(s, d) \in Daemon /\ service_daemon(s, d) \in StopSet(s)
BY ServiceConstants DEF ServiceConstants, AllService, StopSet, service_daemon, Daemon, RtspDaemon

LEMMA NoneIsNoService == "none" \notin Service
BY ServiceConstants DEF ServiceConstants, AllService

LEMMA StoppingType == TypeOK => Stopping \subseteq Service
BY DEF TypeOK, JobType, Stopping, Members

-----------------------------------------------------------------------------
(* Every step keeps the types. *)
LEMMA TypeStep == TypeOK /\ [Next]_vars => TypeOK'
<1> SUFFICES ASSUME TypeOK, [Next]_vars PROVE TypeOK'
  OBVIOUS
<1> USE ServiceConstants DEF ServiceConstants, TypeOK, JobType, CallType, Idle, NoCall, Job, PCs,
        Holding
<1>1. ASSUME NEW c \in Client, NEW cmd \in Command, Call(c, cmd[1], cmd[2]) PROVE TypeOK'
  BY <1>1, CommandWords DEF Call
<1>2. ASSUME NEW c \in Client, Acquire(c) PROVE TypeOK'
  <2> DEFINE cmd == <<call[c].name, call[c].action>>
  <2>1. cmd \in Command /\ Work(call[c].name) \in Seq(Service)
    <3>1. cmd \in Command
      BY <1>2 DEF Acquire
    <3>2. Work(cmd[1]) \in Seq(Service)
      BY <3>1, WorkType
    <3>3. QED
      BY <3>1, <3>2
  <2>2. call[c].action \in ServiceAction \cup {"on", "off"}
    BY <2>1, CommandWords
  <2>3. QED
    BY <1>2, <2>1, <2>2 DEF Acquire, ServiceAction
<1>3. ASSUME NEW c \in Client, GiveUp(c) \/ Killed(c) PROVE TypeOK'
  <2>1. CASE GiveUp(c)
    BY <2>1 DEF GiveUp
  <2>2. CASE Killed(c)
    <3>1. torn' \subseteq Service
      BY <2>2, StoppingType DEF Killed
    <3>2. CASE job.holder = c
      <4>1. job' = Idle /\ call' = [call EXCEPT ![c] = NoCall]
        BY <2>2, <3>2 DEF Killed
      <4>2. UNCHANGED <<yes, rtspd, files, proc>>
        BY <2>2 DEF Killed
      <4>3. QED
        BY <3>1, <4>1, <4>2
    <3>3. CASE job.holder # c
      BY <2>2, <3>1, <3>3 DEF Killed
    <3>4. QED
      BY <3>2, <3>3
  <2>3. QED
    BY <1>3, <2>1, <2>2
<1>4. CASE PrivacyOn \/ PrivacyOff
  BY <1>4 DEF PrivacyOn, PrivacyOff, SetFiles, Step
<1>5. ASSUME NEW a \in ServiceAction \cup {"on", "off"}, Beginning(a)
      PROVE  First \in Service /\ Tail(job.todo) \in Seq(Service)
  BY <1>5, TakeFirst DEF Beginning, First
<1> USE DEF Step, Goto, Halt, NextService, FirstGoto, FirstHalt, FirstSkip, Resume
<1>6. CASE BeginStop \/ BeginStart \/ BeginRestart
  <2>1. First \in Service /\ Tail(job.todo) \in Seq(Service) /\ StopSet(First) \in SUBSET Daemon
    BY <1>5, <1>6, DaemonType DEF BeginStop, BeginStart, BeginRestart, ServiceAction
  <2>2. CASE BeginStop
    BY <2>1, <2>2, NoneIsNoService DEF BeginStop, Beginning, SetFiles
  <2>3. CASE BeginStart
    BY <2>1, <2>3, NoneIsNoService DEF BeginStart, Beginning, SetFiles
  <2>4. CASE BeginRestart
    BY <2>1, <2>4, NoneIsNoService DEF BeginRestart, Beginning, SetFiles
  <2>5. QED
    BY <1>6, <2>2, <2>3, <2>4
<1>7. CASE BeginRecover \/ BeginEnsure \/ BeginPrivate
  <2>1. First \in Service /\ Tail(job.todo) \in Seq(Service) /\ StopSet(First) \in SUBSET Daemon
    BY <1>5, <1>7, DaemonType DEF BeginRecover, BeginEnsure, BeginPrivate, ServiceAction
  <2>2. CASE BeginRecover
    BY <2>1, <2>2, NoneIsNoService, SMTT(30) DEF BeginRecover, Beginning
  <2>3. CASE BeginEnsure
    BY <2>1, <2>3, NoneIsNoService DEF BeginEnsure, Beginning
  <2>4. CASE BeginPrivate
    BY <2>1, <2>4, NoneIsNoService DEF BeginPrivate, Beginning
  <2>5. QED
    BY <1>7, <2>2, <2>3, <2>4
<1>8. CASE Release
  BY <1>8 DEF Release
<1>9. CASE StopOne \/ KillIpc
  <2>1. ASSUME NEW d \in Daemon, stop_process(d) PROVE proc' \in [Daemon -> ProcState]
    BY <2>1 DEF stop_process, ProcState
  <2>2. CASE StopOne
    BY <2>1, <2>2, NoneIsNoService DEF StopOne
  <2>3. CASE KillIpc
    BY <2>1, <2>3, NoneIsNoService DEF KillIpc, Daemon
  <2>4. QED
    BY <1>9, <2>2, <2>3
<1>10. CASE StopDone \/ release_ipc
  <2>1. torn' \subseteq Service
    BY <1>10 DEF StopDone, release_ipc
  <2>2. CASE StopDone
    BY <2>1, <2>2, NoneIsNoService DEF StopDone
  <2>3. CASE release_ipc
    BY <2>1, <2>3, NoneIsNoService DEF release_ipc
  <2>4. QED
    BY <1>10, <2>2, <2>3
<1>11. CASE StartWanted \/ CountRtsp \/ CountDaemon
  <2>1. job.svc \in Service /\ StopSet(job.svc) \in SUBSET Daemon
    BY <1>11, DaemonType DEF StartWanted, CountRtsp, CountDaemon
  <2>2. CASE StartWanted
    BY <2>1, <2>2, NoneIsNoService DEF StartWanted
  <2>3. CASE CountRtsp
    BY <2>1, <2>3, NoneIsNoService DEF CountRtsp
  <2>4. CASE CountDaemon
    BY <2>1, <2>4, NoneIsNoService DEF CountDaemon
  <2>5. QED
    BY <1>11, <2>2, <2>3, <2>4
<1>12. ASSUME NEW d \in Daemon PROVE Launched(d) \in ProcState
  BY DEF Launched, ProcState, Live
<1>13. CASE ensure_ipc
  BY <1>12, <1>13 DEF ensure_ipc, Daemon, AllService
<1>14. CASE Spawn
  <2>1. service_daemon(job.svc, Cached) \in Daemon
    BY <1>14, DaemonType DEF Spawn, Cached
  <2>2. QED
    BY <1>12, <1>14, <2>1, NoneIsNoService DEF Spawn
<1>15. CASE StartFails \/ AwaitHealthy \/ AwaitTimeout
  BY <1>15 DEF StartFails, AwaitHealthy, AwaitTimeout
<1>16. ASSUME NEW k \in Key, Toggle(k) PROVE TypeOK'
  BY <1>16 DEF Toggle
<1>17. ASSUME NEW d \in RtspDaemon, SetAlt(d) PROVE TypeOK'
  BY <1>17 DEF SetAlt
<1>18. ASSUME NEW d \in Daemon, Ready(d) \/ Reap(d) \/ Die(d) PROVE TypeOK'
  BY <1>18 DEF Ready, Reap, Die, ProcState
<1>19. CASE GrabberDies
  BY <1>19 DEF GrabberDies, ProcState
<1>20. CASE UNCHANGED vars
  BY <1>20 DEF vars
<1>21. QED
  BY <1>1, <1>2, <1>3, <1>4, <1>6, <1>7, <1>8, <1>9, <1>10, <1>11, <1>13, <1>14, <1>15,
     <1>16, <1>17, <1>18, <1>19, <1>20 DEF Next, Working

(* What the variables hold has its type. *)
THEOREM Typing == Spec => []TypeOK
<1>1. Init => TypeOK
  BY DEF Init, TypeOK, JobType, CallType, Idle, Job, NoCall, ProcState
<1>2. QED
  BY <1>1, TypeStep, PTL DEF Spec

-----------------------------------------------------------------------------
(* Steps outside the job that launch nothing keep its shape. *)
LEMMA QuietStep ==
  ASSUME Shape, UNCHANGED <<files, job>>, \A d \in Daemon : Live(d)' => Live(d), TypeOK
  PROVE  Shape'
<1>1. ASSUME job.svc \in Service PROVE StopSet(job.svc) \in SUBSET Daemon
  BY <1>1, DaemonType
<1>2. job.pc \in {"halt", "release", "killipc"} \cup FreshPC => job.svc \in Service
  BY DEF TypeOK, JobType, FreshPC
<1>3. StopProgress'
  BY <1>1, <1>2 DEF Shape, StopProgress, StopSet, service_daemon, Up, FreshPC, RtspDaemon
<1>4. StopOnly'
  BY DEF Shape, StopOnly, Members, StopPC
<1>5. Permitted'
  BY DEF Shape, Permitted, Held, HeldBy, FreshPC, StopPC
<1>6. QED
  BY <1>3, <1>4, <1>5 DEF Shape

(* An idle job, one that has just taken the lock, and one between two      *)
(* services.                                                               *)
Between ==
  /\ job.pc \in {"idle", "begin", "privacy"} /\ job.then = "begin"
  /\ job.pc = "idle" => job.act = "none"
  /\ job.pc = "privacy" /\ job.act = "on" => Members(job.todo) = Private \cap Service

LEMMA BetweenServices == Between' => Shape'
BY DEF Between, Shape, StopProgress, StopOnly, Permitted, StopPC, FreshPC

(* A stop that begins. *)
Stops ==
  /\ job.pc = "halt" /\ job.kill = StopSet(job.svc)
  /\ job.act \in {"stop", "on"} => job.then = "begin"
  /\ job.then \in FreshPC => ~Held(job.svc)

LEMMA StopBegins == Stops' => Shape'
BY DEF Stops, Shape, StopProgress, StopOnly, Permitted, StopPC, FreshPC

(* A start that goes on with nothing stopped yet. *)
Starts ==
  /\ job.pc \in {"start", "count", "keepipc", "await"}
  /\ job.act \notin {"stop", "on"}
  /\ job.pc # "start" => ~Held(job.svc)

LEMMA StartGoesOn == Starts' => Shape'
BY DEF Starts, Shape, StopProgress, StopOnly, Permitted, StopPC, FreshPC

(* Every step of the lock holder, and every other one, keeps the shape. *)
LEMMA ShapeStep == IInv /\ [Next]_vars => Shape'
<1> SUFFICES ASSUME TypeOK, Shape, [Next]_vars PROVE Shape'
  BY DEF IInv
<1> USE DEF Job, Step, Goto, Halt, NextService, FirstGoto, FirstHalt, FirstSkip, Resume, Holding,
        Beginning
<1>1. ASSUME UNCHANGED <<files, job, proc>> PROVE Shape'
  BY <1>1, QuietStep DEF Live
<1>2. ASSUME NEW c \in Client, NEW cmd \in Command, Call(c, cmd[1], cmd[2]) PROVE Shape'
  BY <1>1, <1>2 DEF Call
<1>3. ASSUME NEW c \in Client, Acquire(c) PROVE Shape'
  <2>1. ASSUME call[c].name = "privacy" PROVE Members(Work(call[c].name)) = Private \cap Service
    BY <2>1, PrivateMembers DEF Work
  <2>2. Between'
    BY <1>3, <2>1 DEF Acquire, Between
  <2>3. QED
    BY <2>2, BetweenServices
<1>4. ASSUME NEW c \in Client, GiveUp(c) PROVE Shape'
  BY <1>1, <1>4 DEF GiveUp
<1>5. ASSUME NEW c \in Client, Killed(c) PROVE Shape'
  <2>1. CASE UNCHANGED job
    BY <1>1, <1>5, <2>1 DEF Killed
  <2>2. CASE job' = Idle
    BY <2>2, BetweenServices DEF Between, Idle
  <2>3. QED
    BY <1>5, <2>1, <2>2 DEF Killed
<1>6. CASE PrivacyOn \/ PrivacyOff \/ Release
  <2>1. Between'
    BY <1>6 DEF PrivacyOn, PrivacyOff, Release, Between, Idle
  <2>2. QED
    BY <2>1, BetweenServices
<1>7. CASE BeginStop \/ BeginRestart \/ BeginPrivate
  <2>1. Stops'
    BY <1>7 DEF BeginStop, BeginRestart, BeginPrivate, Stops, FreshPC
  <2>2. QED
    BY <2>1, StopBegins
<1>8. CASE BeginStart \/ BeginEnsure
  <2>1. Starts'
    BY <1>8 DEF BeginStart, BeginEnsure, Starts
  <2>2. QED
    BY <2>1, StartGoesOn
<1>9. CASE BeginRecover
  <2>1. Stops' \/ Between'
    BY <1>9 DEF BeginRecover, Stops, Between, FreshPC
  <2>2. QED
    BY <2>1, StopBegins, BetweenServices
<1>10. CASE StartWanted \/ CountRtsp \/ CountDaemon
  <2>1. job.act \notin {"stop", "on"} /\ (job.pc = "count" => ~Held(job.svc))
    BY <1>10 DEF StartWanted, CountRtsp, CountDaemon, Shape, StopOnly, StopPC, Permitted
  <2>2. (job'.svc = job.svc => (Held(job.svc)' <=> Held(job.svc))) /\ UNCHANGED files
    BY <1>10 DEF StartWanted, CountRtsp, CountDaemon, Held, HeldBy
  <2>3. Stops' \/ Starts' \/ Between'
    BY <1>10, <2>1, <2>2 DEF StartWanted, CountRtsp, CountDaemon, service_wanted, Held, HeldBy,
       Stops, Starts, Between, FreshPC
  <2>4. QED
    BY <2>3, StopBegins, StartGoesOn, BetweenServices
<1>11. CASE StopOne
  <2>1. PICK d \in job.kill : stop_process(d) /\
                 job' = Job(job.holder, job.act, job.todo, job.svc, "halt", job.kill \ {d}, job.then)
    BY <1>11 DEF StopOne
  <2>2. d \in Daemon /\ job.svc \in Service
    BY <1>11, <2>1 DEF StopOne, TypeOK, JobType
  <2>3. StopSet(job.svc) \in SUBSET Daemon
    BY <2>2, DaemonType
  <2>4. ~Live(d)' /\ \A e \in Daemon : Live(e)' => Live(e)
    BY <2>1, <2>2 DEF stop_process, Live, TypeOK
  <2>5. UNCHANGED files
    BY <1>11 DEF StopOne
  <2>6. StopProgress'
    BY <1>11, <2>1, <2>3, <2>4 DEF StopOne, Shape, StopProgress, FreshPC
  <2>7. StopOnly' /\ Permitted'
    BY <1>11, <2>1, <2>5 DEF StopOne, Shape, StopOnly, Permitted, StopPC, FreshPC, Held, HeldBy,
       TypeOK, JobType
  <2>8. QED
    BY <2>6, <2>7 DEF Shape
<1>12. CASE StopDone \/ release_ipc \/ KillIpc
  <2>1. ~Up(job.svc) /\ job.svc \in Service /\ job.kill \in SUBSET Daemon
    BY <1>12 DEF StopDone, release_ipc, KillIpc, Shape, StopProgress, Up, FreshPC, TypeOK, JobType
  <2>2. UNCHANGED files /\ \A e \in Daemon : Live(e)' => Live(e)
    <3>1. "ipc2file" \in Daemon
      BY DEF Daemon
    <3>2. QED
      BY <1>12, <3>1 DEF StopDone, release_ipc, KillIpc, stop_process, Live, TypeOK
  <2>3. StopSet(job.svc) \in SUBSET Daemon
    BY <2>1, DaemonType
  <2>4. ASSUME job'.svc = job.svc PROVE ~Up(job.svc)' /\ (Held(job.svc)' <=> Held(job.svc))
    BY <2>1, <2>2, <2>3, <2>4 DEF Up, Held, HeldBy
  <2>5. CASE job'.pc = "begin"
    BY <1>12, <2>5, BetweenServices DEF StopDone, release_ipc, KillIpc, Between
  <2>6. CASE job'.pc = "start"
    BY <1>12, <2>6, StartGoesOn DEF StopDone, release_ipc, KillIpc, Starts, Shape, StopOnly
  <2>7. CASE job'.pc \in {"release", "killipc"} \cup FreshPC
    BY <1>12, <2>1, <2>2, <2>4, <2>7 DEF StopDone, release_ipc, KillIpc, Shape, StopProgress, StopOnly,
       Permitted, StopPC, FreshPC
  <2>8. QED
    BY <1>12, <2>5, <2>6, <2>7 DEF StopDone, release_ipc, KillIpc, TypeOK, JobType, FreshPC
<1>13. CASE ensure_ipc
  <2>1. job.svc \in Service /\ ~Held(job.svc) /\ job.act \notin {"stop", "on"}
    BY <1>13 DEF ensure_ipc, Shape, Permitted, StopOnly, StopPC, FreshPC, TypeOK, JobType
  <2>2. CASE job.pc = "keepipc"
    BY <1>13, <2>2, BetweenServices DEF ensure_ipc, Between
  <2>3. CASE job.pc = "ipc"
    <3>1. "ipc2file" \notin StopSet(job.svc)
      BY <2>1, ServiceConstants DEF ServiceConstants, AllService, StopSet, service_daemon, RtspDaemon
    <3>2. ~Up(job.svc) /\ job'.svc = job.svc /\ job'.pc = "spawn" /\ job'.act = job.act
      BY <1>13, <2>3 DEF ensure_ipc, Shape, StopProgress, FreshPC
    <3>3. \A d \in StopSet(job.svc) : proc'[d] = proc[d]
      BY <1>13, <3>1 DEF ensure_ipc, TypeOK
    <3>4. ~Up(job.svc)' /\ ~Held(job.svc)'
      BY <1>13, <2>1, <3>2, <3>3 DEF ensure_ipc, Up, Live, StopSet, service_daemon, Held, HeldBy
    <3>5. QED
      BY <2>1, <3>2, <3>4 DEF Shape, StopProgress, StopOnly, Permitted, StopPC, FreshPC
  <2>4. QED
    BY <1>13, <2>2, <2>3 DEF ensure_ipc
<1>14. CASE Spawn \/ StartFails \/ AwaitHealthy \/ AwaitTimeout
  <2>1. job.act \notin {"stop", "on"} /\ ~Held(job.svc)
    BY <1>14 DEF Spawn, StartFails, AwaitHealthy, AwaitTimeout, Shape, StopOnly, Permitted, StopPC, FreshPC
  <2>2. UNCHANGED files
    BY <1>14 DEF Spawn, StartFails, AwaitHealthy, AwaitTimeout
  <2>3. Between' \/ Starts'
    BY <1>14, <2>1, <2>2 DEF Spawn, StartFails, AwaitHealthy, AwaitTimeout, Between, Starts, Held, HeldBy
  <2>4. QED
    BY <2>3, BetweenServices, StartGoesOn
<1>15. ASSUME NEW d \in Daemon, Ready(d) \/ Reap(d) \/ Die(d) \/ GrabberDies PROVE Shape'
  <2>1. \A e \in Daemon : Live(e)' => Live(e)
    BY <1>15 DEF Ready, Reap, Die, GrabberDies, Live, TypeOK, ProcState, Daemon, RtspDaemon
  <2>2. QED
    BY <1>15, <2>1, QuietStep DEF Ready, Reap, Die, GrabberDies
<1>16. ASSUME NEW k \in Key, Toggle(k) PROVE Shape'
  BY <1>1, <1>16 DEF Toggle
<1>17. ASSUME NEW d \in RtspDaemon, SetAlt(d) PROVE Shape'
  BY <1>1, <1>17 DEF SetAlt
<1>18. CASE UNCHANGED vars
  BY <1>1, <1>18 DEF vars
<1>19. RtspDaemon \subseteq Daemon /\ "ipc2file" \in Daemon
  BY DEF Daemon
<1>20. QED
  BY <1>2, <1>3, <1>4, <1>5, <1>6, <1>7, <1>8, <1>9, <1>10, <1>11, <1>12, <1>13, <1>14, <1>15,
     <1>16, <1>17, <1>18, <1>19 DEF Next, Working

LEMMA Invariance == Spec => []IInv
<1>1. Init => TypeOK /\ Between
  BY DEF Init, TypeOK, JobType, CallType, Idle, Job, NoCall, ProcState, Between
<1>2. Between => Shape
  BY DEF Between, Shape, StopProgress, StopOnly, Permitted, StopPC, FreshPC
<1>3. QED
  BY <1>1, <1>2, TypeStep, ShapeStep, PTL DEF Spec, IInv

-----------------------------------------------------------------------------
(* A launch happens where nothing of the service is left. *)
LEMMA LaunchStep ==
  ASSUME IInv, Next
  PROVE  \/ \A d \in Daemon : Live(d)' => Live(d) /\ (proc'[d] = "double" => proc[d] = "double")
         \/ ensure_ipc
         \/ Spawn /\ ~Up(job.svc) /\ ~Held(job.svc) /\ job.svc \in Service
<1> USE DEF IInv, TypeOK, Live
<1>1. ASSUME UNCHANGED proc
      PROVE  \A d \in Daemon : Live(d)' => Live(d) /\ (proc'[d] = "double" => proc[d] = "double")
  BY <1>1
<1>2. ASSUME NEW d \in Daemon, stop_process(d)
      PROVE  \A e \in Daemon : Live(e)' => Live(e) /\ (proc'[e] = "double" => proc[e] = "double")
  BY <1>2 DEF stop_process
<1>3. ASSUME NEW d \in Daemon, Ready(d) \/ Reap(d) \/ Die(d) \/ GrabberDies
      PROVE  \A e \in Daemon : Live(e)' => Live(e) /\ (proc'[e] = "double" => proc[e] = "double")
  BY <1>3 DEF Ready, Reap, Die, GrabberDies
<1>4. CASE Spawn
  BY <1>4 DEF Spawn, Holding, Shape, StopProgress, Permitted, FreshPC, JobType
<1>5. CASE StopOne \/ KillIpc
  <2>1. job.kill \in SUBSET Daemon /\ "ipc2file" \in Daemon
    BY DEF JobType, Daemon
  <2>2. QED
    BY <1>2, <1>5, <2>1 DEF StopOne, KillIpc
<1>6. RtspDaemon \subseteq Daemon
  BY DEF Daemon
<1>7. QED
  BY <1>1, <1>3, <1>4, <1>5, <1>6 DEF Next, Working, Call, Acquire, GiveUp, Killed, PrivacyOn,
     PrivacyOff, BeginStop, BeginStart, BeginRestart, BeginRecover, BeginEnsure, BeginPrivate,
     Release, StopDone, release_ipc, StartWanted, CountRtsp, CountDaemon, AwaitHealthy, StartFails,
     AwaitTimeout, Toggle, SetAlt

(* No daemon ever serves twice. *)
THEOREM NothingRunsTwice == Spec => []SingleInstance
<1>1. Init => SingleInstance
  BY DEF Init, SingleInstance
<1>2. ASSUME IInv, SingleInstance, Next PROVE SingleInstance'
  <2>1. CASE ensure_ipc
    BY <1>2, <2>1 DEF ensure_ipc, Launched, SingleInstance, IInv, TypeOK, Live
  <2>2. CASE Spawn /\ ~Up(job.svc) /\ job.svc \in Service
    <3> DEFINE d == service_daemon(job.svc, Cached)
    <3>1. d \in StopSet(job.svc) /\ d \in Daemon
      BY <1>2, <2>2, DaemonType DEF Spawn, Holding, Cached, IInv, TypeOK, JobType
    <3>2. Launched(d) # "double"
      BY <1>2, <2>2, <3>1 DEF Launched, Up, Live, IInv, TypeOK
    <3>3. QED
      BY <1>2, <2>2, <3>1, <3>2 DEF Spawn, SingleInstance, IInv, TypeOK
  <2>3. QED
    BY <1>2, <2>1, <2>2, LaunchStep DEF SingleInstance, Live
<1>3. IInv /\ SingleInstance /\ UNCHANGED vars => SingleInstance'
  BY DEF SingleInstance, vars
<1>4. QED
  BY <1>1, <1>2, <1>3, Invariance, PTL DEF Spec

(* One RTSP server at a time. *)
THEOREM OneStreamerRuns == Spec => []OneStreamer
<1>1. Init => OneStreamer
  BY DEF Init, OneStreamer, Live, RtspDaemon, Daemon
<1>2. ASSUME IInv, OneStreamer, Next PROVE OneStreamer'
  <2>1. RtspDaemon \subseteq Daemon /\ "ipc2file" \notin RtspDaemon
    BY DEF Daemon, RtspDaemon
  <2>2. CASE ensure_ipc
    <3>1. \A d \in RtspDaemon : proc'[d] = proc[d]
      BY <1>2, <2>1, <2>2 DEF ensure_ipc, IInv, TypeOK
    <3>2. QED
      BY <1>2, <3>1 DEF OneStreamer, Live
  <2>3. CASE Spawn /\ ~Up(job.svc) /\ job.svc = "rtsp"
    <3>1. Cached \in RtspDaemon /\ \A d \in RtspDaemon : ~Live(d)
      BY <1>2, <2>3 DEF Spawn, Holding, Cached, Up, StopSet, IInv, TypeOK, JobType
    <3>2. proc' = [proc EXCEPT ![Cached] = Launched(Cached)]
      BY <2>3 DEF Spawn, service_daemon
    <3>3. QED
      BY <1>2, <2>1, <3>1, <3>2 DEF OneStreamer, Live, IInv, TypeOK
  <2>4. CASE Spawn /\ job.svc # "rtsp" /\ job.svc \in Service
    <3>1. service_daemon(job.svc, Cached) \notin RtspDaemon
      BY <2>4, ServiceConstants DEF ServiceConstants, AllService, service_daemon, RtspDaemon
    <3>2. \A d \in RtspDaemon : proc'[d] = proc[d]
      BY <1>2, <2>1, <2>4, <3>1 DEF Spawn, IInv, TypeOK
    <3>3. QED
      BY <1>2, <3>2 DEF OneStreamer, Live
  <2>5. QED
    BY <1>2, <2>1, <2>2, <2>3, <2>4, LaunchStep DEF OneStreamer
<1>3. IInv /\ OneStreamer /\ UNCHANGED vars => OneStreamer'
  BY DEF OneStreamer, Live, vars
<1>4. QED
  BY <1>1, <1>2, <1>3, Invariance, PTL DEF Spec

-----------------------------------------------------------------------------
(* No two services share a daemon, and none of them has ipc2file. *)
LEMMA OwnDaemons ==
  /\ \A s, t \in Service : s # t => StopSet(s) \cap StopSet(t) = {}
  /\ \A s \in Service : "ipc2file" \notin StopSet(s)
BY ServiceConstants DEF ServiceConstants, AllService, StopSet, service_daemon, RtspDaemon

-----------------------------------------------------------------------------
(* Between the look at the process table in release_ipc and the killall of *)
(* ipc2file no notification daemon appears: launches need the job, and it  *)
(* is busy.                                                                *)
KillFollowsCheck == job.pc = "killipc" => ~Live("onvif_notify_server")

LEMMA KillFollowsCheckStep == IInv /\ KillFollowsCheck /\ [Next]_vars => KillFollowsCheck'
<1> SUFFICES ASSUME IInv, KillFollowsCheck, [Next]_vars, job'.pc = "killipc"
             PROVE  ~Live("onvif_notify_server")'
  BY DEF KillFollowsCheck
<1> USE DEF Job, Step, Goto, Halt, NextService, FirstGoto, FirstHalt, FirstSkip, Resume
<1>0. "onvif_notify_server" \in Daemon
  BY DEF Daemon
<1>1. CASE release_ipc
  BY <1>1, <1>0 DEF release_ipc, CountZero, Live, IInv, Shape, StopOnly, TypeOK, JobType
<1>2. CASE UNCHANGED job
  <2>1. ~Live("onvif_notify_server")
    BY <1>2 DEF KillFollowsCheck
  <2>2. ~ensure_ipc /\ ~Spawn
    BY <1>2 DEF ensure_ipc, Spawn, Holding
  <2>3. CASE Next
    BY <1>0, <2>1, <2>2, <2>3, LaunchStep
  <2>4. CASE UNCHANGED vars
    BY <2>1, <2>4 DEF vars, Live
  <2>5. QED
    BY <2>3, <2>4
<1>3. CASE Working /\ ~release_ipc
  BY <1>3 DEF Working, PrivacyOn, PrivacyOff, BeginStop, BeginStart, BeginRestart, BeginRecover,
     BeginEnsure, BeginPrivate, Release, StopOne, StopDone, KillIpc, StartWanted, CountRtsp,
     CountDaemon, ensure_ipc, Spawn, AwaitHealthy, Idle, IInv, TypeOK, JobType
<1>4. CASE StartFails \/ AwaitTimeout
  BY <1>4 DEF StartFails, AwaitTimeout
<1>5. ASSUME NEW c \in Client, Acquire(c) PROVE FALSE
  BY <1>5 DEF Acquire
<1>6. ASSUME NEW c \in Client, Killed(c) PROVE UNCHANGED job
  BY <1>6 DEF Killed, Idle
<1>7. QED
  BY <1>1, <1>2, <1>3, <1>4, <1>5, <1>6 DEF Next, vars, Call, GiveUp, Toggle, SetAlt, Ready, Reap,
     Die, GrabberDies

(* What ends ipc2file: its own death, or the killall that follows the      *)
(* check.                                                                  *)
LEMMA ConsumerEnds ==
  IInv /\ KillFollowsCheck /\ [Next]_vars
    => (Live("onvif_notify_server") /\ Live("ipc2file") /\ ~Live("ipc2file")' => Die("ipc2file"))
<1> SUFFICES ASSUME IInv, KillFollowsCheck, [Next]_vars, Live("onvif_notify_server"),
                    Live("ipc2file"), ~Live("ipc2file")'
             PROVE  Die("ipc2file")
  OBVIOUS
<1> USE DEF Live
<1>1. "ipc2file" \in Daemon /\ proc \in [Daemon -> ProcState]
  BY DEF Daemon, IInv, TypeOK
<1>2. proc' # proc
  OBVIOUS
<1>3. CASE KillIpc
  BY <1>3 DEF KillIpc, Holding, KillFollowsCheck
<1>4. CASE StopOne
  <2>1. PICK d \in job.kill : stop_process(d)
    BY <1>4 DEF StopOne
  <2>2. job.svc \in Service /\ job.kill \subseteq StopSet(job.svc)
    BY <1>4 DEF StopOne, Holding, IInv, TypeOK, JobType, Shape, StopProgress
  <2>3. d # "ipc2file"
    BY <2>2, OwnDaemons
  <2>4. proc'["ipc2file"] = proc["ipc2file"]
    BY <1>1, <2>1, <2>3 DEF stop_process
  <2>5. QED
    BY <2>4
<1>5. CASE ensure_ipc
  BY <1>1, <1>5 DEF ensure_ipc, Launched, CountOne
<1>6. CASE Spawn
  <2>1. job.svc \in Service /\ Cached \in RtspDaemon
    BY <1>6 DEF Spawn, Holding, Cached, IInv, TypeOK, JobType
  <2>2. service_daemon(job.svc, Cached) # "ipc2file"
    BY <2>1, DaemonType, OwnDaemons
  <2>3. QED
    BY <1>1, <1>6, <2>2 DEF Spawn
<1>7. ASSUME NEW d \in Daemon, Ready(d) \/ Reap(d) PROVE FALSE
  BY <1>1, <1>7 DEF Ready, Reap, RtspDaemon
<1>8. ASSUME NEW d \in Daemon, Die(d) PROVE Die("ipc2file")
  <2>1. d = "ipc2file"
    BY <1>1, <1>8 DEF Die
  <2>2. QED
    BY <1>8, <2>1
<1>9. CASE GrabberDies
  BY <1>1, <1>9 DEF GrabberDies
<1>10. QED
  BY <1>2, <1>3, <1>4, <1>5, <1>6, <1>7, <1>8, <1>9 DEF Next, vars, Working, Call, Acquire, GiveUp,
     Killed, PrivacyOn, PrivacyOff, BeginStop, BeginStart, BeginRestart, BeginRecover, BeginEnsure,
     BeginPrivate, Release, StopDone, release_ipc, StartWanted, CountRtsp, CountDaemon,
     AwaitHealthy, StartFails, AwaitTimeout, Toggle, SetAlt

(* However many shells stop, restart and recover the two services that     *)
(* share ipc2file, and whoever of them is killed: while a notification     *)
(* daemon lives, its event consumer ends only by its own death.            *)
THEOREM ConsumerKept == Spec => OnvifKeepsConsumer
<1>1. Init => KillFollowsCheck
  BY DEF Init, KillFollowsCheck, Idle, Job
<1>2. IInv /\ KillFollowsCheck /\ [Next]_vars => KillFollowsCheck'
  BY KillFollowsCheckStep
<1>3. IInv /\ KillFollowsCheck /\ [Next]_vars
        => [Live("onvif_notify_server") /\ Live("ipc2file") /\ ~Live("ipc2file")'
              => Die("ipc2file")]_vars
  BY ConsumerEnds
<1>4. QED
  BY <1>1, <1>2, <1>3, Invariance, PTL DEF Spec, OnvifKeepsConsumer

-----------------------------------------------------------------------------
(* service.sh implements ServicePolicy: every step of a shell, of the      *)
(* environment and of a kill is one step of the policy, or none.           *)
(* First, how the running services follow the processes.                   *)
LEMMA SameRunning ==
  ASSUME \A d \in Daemon : d # "ipc2file" => (Live(d)' <=> Live(d))
  PROVE  running' = running
<1>1. ASSUME NEW s \in Service PROVE Up(s)' <=> Up(s)
  <2>1. StopSet(s) \in SUBSET Daemon /\ "ipc2file" \notin StopSet(s)
    BY DaemonType, OwnDaemons
  <2>2. QED
    BY <2>1 DEF Up
<1>2. QED
  BY <1>1 DEF running

LEMMA OneDown ==
  ASSUME NEW d \in Daemon, ~Live(d)', \A e \in Daemon \ {d} : Live(e)' <=> Live(e),
         NEW s \in Service, d \in StopSet(s)
  PROVE  running' \in {running, running \ {s}}
<1>1. ASSUME NEW t \in Service, t # s PROVE Up(t)' <=> Up(t)
  <2>1. StopSet(t) \in SUBSET Daemon /\ d \notin StopSet(t)
    BY <1>1, DaemonType, OwnDaemons
  <2>2. QED
    BY <2>1 DEF Up
<1>2. Up(s)' => Up(s)
  <2>1. StopSet(s) \in SUBSET Daemon
    BY DaemonType
  <2>2. QED
    BY <2>1 DEF Up
<1>3. QED
  BY <1>1, <1>2 DEF running

LEMMA OneUp ==
  ASSUME NEW s \in Service, NEW d \in StopSet(s), Live(d)',
         \A e \in Daemon \ {d} : Live(e)' <=> Live(e)
  PROVE  running' = running \cup {s}
<1>1. ASSUME NEW t \in Service, t # s PROVE Up(t)' <=> Up(t)
  <2>1. StopSet(t) \in SUBSET Daemon /\ d \notin StopSet(t)
    BY <1>1, DaemonType, OwnDaemons
  <2>2. QED
    BY <2>1 DEF Up
<1>2. Up(s)'
  BY DEF Up
<1>3. QED
  BY <1>1, <1>2 DEF running

-----------------------------------------------------------------------------
(* The kinds of steps of the policy. *)
LEMMA Stutters ==
  ASSUME running' = running, forbidden' = forbidden, unsettled' = unsettled
  PROVE  [Policy!Next]_(Policy!vars)
BY DEF Policy!vars

LEMMA Holds ==
  ASSUME NEW S \in SUBSET Service, running' = running,
         forbidden' = forbidden \cup S, unsettled' = unsettled \cup S
  PROVE  [Policy!Next]_(Policy!vars)
BY DEF Policy!Next, Policy!Hold

LEMMA Allows ==
  ASSUME TypeOK, running' = running, forbidden' \subseteq forbidden,
         unsettled' = unsettled \cap forbidden'
  PROVE  [Policy!Next]_(Policy!vars)
<1> DEFINE S == forbidden \ forbidden'
<1>1. S \in SUBSET Service
  BY DEF forbidden
<1>2. unsettled \subseteq forbidden
  BY StoppingType DEF TypeOK, unsettled, forbidden
<1>3. forbidden' = forbidden \ S /\ unsettled' = unsettled \ S
  BY <1>2
<1>4. QED
  BY <1>1, <1>3 DEF Policy!Next, Policy!Allow

LEMMA Settles ==
  ASSUME NEW s \in Service, ~Up(s), running' = running, forbidden' = forbidden,
         unsettled' \in {unsettled, unsettled \ {s}}
  PROVE  [Policy!Next]_(Policy!vars)
<1>1. s \notin running
  BY DEF running
<1>2. QED
  BY <1>1 DEF Policy!Next, Policy!Settle, Policy!vars

LEMMA Launches ==
  ASSUME NEW s \in Service, ~Held(s), running' = running \cup {s},
         forbidden' = forbidden, unsettled' = unsettled
  PROVE  [Policy!Next]_(Policy!vars)
<1>1. s \notin forbidden
  BY DEF forbidden
<1>2. QED
  BY <1>1 DEF Policy!Next, Policy!Launch

LEMMA Dies ==
  ASSUME NEW s \in Service, running' \in {running, running \ {s}},
         forbidden' = forbidden, unsettled' = unsettled
  PROVE  [Policy!Next]_(Policy!vars)
BY DEF Policy!Next, Policy!Die, Policy!vars

-----------------------------------------------------------------------------
(* What a step of the job leaves of Stopping. *)
LEMMA NotStopping ==
  ASSUME job.act \notin {"stop", "on"}
  PROVE  Stopping = {}
BY DEF Stopping

LEMMA SameHeld ==
  ASSUME UNCHANGED files
  PROVE  forbidden' = forbidden /\ \A s : Held(s)' <=> Held(s)
BY DEF forbidden, Held, HeldBy

LEMMA SameView ==
  ASSUME UNCHANGED <<files, proc, torn>>, Stopping' = Stopping
  PROVE  [Policy!Next]_(Policy!vars)
<1>1. running' = running
  BY SameRunning DEF Live
<1>2. forbidden' = forbidden /\ unsettled' = unsettled
  BY SameHeld DEF unsettled
<1>3. QED
  BY <1>1, <1>2, Stutters

(* A killed shell leaves the services it was stopping torn. *)
LEMMA KilledView ==
  ASSUME IInv, NEW c \in Client, Killed(c)
  PROVE  [Policy!Next]_(Policy!vars)
<1>1. UNCHANGED <<files, proc>>
  BY DEF Killed
<1>2. CASE job.holder = c
  <2>1. Stopping' = {} /\ torn' = torn \cup {s \in Stopping : Held(s)}
    BY <1>2 DEF Killed, Stopping, Idle, Job
  <2>2. forbidden' = forbidden /\ unsettled' = unsettled
    BY <1>1, <2>1, SameHeld DEF unsettled
  <2>3. running' = running
    BY <1>1, SameRunning DEF Live
  <2>4. QED
    BY <2>2, <2>3, Stutters
<1>3. CASE job.holder # c
  <2>1. UNCHANGED <<job, torn>>
    BY <1>3 DEF Killed
  <2>2. Stopping' = Stopping
    BY <2>1 DEF Stopping, Members
  <2>3. QED
    BY <1>1, <2>1, <2>2, SameView
<1>4. QED
  BY <1>2, <1>3

(* `privacy on' and `stop' hold services down; an `on' that takes the lock *)
(* has privacy to enforce again.                                           *)
LEMMA AcquireView ==
  ASSUME IInv, NEW c \in Client, Acquire(c)
  PROVE  [Policy!Next]_(Policy!vars)
<1>1. UNCHANGED <<files, proc, torn>>
  BY DEF Acquire
<1>2. Stopping = {} /\ job'.holder = c /\ job'.act = call[c].action /\ job'.svc = "none"
      /\ job'.todo = Work(call[c].name) /\ c # None
  BY ServiceConstants DEF ServiceConstants, Acquire, Idle, Job, Stopping
<1>3. CASE call[c].action = "on"
  <2>1. call[c].name = "privacy"
    <3> DEFINE cmd == <<call[c].name, call[c].action>>
    <3>1. cmd \in Command
      BY DEF Acquire, IInv, TypeOK
    <3>2. QED
      BY <1>3, <3>1, ServiceConstants DEF ServiceConstants, AllCommand, ServiceAction
  <2>2. Work(call[c].name) = PRIVATE_SERVICES
    BY <2>1 DEF Work
  <2>3. Stopping' = Members(PRIVATE_SERVICES)
    BY <1>2, <1>3, <2>2, PrivateMembers, NoneIsNoService DEF Stopping, Members
  <2>4. Stopping' = Private \cap Service
    BY <2>3, PrivateMembers
  <2> DEFINE S == {s \in Private \cap Service : Held(s)}
  <2>5. forbidden' = forbidden \cup S /\ unsettled' = unsettled \cup S
    BY <1>1, <1>2, <2>4, SameHeld DEF unsettled, forbidden
  <2>6. running' = running
    BY <1>1, SameRunning DEF Live
  <2>7. QED
    BY <2>5, <2>6, Holds
<1>4. CASE call[c].action # "on"
  <2>1. Stopping' = {}
    BY <1>2, <1>4 DEF Stopping
  <2>2. QED
    BY <1>1, <1>2, <2>1, SameView
<1>5. QED
  BY <1>3, <1>4

(* The steps that write the marker files. *)
LEMMA PrivacyOnView ==
  ASSUME IInv, PrivacyOn
  PROVE  [Policy!Next]_(Policy!vars)
<1> DEFINE S == Private \cap Service
<1>1. job.act = "on" /\ job.pc = "privacy" /\ job.svc = "none" /\ Members(job.todo) = S
      /\ job.holder # None
  BY DEF PrivacyOn, Holding, IInv, Shape, StopOnly, TypeOK
<1>2. job'.act = "on" /\ job'.svc = "none" /\ job'.todo = job.todo /\ job'.holder # None
  BY <1>1 DEF PrivacyOn, Step, Job
<1>3. Stopping = S /\ Stopping' = S
  BY <1>1, <1>2, NoneIsNoService DEF Stopping, Members
<1>4. \A s : Held(s)' <=> (Held(s) \/ s = "privacy" \/ s \in Private)
  BY DEF PrivacyOn, SetFiles, Held, HeldBy
<1>5. torn' = {s \in torn : Held(s)'}
  BY DEF PrivacyOn, SetFiles, Held, HeldBy
<1>6. "privacy" \notin Service /\ torn \subseteq Service
  BY ServiceConstants DEF ServiceConstants, AllService, IInv, TypeOK
<1>7. forbidden' = forbidden \cup S /\ unsettled' = unsettled \cup S
  BY <1>3, <1>4, <1>5, <1>6 DEF forbidden, unsettled
<1>8. running' = running
  BY SameRunning DEF PrivacyOn, Live
<1>9. QED
  BY <1>7, <1>8, Holds

LEMMA BeginStopView ==
  ASSUME IInv, BeginStop
  PROVE  [Policy!Next]_(Policy!vars)
<1>1. job.act = "stop" /\ job.svc = "none" /\ job.holder # None
  BY DEF BeginStop, Beginning, Holding, IInv, TypeOK
<1>2. First \in Service
  BY TakeFirst DEF BeginStop, Beginning, First, IInv, TypeOK, JobType
<1>3. job'.act = "stop" /\ job'.svc = First /\ job'.holder # None
  BY <1>1 DEF BeginStop, FirstHalt, Step, Job
<1>4. Stopping = {} /\ Stopping' = {First}
  BY <1>1, <1>2, <1>3, NoneIsNoService DEF Stopping
<1>5. \A s : Held(s)' <=> (Held(s) \/ s = First \/ (s \in Private /\ First = "privacy"))
  BY DEF BeginStop, SetFiles, Held, HeldBy
<1>6. torn' = {s \in torn : Held(s)'}
  BY DEF BeginStop, SetFiles, Held, HeldBy
<1>7. First # "privacy"
  BY <1>2, ServiceConstants DEF ServiceConstants, AllService
<1>8. forbidden' = forbidden \cup {First} /\ unsettled' = unsettled \cup {First}
  BY <1>2, <1>4, <1>5, <1>6, <1>7 DEF forbidden, unsettled
<1>9. running' = running
  BY SameRunning DEF BeginStop, Live
<1>10. QED
  BY <1>2, <1>8, <1>9, Holds

LEMMA AllowView ==
  ASSUME IInv, PrivacyOff \/ BeginStart \/ BeginRestart
  PROVE  [Policy!Next]_(Policy!vars)
<1>1. job.act \notin {"stop", "on"} /\ job'.act = job.act
  BY DEF PrivacyOff, BeginStart, BeginRestart, Beginning, FirstHalt, FirstGoto, Step, Job
<1>2. Stopping = {} /\ Stopping' = {}
  BY <1>1 DEF Stopping
<1>3. PICK gone : files' = files \ {gone}
  BY DEF PrivacyOff, BeginStart, BeginRestart, SetFiles
<1>4. torn' = {s \in torn : Held(s)'}
  BY DEF PrivacyOff, BeginStart, BeginRestart, SetFiles, Held, HeldBy
<1>5. \A s : Held(s)' => Held(s)
  BY <1>3 DEF Held, HeldBy
<1>6. torn \subseteq Service
  BY DEF IInv, TypeOK
<1>7. forbidden' \subseteq forbidden /\ unsettled' = unsettled \cap forbidden'
  BY <1>2, <1>4, <1>5, <1>6 DEF forbidden, unsettled
<1>8. running' = running
  BY SameRunning DEF PrivacyOff, BeginStart, BeginRestart, Live
<1>9. QED
  BY <1>7, <1>8, Allows DEF IInv

(* The steps that only decide how to go on. *)
LEMMA DecideView ==
  ASSUME IInv,
         \/ BeginRecover \/ BeginEnsure \/ StartWanted \/ CountRtsp \/ CountDaemon
         \/ StartFails \/ AwaitHealthy \/ AwaitTimeout \/ Release
  PROVE  [Policy!Next]_(Policy!vars)
<1>1. UNCHANGED <<files, proc, torn>>
  BY DEF BeginRecover, BeginEnsure, StartWanted, CountRtsp, CountDaemon, StartFails,
     AwaitHealthy, AwaitTimeout, Release
<1>2. CASE Release
  <2>1. job.todo = <<>> /\ job.svc = "none" /\ job' = Idle
    BY <1>2 DEF Release, Holding, IInv, TypeOK
  <2>2. Stopping = {} /\ Stopping' = {}
    BY <2>1 DEF Stopping, Idle, Job, Members
  <2>3. QED
    BY <1>1, <2>2, SameView
<1>3. CASE ~Release
  <2>1. job.act \notin {"stop", "on"}
    BY <1>3 DEF BeginRecover, BeginEnsure, Beginning, StartWanted, CountRtsp, CountDaemon,
       StartFails, AwaitHealthy, AwaitTimeout, Holding, IInv, Shape, StopOnly, StopPC
  <2>2. job'.act = job.act
    BY <1>3 DEF BeginRecover, BeginEnsure, StartWanted, CountRtsp, CountDaemon, StartFails,
       AwaitHealthy, AwaitTimeout, FirstHalt, FirstSkip, FirstGoto, Goto, Halt, NextService, Step, Job
  <2>3. Stopping = {} /\ Stopping' = {}
    BY <2>1, <2>2 DEF Stopping
  <2>4. QED
    BY <1>1, <2>3, SameView
<1>4. QED
  BY <1>2, <1>3

(* `privacy on' takes its next service. *)
LEMMA BeginPrivateView ==
  ASSUME IInv, BeginPrivate
  PROVE  [Policy!Next]_(Policy!vars)
<1>1. job.act = "on" /\ job.svc = "none" /\ job.holder # None /\ job.todo \in Seq(Service)
      /\ job.todo # <<>>
  BY DEF BeginPrivate, Beginning, Holding, IInv, TypeOK, JobType
<1>2. job'.act = "on" /\ job'.svc = First /\ job'.holder # None /\ job'.todo = Tail(job.todo)
  BY <1>1 DEF BeginPrivate, FirstHalt, Step, Job
<1>3. First \in Service /\ Members(job.todo) = {First} \cup Members(job'.todo)
  BY <1>1, <1>2, TakeFirst DEF First
<1>4. Stopping' = (Members(job'.todo) \cup {job'.svc}) \ {"none"}
  BY <1>2 DEF Stopping, Members
<1>5. Stopping' = Stopping
  BY <1>1, <1>2, <1>3, <1>4 DEF Stopping
<1>6. QED
  BY <1>5, SameView DEF BeginPrivate

(* A stop takes a service down, *)
LEMMA StopOneView ==
  ASSUME IInv, StopOne
  PROVE  [Policy!Next]_(Policy!vars)
<1>1. PICK d \in job.kill : stop_process(d) /\
               job' = Job(job.holder, job.act, job.todo, job.svc, "halt", job.kill \ {d}, job.then)
  BY DEF StopOne, Step
<1>2. d \in Daemon /\ job.svc \in Service /\ d \in StopSet(job.svc)
  BY <1>1 DEF StopOne, Holding, IInv, TypeOK, JobType, Shape, StopProgress
<1>3. ~Live(d)' /\ \A e \in Daemon \ {d} : Live(e)' <=> Live(e)
  BY <1>1, <1>2 DEF stop_process, Live, IInv, TypeOK
<1>4. running' \in {running, running \ {job.svc}}
  BY <1>2, <1>3, OneDown
<1>5. Stopping' = Stopping
  BY <1>1 DEF Stopping, Job, Members
<1>6. forbidden' = forbidden /\ unsettled' = unsettled
  BY <1>5, SameHeld DEF StopOne, unsettled
<1>7. QED
  BY <1>2, <1>4, <1>6, Dies

(* and is settled when it returns. *)
LEMMA SettleView ==
  ASSUME IInv, StopDone \/ release_ipc \/ KillIpc
  PROVE  [Policy!Next]_(Policy!vars)
<1> USE DEF Goto, Resume, NextService, Step, Job
<1>1. job.svc \in Service /\ ~Up(job.svc) /\ job.holder # None
  BY DEF StopDone, release_ipc, KillIpc, Holding, IInv, Shape, StopProgress, Up, TypeOK, JobType
<1>2. /\ job'.holder = job.holder /\ job'.act = job.act /\ job'.todo = job.todo
      /\ job'.svc \in {job.svc, "none"}
  BY DEF StopDone, release_ipc, KillIpc
<1>3. UNCHANGED files /\ torn' \in {torn, torn \ {job.svc}}
  BY DEF StopDone, release_ipc, KillIpc
<1>4. Members(job.todo)' = Members(job.todo)
  BY <1>2 DEF Members
<1>5. Stopping' \in {Stopping, Stopping \ {job.svc}}
  <2>1. CASE job'.svc = job.svc
    BY <1>2, <1>4, <2>1 DEF Stopping, Members
  <2>2. CASE job'.svc = "none"
    BY <1>1, <1>2, <1>4, <2>2 DEF Stopping, Members
  <2>3. QED
    BY <1>2, <2>1, <2>2
<1>6. forbidden' = forbidden /\ unsettled' \in {unsettled, unsettled \ {job.svc}}
  BY <1>3, <1>5, SameHeld DEF unsettled
<1>7. running' = running
  <2>1. \A d \in Daemon : d # "ipc2file" => proc'[d] = proc[d]
    BY DEF StopDone, release_ipc, KillIpc, stop_process, IInv, TypeOK
  <2>2. QED
    BY <2>1, SameRunning DEF Live
<1>8. QED
  BY <1>1, <1>6, <1>7, Settles

(* The event consumer is no service. *)
LEMMA EnsureIpcView ==
  ASSUME IInv, ensure_ipc
  PROVE  [Policy!Next]_(Policy!vars)
<1>1. job.act \notin {"stop", "on"} /\ job'.act = job.act
  BY DEF ensure_ipc, Holding, Goto, NextService, Step, Job, IInv, Shape, StopOnly, StopPC
<1>2. Stopping = {} /\ Stopping' = {}
  BY <1>1 DEF Stopping
<1>3. \A d \in Daemon : d # "ipc2file" => proc'[d] = proc[d]
  BY DEF ensure_ipc, IInv, TypeOK
<1>4. running' = running
  BY <1>3, SameRunning DEF Live
<1>5. forbidden' = forbidden /\ unsettled' = unsettled
  BY <1>2, SameHeld DEF ensure_ipc, unsettled
<1>6. QED
  BY <1>4, <1>5, Stutters

(* A launch is allowed. *)
LEMMA SpawnView ==
  ASSUME IInv, Spawn
  PROVE  [Policy!Next]_(Policy!vars)
<1>1. job.svc \in Service /\ ~Up(job.svc) /\ ~Held(job.svc) /\ job.act \notin {"stop", "on"}
  BY DEF Spawn, Holding, IInv, TypeOK, JobType, Shape, StopProgress, Permitted, StopOnly, StopPC,
     FreshPC
<1>2. service_daemon(job.svc, Cached) \in StopSet(job.svc) \cap Daemon
  BY <1>1, DaemonType DEF Spawn, Holding, Cached, IInv, TypeOK, JobType
<1>3. PICK s \in Service, d \in Daemon : s = job.svc /\ d = service_daemon(job.svc, Cached)
  BY <1>1, <1>2
<1>4. d \in StopSet(s) /\ proc' = [proc EXCEPT ![d] = Launched(d)]
  BY <1>2, <1>3 DEF Spawn
<1>5. Launched(d) \notin {"none", "dying"}
  <2>1. proc[d] \in {"none", "dying"}
    BY <1>1, <1>3, <1>4 DEF Up, Live
  <2>2. d # "ipc2file"
    BY <1>4, OwnDaemons
  <2>3. QED
    BY <2>1, <2>2 DEF Launched, Live
<1>6. Live(d)' /\ \A e \in Daemon \ {d} : Live(e)' <=> Live(e)
  BY <1>4, <1>5 DEF Live, IInv, TypeOK
<1>7. running' = running \cup {s}
  BY <1>4, <1>6, OneUp
<1>8. Stopping = {} /\ Stopping' = {}
  BY <1>1 DEF Spawn, Goto, NextService, Step, Job, Stopping
<1>9. forbidden' = forbidden /\ unsettled' = unsettled
  BY <1>8, SameHeld DEF Spawn, unsettled
<1>10. ~Held(s)
  BY <1>1, <1>3
<1>11. QED
  BY <1>7, <1>9, <1>10, Launches

(* Processes listen, leave the process table, and die. *)
LEMMA ProcessView ==
  ASSUME IInv, NEW d \in Daemon, Ready(d) \/ Reap(d) \/ Die(d) \/ GrabberDies
  PROVE  [Policy!Next]_(Policy!vars)
<1> USE DEF IInv, TypeOK, Live
<1>1. UNCHANGED <<files, job, torn>>
  BY DEF Ready, Reap, Die, GrabberDies
<1>2. Stopping' = Stopping
  BY <1>1 DEF Stopping, Members
<1>3. forbidden' = forbidden /\ unsettled' = unsettled
  BY <1>1, <1>2, SameHeld DEF unsettled
<1>4. CASE Die(d)
  <2>1. ~Live(d)' /\ \A e \in Daemon \ {d} : Live(e)' <=> Live(e)
    BY <1>4 DEF Die
  <2>2. CASE \E s \in Service : d \in StopSet(s)
    BY <1>3, <2>1, <2>2, OneDown, Dies
  <2>3. CASE \A s \in Service : d \notin StopSet(s)
    <3>1. \A s \in Service : Up(s)' <=> Up(s)
      BY <2>1, <2>3, DaemonType DEF Up
    <3>2. running' = running
      BY <3>1 DEF running
    <3>3. QED
      BY <1>3, <3>2, Stutters
  <2>4. QED
    BY <2>2, <2>3
<1>5. CASE Ready(d) \/ Reap(d) \/ GrabberDies
  <2>1. \A e \in Daemon : Live(e)' <=> Live(e)
    BY <1>5 DEF Ready, Reap, GrabberDies
  <2>2. running' = running
    BY <2>1, SameRunning
  <2>3. QED
    BY <1>3, <2>2, Stutters
<1>6. QED
  BY <1>4, <1>5

(* Steps that touch neither processes nor markers nor the job. *)
LEMMA OtherView ==
  ASSUME UNCHANGED <<files, proc, job, torn>>
  PROVE  [Policy!Next]_(Policy!vars)
<1>1. Stopping' = Stopping
  BY DEF Stopping, Members
<1>2. QED
  BY <1>1, SameView

-----------------------------------------------------------------------------
(* Every step is one of the policy. *)
LEMMA RefineStep == IInv /\ [Next]_vars => [Policy!Next]_(Policy!vars)
<1> SUFFICES ASSUME IInv, [Next]_vars PROVE [Policy!Next]_(Policy!vars)
  OBVIOUS
<1>1. ASSUME NEW c \in Client, NEW cmd \in Command, Call(c, cmd[1], cmd[2]) \/ GiveUp(c)
      PROVE  [Policy!Next]_(Policy!vars)
  BY <1>1, OtherView DEF Call, GiveUp
<1>2. ASSUME NEW c \in Client, GiveUp(c)
      PROVE  [Policy!Next]_(Policy!vars)
  BY <1>2, OtherView DEF GiveUp
<1>3. ASSUME NEW c \in Client, Acquire(c) \/ Killed(c) PROVE [Policy!Next]_(Policy!vars)
  BY <1>3, AcquireView, KilledView
<1>4. CASE Working \/ StartFails \/ AwaitTimeout
  BY <1>4, PrivacyOnView, BeginStopView, AllowView, DecideView, BeginPrivateView, StopOneView,
     SettleView, EnsureIpcView, SpawnView DEF Working
<1>5. ASSUME NEW k \in Key, Toggle(k) PROVE [Policy!Next]_(Policy!vars)
  BY <1>5, OtherView DEF Toggle
<1>6. ASSUME NEW d \in RtspDaemon, SetAlt(d) PROVE [Policy!Next]_(Policy!vars)
  BY <1>6, OtherView DEF SetAlt
<1>7. ASSUME NEW d \in Daemon, Ready(d) \/ Reap(d) \/ Die(d) \/ GrabberDies
      PROVE  [Policy!Next]_(Policy!vars)
  BY <1>7, ProcessView
<1>8. CASE UNCHANGED vars
  BY <1>8, OtherView DEF vars
<1>9. RtspDaemon \subseteq Daemon /\ "ipc2file" \in Daemon
  BY DEF Daemon
<1>10. QED
  BY <1>1, <1>2, <1>3, <1>4, <1>5, <1>6, <1>7, <1>8, <1>9 DEF Next

LEMMA RefineInit == Init => Policy!Init
<1>1. ASSUME Init PROVE running = {}
  BY <1>1, DaemonType DEF Init, running, Up, Live
<1>2. ASSUME Init PROVE forbidden = {} /\ unsettled = {}
  BY <1>2 DEF Init, forbidden, unsettled, Held, HeldBy
<1>3. QED
  BY <1>1, <1>2 DEF Policy!Init

(* service.sh implements ServicePolicy: what is held is never launched,    *)
(* and a stop that has settled has taken its service down.                 *)
THEOREM ImplementsPolicy == Spec => PolicyKept
<1>1. Init => Policy!Init
  BY RefineInit
<1>2. IInv /\ [Next]_vars => [Policy!Next]_(Policy!vars)
  BY RefineStep
<1>3. QED
  BY <1>1, <1>2, Invariance, PTL DEF Spec, PolicyKept, Policy!Spec

(* A service that an explicit stop or privacy forbids runs only while its  *)
(* stop is under way or was cut short.                                     *)
THEOREM ForbiddenAreDown == Spec => []StoppedAreDown
<1>1. Policy!Init => StoppedAreDown
  BY DEF Policy!Init, StoppedAreDown, Policy!HeldAreDown
<1>2. StoppedAreDown /\ [Policy!Next]_(Policy!vars) => StoppedAreDown'
  BY DEF StoppedAreDown, Policy!HeldAreDown, Policy!Next, Policy!vars, Policy!Hold, Policy!Allow,
     Policy!Settle, Policy!Launch, Policy!Die
<1>3. QED
  BY <1>1, <1>2, ImplementsPolicy, PTL DEF PolicyKept, Policy!Spec

-----------------------------------------------------------------------------
(* The watchdog. *)
WdInv == IInv /\ WdTypeOK

LEMMA LocalServicesType == LocalServices \in Seq(Service)
BY ListedType DEF LocalServices, AllService

(* The commands the watchdog gives are commands of service.sh. *)
LEMMA RunStep ==
  ASSUME NEW s \in Service, NEW a \in {"ensure", "recover"}, Run(s, a),
         a = "recover" => s = "rtsp"
  PROVE  Next
<1> DEFINE cmd == <<s, a>>
<1>1. cmd \in Command
  BY WatchdogConstants DEF WatchdogConstants
<1>2. Wd \in Client /\ Call(Wd, cmd[1], cmd[2])
  BY WatchdogConstants DEF WatchdogConstants, Run
<1>3. QED
  BY <1>1, <1>2 DEF Next

-----------------------------------------------------------------------------
(* A check of the loop either runs service.sh or leaves it alone. *)
LEMMA WdStepServes == WdInv /\ WdStep => [Next]_vars
<1> SUFFICES ASSUME WdInv, WdStep PROVE [Next]_vars
  OBVIOUS
<1>1. CASE check_rtsp
  BY <1>1, RunStep DEF check_rtsp
<1>2. CASE check_mqtt
  BY <1>2, RunStep DEF check_mqtt
<1>3. CASE check_local_services
  <2>1. specs # <<>> => Head(specs) \in Service
    BY DEF WdInv, WdTypeOK
  <2>2. QED
    BY <1>3, <2>1, RunStep DEF check_local_services
<1>4. CASE check_record
  BY <1>4, RunStep DEF check_record
<1>5. CASE check_consumer
  BY <1>5, RunStep DEF check_consumer
<1>6. CASE refresh_process_state \/ refresh_config \/ next_iteration
  BY <1>6 DEF refresh_process_state, refresh_config, next_iteration
<1>7. QED
  BY <1>1, <1>2, <1>3, <1>4, <1>5, <1>6 DEF WdStep

(* Every step of the composition is one of ServiceManager, or none. *)
LEMMA ServingStep == WdInv /\ [WdNext]_allvars => [Next]_vars
<1> SUFFICES ASSUME WdInv, [WdNext]_allvars PROVE [Next]_vars
  OBVIOUS
<1>1. CASE Environment
  BY <1>1, WatchdogConstants DEF Environment, Next, SlowStart, WatchdogConstants
<1>2. CASE check_standard_rtsp_stall
  BY <1>2, RunStep DEF check_standard_rtsp_stall
<1>3. CASE Manager
  BY <1>3 DEF Manager, Next, FailedStart
<1>4. CASE WdStep
  BY <1>4, WdStepServes
<1>5. CASE UNCHANGED allvars
  BY <1>5 DEF allvars
<1>6. QED
  BY <1>1, <1>2, <1>3, <1>4, <1>5 DEF WdNext

-----------------------------------------------------------------------------
(* The loop keeps the types of its own variables. *)
LEMMA WdTypeStep == WdInv /\ [WdNext]_allvars => WdTypeOK'
<1> SUFFICES ASSUME WdInv, [WdNext]_allvars PROVE WdTypeOK'
  OBVIOUS
<1> USE DEF WdInv, WdTypeOK
<1>0. ASSUME Spend \/ UNCHANGED events PROVE events' \in 0..MaxEvents
  <2>1. MaxEvents \in Nat /\ events \in 0..MaxEvents
    BY WatchdogConstants DEF WatchdogConstants
  <2>2. QED
    BY <1>0, <2>1 DEF Spend
<1>1. CASE UNCHANGED wdvars /\ (Spend \/ UNCHANGED events)
  <2>1. events' \in 0..MaxEvents
    BY <1>1, <1>0
  <2>2. QED
    BY <1>1, <2>1 DEF wdvars
<1>2. CASE check_standard_rtsp_stall /\ Spend
  <2>1. events' \in 0..MaxEvents
    BY <1>2, <1>0
  <2>2. QED
    BY <1>2, <2>1 DEF check_standard_rtsp_stall
<1>3. CASE WdStep /\ UNCHANGED events
  <2>1. CASE refresh_process_state
    BY <1>3, <2>1 DEF refresh_process_state, IInv, TypeOK
  <2>2. CASE refresh_config
    <3>1. sampled'.rtspd \in RtspDaemon
      BY <2>2 DEF refresh_config, IInv, TypeOK
    <3>2. sampled'.flags \subseteq {"LISTEN", "SWITCH_ON", "MQTT"}
      BY <2>2 DEF refresh_config
    <3>3. QED
      BY <1>3, <2>2, <3>1, <3>2 DEF refresh_config
  <2>3. CASE check_rtsp
    BY <1>3, <2>3 DEF check_rtsp
  <2>4. CASE check_mqtt
    BY <1>3, <2>4, LocalServicesType DEF check_mqtt
  <2>5. CASE check_local_services
    BY <1>3, <2>5 DEF check_local_services
  <2>6. CASE check_record
    BY <1>3, <2>6 DEF check_record
  <2>7. CASE check_consumer
    BY <1>3, <2>7 DEF check_consumer
  <2>8. CASE next_iteration
    <3>1. (round + 1) % Period \in 0..(Period - 1)
      BY WatchdogConstants DEF WatchdogConstants
    <3>2. seen' = SeenNothing /\ sampled' = NoSample /\ round' = (round + 1) % Period
          /\ wpc' = "sleep" /\ UNCHANGED specs
      BY <2>8 DEF next_iteration
    <3>3. SeenNothing \in [Daemon -> ProcState]
      BY DEF SeenNothing, ProcState
    <3>4. NoSample.rtspd = "none" /\ NoSample.flags = {}
      BY DEF NoSample
    <3>5. QED
      BY <1>3, <3>1, <3>2, <3>3, <3>4
  <2>9. QED
    BY <1>3, <2>1, <2>2, <2>3, <2>4, <2>5, <2>6, <2>7, <2>8 DEF WdStep
<1>4. QED
  BY <1>1, <1>2, <1>3 DEF WdNext, allvars, wdvars

LEMMA WdInitType == WdInit => WdInv
<1>1. WdInit => TypeOK /\ Between
  BY DEF WdInit, Init, TypeOK, JobType, CallType, Idle, Job, NoCall, ProcState, Between
<1>2. Between => Shape
  BY DEF Between, Shape, StopProgress, StopOnly, Permitted, StopPC, FreshPC
<1>3. ASSUME WdInit PROVE WdTypeOK
  BY <1>3, WatchdogConstants DEF WatchdogConstants, WdInit, WdTypeOK, SeenNothing, NoSample, ProcState
<1>4. QED
  BY <1>1, <1>2, <1>3 DEF WdInv, IInv

LEMMA WdInvariance == WdSpec => []WdInv
<1>1. WdInv /\ [WdNext]_allvars => WdInv'
  BY ServingStep, WdTypeStep, TypeStep, ShapeStep DEF WdInv, IInv
<1>2. QED
  BY <1>1, WdInitType, PTL DEF WdSpec

(* What the loop's own variables hold has its type. *)
THEOREM WatchdogTyping == WdSpec => []WdTypeOK
<1>1. WdInv => WdTypeOK
  BY DEF WdInv
<1>2. QED
  BY <1>1, WdInvariance, PTL

(* With the watchdog running, service.sh is still a ServiceManager: stale  *)
(* samples make it run more often, never differently.                      *)
THEOREM WatchdogOnlyCalls == WdSpec => Spec
<1>1. WdInit => Init
  BY DEF WdInit
<1>2. QED
  BY <1>1, WdInvariance, ServingStep, PTL DEF WdSpec, Spec

(* The watchdog's recovery preserves explicit stop and privacy intent,     *)
(* even if it changed after the sample (restart_rtsp, wd.sh:40-45).        *)
THEOREM WatchdogKeepsPolicy == WdSpec => PolicyKept
BY WatchdogOnlyCalls, ImplementsPolicy

(* The checks of the watchdog, made on stale samples, never take the event *)
(* consumer from a notification daemon.                                    *)
THEOREM WatchdogKeepsConsumer == WdSpec => OnvifKeepsConsumer
BY WatchdogOnlyCalls, ConsumerKept
=============================================================================
