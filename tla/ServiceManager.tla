--------------------------- MODULE ServiceManager ---------------------------
(***************************************************************************)
(* script/service.sh: the owner of the camera's daemons.  Every shell that *)
(* runs it caches the configuration (init_config), waits for the service   *)
(* lock, and then works through its services one command at a time.  The   *)
(* lock is mutual exclusion here (the job variable has one holder); module *)
(* RuntimeLock models the lock itself.                                     *)
(*                                                                         *)
(* Shells can be killed, daemons die, configuration pages rewrite the      *)
(* toggles without taking the lock, at any step.                           *)
(***************************************************************************)
EXTENDS Naturals, Sequences

CONSTANTS
  Service,   (* the modelled part of ALL_SERVICES                          *)
  Key,       (* the configuration keys that matter to them                 *)
  Command,   (* the command lines <<name, action>> that callers use        *)
  Client,    (* shells that run service.sh                                 *)
  None,      (* no shell                                                   *)
  Stubborn,  (* daemons that may still be listed after SIGKILL             *)
  Mortal     (* daemons that may die on their own                          *)

RtspDaemon == {"rRTSPServer", "go2rtc"}
Daemon == RtspDaemon \cup
  {"onvif_notify_server", "wsd_simple_server", "mqttv4", "mp4record", "ipc2file"}

AllService == {"rtsp", "onvif", "wsdd", "mqtt", "mp4record"}
Private == {"rtsp", "mp4record"}
AllKey == {"RTSP", "ONVIF", "ONVIF_WSDD", "MQTT", "RECORD", "SWITCH_ON"}
ServiceAction == {"start", "stop", "restart", "ensure", "recover"}
AllCommand == ((Service \cup {"all"}) \X ServiceAction) \cup ({"privacy"} \X {"on", "off"})

ASSUME ServiceConstants ==
  /\ Service \subseteq AllService
  /\ Key \subseteq AllKey
  /\ Command \subseteq AllCommand
  /\ None \notin Client
  /\ Stubborn \subseteq Daemon /\ Mortal \subseteq Daemon

VARIABLES
  yes,    (* configuration keys whose value is yes (RECORD stands for      *)
          (* DISABLE_CLOUD=no or REC_WITHOUT_CLOUD=yes)                    *)
  rtspd,  (* the daemon RTSP_ALT asks for                                  *)
  files,  (* "privacy" for /tmp/privacy, a service for its .stopped marker *)
  proc,   (* what the process table shows of each daemon                   *)
  call,   (* the command line of each shell, with its cached RTSP_DAEMON   *)
  job,    (* progress of the lock holder                                   *)
  torn    (* history: services whose stop was cut short by a killed shell  *)

vars == <<yes, rtspd, files, proc, call, job, torn>>

(* dying: SIGKILL sent, still listed.  overlap: a new process beside a     *)
(* dying one.  starting: spawned but not listening yet.  broken: listening *)
(* without its grabbers.  double: two processes that both serve.           *)
ProcState == {"none", "starting", "up", "broken", "dying", "overlap", "double"}
Live(d) == proc[d] \notin {"none", "dying"}

NoCall == [name |-> "none", action |-> "none", rtspd |-> "none"]
Job(holder, act, todo, svc, pc, kill, then) ==
  [holder |-> holder, act |-> act, todo |-> todo, svc |-> svc, pc |-> pc,
   kill |-> kill, then |-> then]
Idle == Job(None, "none", <<>>, "none", "idle", {}, "begin")

(* process_count "$1" = 1 and = 0 *)
CountOne(d) == proc[d] \in {"starting", "up", "broken", "dying"}
CountZero(d) == proc[d] = "none"

(* rtsp_healthy: one daemon, listening, with its grabbers *)
RtspHealthy(d) == proc[d] = "up"

service_enabled(s) ==
  CASE s = "rtsp" -> "RTSP" \in yes
    [] s = "onvif" -> "ONVIF" \in yes
    [] s = "wsdd" -> {"ONVIF", "ONVIF_WSDD"} \subseteq yes
    [] s = "mqtt" -> "MQTT" \in yes
    [] s = "mp4record" -> "RECORD" \in yes

HeldBy(fs, s) == s \in fs \/ (s \in Private /\ "privacy" \in fs)
Held(s) == HeldBy(files, s)

service_wanted(s) ==
  /\ service_enabled(s)
  /\ ~Held(s)
  /\ s \in Private => "SWITCH_ON" \in yes

service_daemon(s, cached) ==
  CASE s = "rtsp" -> cached
    [] s = "onvif" -> "onvif_notify_server"
    [] s = "wsdd" -> "wsd_simple_server"
    [] s = "mqtt" -> "mqttv4"
    [] s = "mp4record" -> "mp4record"

StopSetCached(s) == {service_daemon(s, "rRTSPServer")}

(* The daemons service_stop kills; for rtsp all of stop_rtsp's, whatever   *)
(* RTSP_ALT says.                                                          *)
StopSet(s) == IF s = "rtsp" THEN RtspDaemon ELSE {service_daemon(s, "none")}

Up(s) == \E d \in StopSet(s) : Live(d)

Listed(s) == IF s \in Service THEN <<s>> ELSE <<>>

ALL_SERVICES ==
  Listed("rtsp") \o Listed("onvif") \o Listed("wsdd") \o Listed("mqtt") \o Listed("mp4record")
PRIVATE_SERVICES == Listed("rtsp") \o Listed("mp4record")

Work(name) ==
  CASE name = "all" -> ALL_SERVICES
    [] name = "privacy" -> PRIVATE_SERVICES
    [] OTHER -> <<name>>

-----------------------------------------------------------------------------
Init ==
  /\ yes \in SUBSET Key
  /\ rtspd \in RtspDaemon
  /\ files = {}
  /\ proc = [d \in Daemon |-> "none"]
  /\ call = [c \in Client |-> NoCall]
  /\ job = Idle
  /\ torn = {}

(* init_config: the shell caches the configuration before the lock. *)
Call(c, name, action) ==
  /\ call[c] = NoCall
  /\ call' = [call EXCEPT ![c] = [name |-> name, action |-> action, rtspd |-> rtspd]]
  /\ UNCHANGED <<yes, rtspd, files, proc, job, torn>>

(* lock_acquire succeeds. *)
Acquire(c) ==
  /\ call[c] # NoCall
  /\ job = Idle
  /\ job' = Job(c, call[c].action, Work(call[c].name), "none",
               IF call[c].name = "privacy" THEN "privacy" ELSE "begin", {}, "begin")
  /\ UNCHANGED <<yes, rtspd, files, proc, call, torn>>

(* lock_acquire has used up its attempts: exit 1. *)
GiveUp(c) ==
  /\ call[c] # NoCall
  /\ job.holder \notin {None, c}
  /\ call' = [call EXCEPT ![c] = NoCall]
  /\ UNCHANGED <<yes, rtspd, files, proc, job, torn>>

Holding(pc) == job.holder # None /\ job.pc = pc
Cached == call[job.holder].rtspd

(* Steps of the holder: within one service, and from one to the next. *)
Step(todo, svc, pc, kill, then) ==
  job' = Job(job.holder, job.act, todo, svc, pc, kill, then)
Goto(pc) == Step(job.todo, job.svc, pc, {}, job.then)
Halt(then) == Step(job.todo, job.svc, "halt", StopSet(job.svc), then)
NextService == Step(job.todo, "none", "begin", {}, "begin")

(* The next service of the loop, and how its command begins. *)
First == Head(job.todo)
FirstGoto(pc) == Step(Tail(job.todo), First, pc, {}, "begin")
FirstHalt(then) == Step(Tail(job.todo), First, "halt", StopSet(First), then)
FirstSkip == Step(Tail(job.todo), "none", "begin", {}, "begin")

(* touch and rm -f in /tmp *)
SetFiles(fs) ==
  /\ files' = fs
  /\ torn' = {s \in torn : HeldBy(fs, s)}

-----------------------------------------------------------------------------
PrivacyOn ==
  /\ Holding("privacy") /\ job.act = "on"
  /\ SetFiles(files \cup {"privacy"})
  /\ Step(job.todo, "none", "begin", {}, "begin")
  /\ UNCHANGED <<yes, rtspd, proc, call>>

PrivacyOff ==
  /\ Holding("privacy") /\ job.act = "off"
  /\ SetFiles(files \ {"privacy"})
  /\ Step(job.todo, "none", "begin", {}, "begin")
  /\ UNCHANGED <<yes, rtspd, proc, call>>

Beginning(action) ==
  /\ Holding("begin") /\ job.todo # <<>>
  /\ job.act = action

BeginStop ==
  /\ Beginning("stop")
  /\ SetFiles(files \cup {First})
  /\ FirstHalt("begin")
  /\ UNCHANGED <<yes, rtspd, proc, call>>

BeginStart ==
  /\ Beginning("start")
  /\ SetFiles(files \ {First})
  /\ FirstGoto("start")
  /\ UNCHANGED <<yes, rtspd, proc, call>>

BeginRestart ==
  /\ Beginning("restart")
  /\ SetFiles(files \ {First})
  /\ FirstHalt("start")
  /\ UNCHANGED <<yes, rtspd, proc, call>>

BeginRecover ==
  /\ Beginning("recover")
  /\ IF service_wanted(First) THEN FirstHalt("start") ELSE FirstSkip
  /\ UNCHANGED <<yes, rtspd, files, proc, call, torn>>

(* `ensure', and each service of `privacy off' *)
BeginEnsure ==
  /\ Beginning("ensure") \/ Beginning("off")
  /\ FirstGoto("start")
  /\ UNCHANGED <<yes, rtspd, files, proc, call, torn>>

BeginPrivateLazy ==
  /\ Beginning("on")
  /\ FirstSkip
  /\ UNCHANGED <<yes, rtspd, files, proc, call, torn>>

(* Each service of `privacy on' *)
BeginPrivate ==
  /\ Beginning("on")
  /\ FirstHalt("begin")
  /\ UNCHANGED <<yes, rtspd, files, proc, call, torn>>

(* lock_release, by the EXIT trap *)
Release ==
  /\ Holding("begin") /\ job.todo = <<>>
  /\ job' = Idle
  /\ call' = [call EXCEPT ![job.holder] = NoCall]
  /\ UNCHANGED <<yes, rtspd, files, proc, torn>>

-----------------------------------------------------------------------------
(* stop_process: killall, at most 3 s for the processes to go, SIGKILL.    *)
stop_process(d) ==
  \E s \in {"none", "dying"} :
    /\ s = "dying" => d \in Stubborn /\ proc[d] # "none"
    /\ proc' = [proc EXCEPT ![d] = s]

StopOne ==
  /\ Holding("halt")
  /\ \E d \in job.kill :
       /\ stop_process(d)
       /\ Step(job.todo, job.svc, "halt", job.kill \ {d}, job.then)
  /\ UNCHANGED <<yes, rtspd, files, call, torn>>

(* After service_stop: its caller goes on, or the next service. *)
Resume == IF job.then = "begin" THEN NextService ELSE Goto(job.then)

(* The end of service_stop; onvif and mqtt go on with release_ipc. *)
StopDone ==
  /\ Holding("halt") /\ job.kill = {}
  /\ IF job.svc \in {"onvif", "mqtt"} THEN Goto("release") ELSE Resume
  /\ torn' = torn \ {job.svc}
  /\ UNCHANGED <<yes, rtspd, files, proc, call>>

release_ipc_for_mqtt ==
  /\ Holding("release")
  /\ IF CountZero("mqttv4") THEN Goto("killipc") ELSE Resume
  /\ UNCHANGED <<yes, rtspd, files, proc, call, torn>>

release_ipc ==
  /\ Holding("release")
  /\ IF CountZero("onvif_notify_server") /\ CountZero("mqttv4")
       THEN Goto("killipc") ELSE Resume
  /\ UNCHANGED <<yes, rtspd, files, proc, call, torn>>

KillIpc ==
  /\ Holding("killipc")
  /\ stop_process("ipc2file")
  /\ Resume
  /\ UNCHANGED <<yes, rtspd, files, call, torn>>

-----------------------------------------------------------------------------
StartEnabled ==
  /\ Holding("start")
  /\ IF service_enabled(job.svc) THEN Goto("count") ELSE Halt("begin")
  /\ UNCHANGED <<yes, rtspd, files, proc, call, torn>>

(* service_start: an unwanted service is stopped instead. *)
StartWanted ==
  /\ Holding("start")
  /\ IF service_wanted(job.svc) THEN Goto("count") ELSE Halt("begin")
  /\ UNCHANGED <<yes, rtspd, files, proc, call, torn>>

CountRtspNoStop ==
  /\ Holding("count") /\ job.svc = "rtsp"
  /\ IF RtspHealthy(Cached) THEN NextService ELSE Goto("spawn")
  /\ UNCHANGED <<yes, rtspd, files, proc, call, torn>>

(* Already healthy, or stop what is left and start afresh. *)
CountRtsp ==
  /\ Holding("count") /\ job.svc = "rtsp"
  /\ IF RtspHealthy(Cached) THEN NextService ELSE Halt("spawn")
  /\ UNCHANGED <<yes, rtspd, files, proc, call, torn>>

CountDaemon ==
  /\ Holding("count") /\ job.svc # "rtsp"
  /\ IF ~CountOne(service_daemon(job.svc, Cached))
       THEN Halt(IF job.svc = "onvif" THEN "ipc" ELSE "spawn")
       ELSE IF job.svc = "onvif" THEN Goto("keepipc") ELSE NextService
  /\ UNCHANGED <<yes, rtspd, files, proc, call, torn>>

(* A new ipc2file gives up when the pid file names a living process. *)
Launched(d) ==
  CASE proc[d] = "none" -> IF d \in RtspDaemon THEN "starting" ELSE "up"
    [] Live(d) \/ proc[d] = "dying" ->
         IF d = "ipc2file" THEN proc[d] ELSE IF Live(d) THEN "double" ELSE "overlap"

(* Before start_onvif launches its daemon ("ipc"), or because the daemon   *)
(* is running ("keepipc").  Its own stop_process finds nothing to stop:    *)
(* ipc2file runs once at most.                                             *)
ensure_ipc ==
  /\ Holding("ipc") \/ Holding("keepipc")
  /\ proc' = IF CountOne("ipc2file") THEN proc
             ELSE [proc EXCEPT !["ipc2file"] = Launched("ipc2file")]
  /\ IF job.pc = "ipc" THEN Goto("spawn") ELSE NextService
  /\ UNCHANGED <<yes, rtspd, files, call, torn>>

(* log_store.sh or the write of go2rtc.yaml fails: return 1. *)
StartFails ==
  /\ \/ Holding("ipc")
     \/ Holding("spawn") /\ (job.svc = "wsdd" \/ (job.svc = "rtsp" /\ Cached = "go2rtc"))
  /\ NextService
  /\ UNCHANGED <<yes, rtspd, files, proc, call, torn>>

Spawn ==
  /\ Holding("spawn")
  /\ LET d == service_daemon(job.svc, Cached) IN
       proc' = [proc EXCEPT ![d] = Launched(d)]
  /\ IF job.svc = "rtsp" THEN Goto("await") ELSE NextService
  /\ UNCHANGED <<yes, rtspd, files, call, torn>>

(* start_rtsp keeps the lock until the daemon is healthy, *)
AwaitHealthy ==
  /\ Holding("await") /\ RtspHealthy(Cached)
  /\ NextService
  /\ UNCHANGED <<yes, rtspd, files, proc, call, torn>>

(* but for five tries only. *)
AwaitTimeout ==
  /\ Holding("await") /\ ~RtspHealthy(Cached)
  /\ NextService
  /\ UNCHANGED <<yes, rtspd, files, proc, call, torn>>

-----------------------------------------------------------------------------
Members(todo) == {todo[i] : i \in 1..Len(todo)}

(* Services whose stop the holder has begun and not finished. *)
Stopping ==
  IF job.holder = None THEN {}
  ELSE IF job.act = "on" THEN (Members(job.todo) \cup {job.svc}) \ {"none"}
  ELSE IF job.act = "stop" THEN {job.svc} \ {"none"}
  ELSE {}

KilledKeepsLock(c) ==
  /\ call[c] # NoCall
  /\ call' = [call EXCEPT ![c] = NoCall]
  /\ UNCHANGED <<yes, rtspd, files, proc, job, torn>>

(* SIGKILL.  The lock of a killed holder is stale: the next caller frees it. *)
Killed(c) ==
  /\ call[c] # NoCall
  /\ call' = [call EXCEPT ![c] = NoCall]
  /\ \/ /\ job.holder = c
        /\ job' = Idle
        /\ torn' = torn \cup {s \in Stopping : Held(s)}
     \/ /\ job.holder # c
        /\ UNCHANGED <<job, torn>>
  /\ UNCHANGED <<yes, rtspd, files, proc>>

-----------------------------------------------------------------------------
(* The configuration pages and ipc_cmd write the settings without a lock.  *)
Toggle(k) ==
  /\ yes' = IF k \in yes THEN yes \ {k} ELSE yes \cup {k}
  /\ UNCHANGED <<rtspd, files, proc, call, job, torn>>

SetAlt(d) ==
  /\ rtspd # d
  /\ rtspd' = d
  /\ UNCHANGED <<yes, files, proc, call, job, torn>>

(* A spawned RTSP daemon listens. *)
Ready(d) ==
  /\ proc[d] = "starting"
  /\ proc' = [proc EXCEPT ![d] = "up"]
  /\ UNCHANGED <<yes, rtspd, files, call, job, torn>>

(* A killed process leaves the process table. *)
Reap(d) ==
  /\ \/ proc[d] = "dying" /\ proc' = [proc EXCEPT ![d] = "none"]
     \/ proc[d] = "overlap" /\ proc' = [proc EXCEPT ![d] =
                                IF d \in RtspDaemon THEN "starting" ELSE "up"]
  /\ UNCHANGED <<yes, rtspd, files, call, job, torn>>

Die(d) ==
  /\ d \in Mortal /\ Live(d)
  /\ proc' = [proc EXCEPT ![d] = IF @ = "overlap" THEN "dying" ELSE "none"]
  /\ UNCHANGED <<yes, rtspd, files, call, job, torn>>

(* A grabber of the standard server dies. *)
GrabberDies ==
  /\ "rRTSPServer" \in Mortal /\ proc["rRTSPServer"] = "up"
  /\ proc' = [proc EXCEPT !["rRTSPServer"] = "broken"]
  /\ UNCHANGED <<yes, rtspd, files, call, job, torn>>

-----------------------------------------------------------------------------
(* The steps of the lock holder. *)
Working ==
  \/ PrivacyOn \/ PrivacyOff
  \/ BeginStop \/ BeginStart \/ BeginRestart \/ BeginRecover \/ BeginEnsure
  \/ BeginPrivate \/ Release
  \/ StopOne \/ StopDone \/ release_ipc \/ KillIpc
  \/ StartWanted \/ CountRtsp \/ CountDaemon \/ ensure_ipc \/ Spawn \/ AwaitHealthy

Next ==
  \/ \E c \in Client :
       \/ \E cmd \in Command : Call(c, cmd[1], cmd[2])
       \/ Acquire(c) \/ GiveUp(c) \/ Killed(c)
  \/ Working \/ StartFails \/ AwaitTimeout
  \/ \E k \in Key : Toggle(k)
  \/ \E d \in RtspDaemon : SetAlt(d)
  \/ \E d \in Daemon : Ready(d) \/ Reap(d) \/ Die(d)
  \/ GrabberDies

Spec == Init /\ [][Next]_vars

-----------------------------------------------------------------------------
PCs == {"privacy", "begin", "halt", "release", "killipc", "start", "count",
        "ipc", "keepipc", "spawn", "await"}

CallType == [name: AllService \cup {"all", "privacy", "none"},
             action: ServiceAction \cup {"on", "off", "none"},
             rtspd: RtspDaemon \cup {"none"}]

JobType == [holder: Client \cup {None}, act: ServiceAction \cup {"on", "off", "none"},
            todo: Seq(Service), svc: Service \cup {"none"}, pc: PCs \cup {"idle"},
            kill: SUBSET Daemon, then: {"begin", "start", "ipc", "spawn"}]

(* A lock holder is always a shell with a command, works on one of its     *)
(* services or is between two, and a free lock leaves no work behind.      *)
TypeOK ==
  /\ yes \subseteq Key
  /\ rtspd \in RtspDaemon
  /\ files \subseteq Service \cup {"privacy"}
  /\ proc \in [Daemon -> ProcState]
  /\ torn \subseteq Service
  /\ call \in [Client -> CallType]
  /\ \A c \in Client : call[c] # NoCall =>
       <<call[c].name, call[c].action>> \in Command /\ call[c].rtspd \in RtspDaemon
  /\ job \in JobType
  /\ job.holder = None => job = Idle
  /\ job.holder # None => call[job.holder] # NoCall /\ job.pc # "idle" /\ job.act # "none"
  /\ job.svc = "none" <=> job.pc \in {"idle", "privacy", "begin"}

(* No daemon ever serves twice: every launch under the lock comes after    *)
(* the old instances were stopped.                                         *)
SingleInstance == \A d \in Daemon : proc[d] # "double"

(* One RTSP server at a time, whatever RTSP_ALT was when each shell cached *)
(* it and whoever was killed in the middle of a restart.                   *)
OneStreamer == \A d, e \in RtspDaemon : Live(d) /\ Live(e) => d = e

(* The notification daemon keeps its event consumer: whichever of the two  *)
(* services that share ipc2file is stopped, restarted or recovered, and    *)
(* however the commands interleave, no shell ends the consumer while a     *)
(* notification daemon lives; only its own death does.                     *)
OnvifKeepsConsumer ==
  [][Live("onvif_notify_server") /\ Live("ipc2file") /\ ~Live("ipc2file")'
       => Die("ipc2file")]_vars

running == {s \in Service : Up(s)}
forbidden == {s \in Service : Held(s)}
unsettled == {s \in Stopping \cup torn : Held(s)}

Policy == INSTANCE ServicePolicy WITH
  up <- running, held <- forbidden, settling <- unsettled

(* The start/stop/privacy commands keep the promise of ServicePolicy.      *)
PolicyKept == Policy!Spec

(* A service that an explicit stop or privacy forbids runs only while the  *)
(* shell that forbade it is still stopping it, or was killed doing so.     *)
StoppedAreDown == Policy!HeldAreDown
=============================================================================
