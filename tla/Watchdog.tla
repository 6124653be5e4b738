------------------------------ MODULE Watchdog ------------------------------
(***************************************************************************)
(* script/wd.sh next to service.sh: the loop that samples the process      *)
(* table, the listening sockets and the configuration, and then runs       *)
(* `service.sh <name> ensure' for what looks wrong.  The sample is used    *)
(* after other shells have moved on; service.sh decides again under its    *)
(* lock.  Wi-Fi recovery, check_rmm (reboot) and the tick counters of      *)
(* check_standard_rtsp_stall are left out: a stall verdict may come for    *)
(* any healthy standard server.                                            *)
(*                                                                         *)
(* MaxEvents bounds what the environment does (commands of users, toggles, *)
(* deaths, killed shells, failed or slow starts), so that "in the end" has *)
(* a meaning: after the last event the watchdog has to repair everything.  *)
(***************************************************************************)
EXTENDS ServiceManager

CONSTANTS
  Wd,        (* the watchdog's shell                                       *)
  Asked,     (* the commands that users and configuration pages give       *)
  MaxEvents, (* bound on the events of the environment                     *)
  Period     (* check_local_services runs every Period-th iteration: 3     *)

ASSUME WatchdogConstants ==
  /\ Wd \in Client
  /\ Asked \subseteq Command
  /\ Service \X {"ensure"} \subseteq Command
  /\ "rtsp" \in Service => <<"rtsp", "recover">> \in Command
  /\ MaxEvents \in Nat
  /\ Period \in Nat \ {0}

VARIABLES
  wpc,      (* the next check of the loop                                  *)
  seen,     (* PS_OUTPUT: the sampled process table                        *)
  sampled,  (* LISTEN, SWITCH_ON, RTSP_ALT, MQTT, read after the table     *)
  specs,    (* what check_local_services has still to look at              *)
  round,    (* POLICY_COUNTER                                              *)
  events    (* events the environment has left                             *)

wdvars == <<wpc, seen, sampled, specs, round>>
allvars == <<vars, wdvars, events>>

SeenNothing == [d \in Daemon |-> "none"]
NoSample == [flags |-> {}, rtspd |-> "none"]

Seen(d) == seen[d] # "none"
SeenOne(d) == seen[d] \in {"starting", "up", "broken", "dying"}

LocalServices == Listed("onvif") \o Listed("wsdd") \o Listed("mqtt")
LocalKey(s) == CASE s = "onvif" -> "ONVIF" [] s = "wsdd" -> "ONVIF_WSDD" [] s = "mqtt" -> "MQTT"

WdInit ==
  /\ Init
  /\ wpc = "sleep"
  /\ seen = SeenNothing
  /\ sampled = NoSample
  /\ specs = <<>>
  /\ round = 0
  /\ events = MaxEvents

-----------------------------------------------------------------------------
RunUnlocked(name, action) ==
  /\ LET d == service_daemon(name, rtspd) IN
       proc' = [proc EXCEPT ![d] = IF d \in RtspDaemon THEN "starting" ELSE "up"]
  /\ UNCHANGED <<yes, rtspd, files, call, job, torn>>

(* A synchronous `service.sh name action': the loop goes on when it exits. *)
Run(name, action) == Call(Wd, name, action)

At(l) == wpc = l /\ call[Wd] = NoCall

refresh_process_state ==
  /\ At("sleep")
  /\ seen' = proc
  /\ wpc' = "sample"
  /\ UNCHANGED <<vars, sampled, specs, round>>

refresh_config ==
  /\ At("sample")
  /\ sampled' = [rtspd |-> rtspd,
       flags |-> (yes \cap {"SWITCH_ON", "MQTT"}) \cup
                 {"LISTEN" : d \in {d \in RtspDaemon : proc[d] \in {"up", "broken"}}}]
  /\ wpc' = "rtsp"
  /\ UNCHANGED <<vars, seen, specs, round>>

RtspEligible ==
  /\ "RTSP" \in yes /\ "SWITCH_ON" \in sampled.flags
  /\ "privacy" \notin files /\ "rtsp" \notin files

(* check_rtsp and check_rtsp_go2rtc on the sample *)
LooksHealthy ==
  /\ "LISTEN" \in sampled.flags
  /\ SeenOne(sampled.rtspd)
  /\ seen[sampled.rtspd] # "broken"

RtspNeedsStart == RtspEligible /\ ~LooksHealthy

RtspNeedsEnsure ==
  IF RtspEligible THEN ~LooksHealthy ELSE \E d \in RtspDaemon : Seen(d)

check_rtsp ==
  /\ At("rtsp")
  /\ IF "rtsp" \in Service /\ RtspNeedsEnsure THEN Run("rtsp", "ensure") ELSE UNCHANGED vars
  /\ wpc' = "mqtt"
  /\ UNCHANGED <<seen, sampled, specs, round>>

(* Ten idle tick samples of a standard server with a client. *)
check_standard_rtsp_stall ==
  /\ At("rtsp") /\ "rtsp" \in Service
  /\ RtspEligible /\ LooksHealthy /\ sampled.rtspd = "rRTSPServer"
  /\ Run("rtsp", "recover")
  /\ wpc' = "mqtt"
  /\ UNCHANGED <<seen, sampled, specs, round>>

MqttNeedsEnsure == ("MQTT" \in sampled.flags) # Seen("mqttv4")

check_mqtt ==
  /\ At("mqtt")
  /\ IF "mqtt" \in Service /\ MqttNeedsEnsure THEN Run("mqtt", "ensure") ELSE UNCHANGED vars
  /\ IF round = 0
       THEN wpc' = "local" /\ specs' = LocalServices /\ UNCHANGED <<seen, sampled>>
       ELSE wpc' = "done" /\ UNCHANGED <<specs, seen, sampled>>
  /\ UNCHANGED round

LocalNeedsEnsure(s) ==
  LET d == service_daemon(s, "none") IN
    IF LocalKey(s) \in yes /\ s \notin files THEN ~SeenOne(d) ELSE Seen(d)

check_local_services ==
  /\ At("local")
  /\ IF specs # <<>>
       THEN /\ IF LocalNeedsEnsure(Head(specs)) THEN Run(Head(specs), "ensure")
                                                ELSE UNCHANGED vars
            /\ specs' = Tail(specs)
            /\ UNCHANGED wpc
       ELSE wpc' = "record" /\ UNCHANGED <<vars, specs>>
  /\ UNCHANGED <<seen, sampled, round>>

RecordNeedsEnsure ==
  \/ ~SeenOne("mp4record")
  \/ "SWITCH_ON" \notin sampled.flags
  \/ "privacy" \in files \/ "mp4record" \in files
  \/ "RECORD" \notin yes

check_record ==
  /\ At("record")
  /\ IF "mp4record" \in Service /\ RecordNeedsEnsure THEN Run("mp4record", "ensure")
                                                     ELSE UNCHANGED vars
  /\ wpc' = "consumer"
  /\ UNCHANGED <<seen, sampled, specs, round>>

check_consumer_once ==
  /\ At("consumer")
  /\ wpc' = "done"
  /\ UNCHANGED <<vars, seen, sampled, specs, round>>

(* "Repair a lost queue consumer while ONVIF itself remains alive." *)
check_consumer ==
  /\ At("consumer")
  /\ IF "onvif" \in Service /\ SeenOne("onvif_notify_server") /\ ~SeenOne("ipc2file")
       THEN Run("onvif", "ensure") ELSE UNCHANGED vars
  /\ wpc' = "done"
  /\ UNCHANGED <<seen, sampled, specs, round>>

next_iteration_unwrapped ==
  /\ At("done")
  /\ wpc' = "sleep"
  /\ seen' = SeenNothing /\ sampled' = NoSample
  /\ round' = round + 1
  /\ UNCHANGED <<vars, specs>>

(* sleep; what was sampled is not used again. *)
next_iteration ==
  /\ At("done")
  /\ wpc' = "sleep"
  /\ seen' = SeenNothing /\ sampled' = NoSample
  /\ round' = (round + 1) % Period
  /\ UNCHANGED <<vars, specs>>

WdStep ==
  \/ refresh_process_state \/ refresh_config \/ check_rtsp \/ check_mqtt
  \/ check_local_services \/ check_record \/ check_consumer \/ next_iteration

-----------------------------------------------------------------------------
Spend == events > 0 /\ events' = events - 1

(* A start that takes more than five tries, as opposed to one that never   *)
(* becomes healthy.                                                        *)
SlowStart == AwaitTimeout /\ proc[Cached] \in {"starting", "overlap"}
FailedStart == AwaitTimeout /\ proc[Cached] \notin {"starting", "overlap"}

Environment ==
  \/ \E c \in Client \ {Wd}, cmd \in Asked : Call(c, cmd[1], cmd[2])
  \/ \E c \in Client : Killed(c)
  \/ StartFails \/ SlowStart
  \/ \E k \in Key : Toggle(k)
  \/ \E d \in RtspDaemon : SetAlt(d)
  \/ \E d \in Daemon : Die(d)
  \/ GrabberDies

(* Steps of service.sh that do not need an event. *)
Manager ==
  \/ \E c \in Client : Acquire(c) \/ GiveUp(c)
  \/ Working \/ FailedStart
  \/ \E d \in Daemon : Ready(d) \/ Reap(d)

WdNext ==
  \/ Spend /\ Environment /\ UNCHANGED wdvars
  \/ Spend /\ check_standard_rtsp_stall
  \/ Manager /\ UNCHANGED <<wdvars, events>>
  \/ WdStep /\ UNCHANGED events

WdSpec == WdInit /\ [][WdNext]_allvars

(* The loop runs forever, a shell that has the lock goes on, the lock is   *)
(* polled every second, a spawned daemon comes up and a killed one goes.   *)
WdFairness ==
  /\ WF_allvars(WdStep /\ UNCHANGED events)
  /\ WF_allvars((Working \/ FailedStart) /\ UNCHANGED <<wdvars, events>>)
  /\ \A c \in Client : WF_allvars(Acquire(c) /\ UNCHANGED <<wdvars, events>>)
  /\ \A d \in Daemon : WF_allvars((Ready(d) \/ Reap(d)) /\ UNCHANGED <<wdvars, events>>)

LiveSpec == WdSpec /\ WdFairness

-----------------------------------------------------------------------------
(* What the loop's own variables hold has its type. *)
WdTypeOK ==
  /\ wpc \in {"sleep", "sample", "rtsp", "mqtt", "local", "record", "consumer", "done"}
  /\ seen \in [Daemon -> ProcState]
  /\ sampled.rtspd \in RtspDaemon \cup {"none"}
  /\ sampled.flags \subseteq {"LISTEN", "SWITCH_ON", "MQTT"}
  /\ specs \in Seq(Service)
  /\ round \in 0..(Period - 1)
  /\ events \in 0..MaxEvents

(* The daemons of a service run once and answer.                           *)
Serving(s) ==
  CASE s = "rtsp" -> proc[rtspd] = "up" /\ \A d \in RtspDaemon \ {rtspd} : ~Live(d)
    [] s = "onvif" -> proc["onvif_notify_server"] = "up" /\ proc["ipc2file"] = "up"
    [] OTHER -> proc[service_daemon(s, "none")] = "up"

Settled == \A s \in Service : IF service_wanted(s) THEN Serving(s) ELSE ~Up(s)

(* After the last event, whatever commands, toggles, deaths and killed     *)
(* shells came before and however stale the samples and cached values they *)
(* left, every wanted service ends up running once, with the configured    *)
(* RTSP server and ONVIF's event consumer, every unwanted one is down, and *)
(* nothing restarts any more.                                              *)
Converges == <>[]Settled

(* Discovery is on only with ONVIF (service_enabled, service.sh:305), so   *)
(* in the end wsd_simple_server does not outlive the ONVIF toggle.         *)
DiscoveryFollowsOnvif == <>[](Live("wsd_simple_server") => service_enabled("wsdd"))
=============================================================================
