---------------------------- MODULE EventPipeline ----------------------------
(***************************************************************************)
(* The way of a detection event from rmm to the file ONVIF watches:        *)
(*   rmm --> dispatch's queue --> mq_receive of the preloaded              *)
(*   ipc_multiplex.so, which drops cloud packets and mirrors the others    *)
(*   into /ipc_dispatch_1 .. _9 --> ipc2file, which reads one mirror and   *)
(*   creates and removes the files of /tmp/onvif_notify_server,            *)
(* and the part of service.sh that starts and stops ipc2file.  dispatch,   *)
(* ipc2file, its timer threads and service.sh run concurrently; ipc2file   *)
(* may be killed at any step.                                              *)
(*                                                                         *)
(* `orphan', `latest' and `complete' are history variables that no guard   *)
(* reads.                                                                  *)
(***************************************************************************)
EXTENDS Integers, Sequences, FiniteSets

CONSTANTS
  Sent,       (* the packets rmm sends in this instance                    *)
  Mirror,     (* numbers of the mirror queues                              *)
  Consumed,   (* the mirror ipc2file reads (DEFAULT_QUEUE_NUMBER)          *)
  Capacity,   (* mq_maxmsg of each mirror (64)                             *)
  Pid,        (* process numbers for ipc2file                              *)
  None,       (* no packet, no alarm, no process                           *)
  InboxMax,   (* bound on packets waiting in dispatch's own queue          *)
  TimerMax    (* bound on sound events whose timer has not yet fired       *)

(* The packets of ipc2file.h: _c is the copy addressed to the cloud module *)
(* (MID2 to MID4), the others go to dispatch itself (MID2 to MID1).        *)
CloudEvent == {"motion_c", "body_c", "vehicle_c", "animal_c", "baby_c", "sound_c"}
Packet == CloudEvent \cup {"motion", "stop", "human", "other"}

Alarm == {"motion", "human", "vehicle", "animal", "baby"}
AlarmFile == Alarm \cup {"sound"}

parse_message(p) ==
  CASE p \in {"motion", "motion_c"} -> "motion"
    [] p \in {"human", "body_c"} -> "human"
    [] p = "vehicle_c" -> "vehicle"
    [] p = "animal_c" -> "animal"
    [] p = "baby_c" -> "baby"
    [] p = "sound_c" -> "sound"
    [] p = "stop" -> "stop"
    [] OTHER -> "unrecognized"

ASSUME PipelineConstants ==
  /\ Sent \subseteq Packet
  /\ Consumed \in Mirror /\ Mirror \subseteq 1..9
  /\ Capacity \in [Mirror -> Nat \ {0}]
  /\ None \notin Packet \cup Pid \cup AlarmFile
  /\ InboxMax \in Nat /\ TimerMax \in Nat

StartPC == {"check_pid", "create_pid", "open", "clear"}
LoopPC  == {"while", "mq_receive"}
PC == {"gone", "dying", "unlink"} \cup StartPC \cup LoopPC

VARIABLES
  env,       (* dispatch's environment: drop (..._DROP_CLOUD_EVENTS) and   *)
             (* queues (..._QUEUES, {} when unset), chosen by system.sh    *)
  inbox,     (* dispatch's own queue                                       *)
  hand,      (* the packet mq_receive is mirroring, or None                *)
  next,      (* the mirrors it has still to be sent to                     *)
  opened,    (* ipc_multiplex_initialize has created the mirrors           *)
  mirror,    (* content of each mirror: [pkt, old] records, old when it    *)
             (* was there before the last launch of ipc2file               *)
  pc,        (* the next system call of each ipc2file                      *)
  exiting,   (* processes whose exit_main is set                           *)
  last_alarm, (* of each ipc2file, None for -1                             *)
  timers,    (* its sound_stop_threads that have not fired                 *)
  pidfile,   (* content of the pid file, None without one                  *)
  files,     (* the alarm files that exist                                 *)
  service,   (* service.sh: its next step, and whether it is to launch     *)
  orphan,    (* history: files whose alarm the running ipc2file is not     *)
             (* going to end                                               *)
  latest,    (* history: the last alarm or stop put into Consumed since    *)
             (* ipc2file entered its loop                                  *)
  complete   (* history: nothing put there since then was lost             *)

dispatch == <<env, inbox, hand, next, opened>>
consumer == <<pc, exiting, last_alarm, timers>>
history  == <<orphan, latest, complete>>
vars == <<dispatch, mirror, consumer, pidfile, files, service, history>>

Message(p) == [pkt |-> p, old |-> FALSE]

-----------------------------------------------------------------------------
(* ipc_multiplex.c, in dispatch *)

(* configure_mirror_queues: unset means all. *)
enabled == IF env.queues = {} THEN Mirror ELSE env.queues \cap Mirror

is_cloud_event(p) == env.drop /\ p \in CloudEvent

(* A message that finds a mirror full is dropped for that mirror (EAGAIN). *)
CanSendBlocking(i) == Len(mirror[i]) < Capacity[i]
CanSend(i) == TRUE

ipc_multiplex_initialize ==
  /\ ~opened
  /\ opened' = TRUE
  /\ UNCHANGED <<env, inbox, hand, next, mirror, consumer, pidfile, files, service, history>>

rmm_send(p) ==
  /\ Len(inbox) < InboxMax
  /\ inbox' = Append(inbox, p)
  /\ UNCHANGED <<env, hand, next, opened, mirror, consumer, pidfile, files, service, history>>

(* original_mq_receive, and what is done with a cloud event. *)
mq_receive ==
  /\ opened /\ hand = None /\ inbox # <<>>
  /\ inbox' = Tail(inbox)
  /\ \/ is_cloud_event(Head(inbox)) /\ UNCHANGED <<hand, next>>
     \/ /\ ~is_cloud_event(Head(inbox))
        /\ hand' = Head(inbox) /\ next' = enabled
  /\ UNCHANGED <<env, opened, mirror, consumer, pidfile, files, service, history>>

(* One mq_send of the loop over the mirrors. *)
mq_send(i) ==
  /\ i \in next /\ \A j \in next : i <= j
  /\ CanSend(i)
  /\ next' = next \ {i}
  /\ LET a == parse_message(hand)
         full == Len(mirror[i]) = Capacity[i] IN
     /\ mirror' = IF full THEN mirror ELSE [mirror EXCEPT ![i] = Append(@, Message(hand))]
     /\ complete' = (complete /\ ~(i = Consumed /\ full))
     /\ latest' = IF ~complete' THEN None
                  ELSE IF i = Consumed /\ a \in Alarm \cup {"stop"} THEN a ELSE latest
  /\ UNCHANGED <<env, inbox, hand, opened, consumer, pidfile, files, service, orphan>>

mq_receive_return ==
  /\ hand # None /\ next = {}
  /\ hand' = None
  /\ UNCHANGED <<env, inbox, next, opened, mirror, consumer, pidfile, files, service, history>>

-----------------------------------------------------------------------------
(* ipc2file.c *)

Goto(p, l) == pc' = [pc EXCEPT ![p] = l]
Running(p) == pc[p] \notin {"gone", "dying"}
Listed == {p \in Pid : pc[p] # "gone"}

(* The process ends: its threads, its queue handle and its memory go.      *)
Vanish(p, l) ==
  /\ Goto(p, l)
  /\ exiting' = exiting \ {p}
  /\ last_alarm' = [last_alarm EXCEPT ![p] = None]
  /\ timers' = [timers EXCEPT ![p] = 0]
  /\ orphan' = orphan \cup files
  /\ complete' = FALSE /\ latest' = None

kill0Exists(q) == q # None
(* kill(pid, 0) of check_pid: a process that is being killed still exists. *)
kill0(q) == q # None /\ pc[q] # "gone"

check_pid(p) ==
  /\ pc[p] = "check_pid"
  /\ \/ kill0(pidfile) /\ Vanish(p, "gone")
     \/ ~kill0(pidfile) /\ Goto(p, "create_pid")
        /\ UNCHANGED <<exiting, last_alarm, timers, history>>
  /\ UNCHANGED <<dispatch, mirror, pidfile, files, service>>

create_pid(p) ==
  /\ pc[p] = "create_pid"
  /\ pidfile' = p
  /\ Goto(p, "open")
  /\ UNCHANGED <<dispatch, mirror, exiting, last_alarm, timers, files, service, history>>

(* Without the mirror, main exits and leaves the pid file. *)
open_queue(p) ==
  /\ pc[p] = "open"
  /\ \/ ~(opened /\ Consumed \in enabled) /\ Vanish(p, "gone")
     \/ opened /\ Consumed \in enabled /\ Goto(p, "clear")
        /\ UNCHANGED <<exiting, last_alarm, timers, history>>
  /\ UNCHANGED <<dispatch, mirror, pidfile, files, service>>

clear_queue_once(p) ==
  /\ pc[p] = "clear"
  /\ mirror' = [mirror EXCEPT ![Consumed] = IF @ = <<>> THEN @ ELSE Tail(@)]
  /\ Goto(p, "while") /\ complete' = TRUE /\ latest' = None
  /\ UNCHANGED <<dispatch, exiting, last_alarm, timers, pidfile, files, service, orphan>>

(* mq_getattr, and mq_receive while there are messages. *)
clear_queue(p) ==
  /\ pc[p] = "clear"
  /\ \/ /\ mirror[Consumed] # <<>>
        /\ mirror' = [mirror EXCEPT ![Consumed] = Tail(@)]
        /\ UNCHANGED <<pc, latest, complete>>
     \/ /\ mirror[Consumed] = <<>>
        /\ Goto(p, "while") /\ complete' = TRUE /\ latest' = None
        /\ UNCHANGED mirror
  /\ UNCHANGED <<dispatch, exiting, last_alarm, timers, pidfile, files, service, orphan>>

(* while(exit_main != 1) *)
main_loop(p) ==
  /\ pc[p] = "while"
  /\ Goto(p, IF p \in exiting THEN "unlink" ELSE "mq_receive")
  /\ UNCHANGED <<dispatch, mirror, exiting, last_alarm, timers, pidfile, files, service, history>>

(* process_event: a sound does not change last_alarm, and a stop ends the  *)
(* alarm in last_alarm.                                                    *)
SetsLastAlways(a) == a \in AlarmFile \cup {"stop"}
SetsLast(a) == a \in Alarm \cup {"stop"}
EndedMotion(p) == "motion"
Ended(p) == last_alarm[p]

(* process_event: the file that a creates or ends, and last_alarm. *)
process_event(p, a) ==
  LET mine == {last_alarm[p]} \cap files IN
  /\ files' = CASE a \in AlarmFile -> files \cup {a}
                [] a = "stop" -> files \ {Ended(p)}
                [] OTHER -> files
  /\ timers' = [timers EXCEPT ![p] = IF a = "sound" THEN @ + 1 ELSE @]
  /\ last_alarm' = [last_alarm EXCEPT ![p] = IF SetsLast(a) THEN a ELSE @]
  /\ orphan' = CASE a \in Alarm -> (orphan \cup mine) \ {a}
                 [] a = "stop" -> orphan \ mine
                 [] a = "sound" -> orphan \ {a}
                 [] OTHER -> orphan

(* mq_receive blocks on an empty mirror; signal() restarts it after the    *)
(* handler, so that SIGTERM does not end it.  Then parse_message, whose    *)
(* callback is process_event; the usleep that follows is time spent at     *)
(* "while".                                                                *)
receive(p) ==
  /\ pc[p] = "mq_receive"
  /\ mirror[Consumed] # <<>>
  /\ mirror' = [mirror EXCEPT ![Consumed] = Tail(@)]
  /\ process_event(p, parse_message(Head(mirror[Consumed]).pkt))
  /\ Goto(p, "while")
  /\ UNCHANGED <<dispatch, exiting, pidfile, service, latest, complete>>

(* ipc_stop, unlink(pid_file), return *)
terminate(p) ==
  /\ pc[p] = "unlink"
  /\ pidfile' = None
  /\ Vanish(p, "gone")
  /\ UNCHANGED <<dispatch, mirror, files, service>>

sound_stop_thread(p) ==
  /\ Running(p) /\ timers[p] > 0
  /\ timers' = [timers EXCEPT ![p] = @ - 1]
  /\ files' = files \ {"sound"}
  /\ orphan' = orphan \ {"sound"}
  /\ UNCHANGED <<dispatch, mirror, pc, exiting, last_alarm, pidfile, service, latest, complete>>

(* SIGKILL from the kernel or an administrator; the process is listed      *)
(* until the kernel has reaped it.                                         *)
Crash(p) ==
  /\ Running(p)
  /\ Vanish(p, "dying")
  /\ UNCHANGED <<dispatch, mirror, pidfile, files, service>>

Reaped(p) ==
  /\ pc[p] = "dying"
  /\ Goto(p, "gone")
  /\ UNCHANGED <<dispatch, mirror, exiting, last_alarm, timers, pidfile, files, service, history>>

-----------------------------------------------------------------------------
(* service.sh; its callers hold the service lock *)

Service(at, launch) == service' = [at |-> at, launch |-> launch]
Idle == [at |-> "idle", launch |-> FALSE]
ServiceOnly == UNCHANGED <<dispatch, mirror, consumer, pidfile, files, history>>

EnsureUnchecked ==
  /\ service = Idle /\ Service("launch", TRUE) /\ ServiceOnly

(* `[ "$(process_count ipc2file)" -eq 1 ] && return 0' *)
ensure_ipc ==
  /\ service = Idle /\ Cardinality(Listed) # 1
  /\ Service("term", TRUE) /\ ServiceOnly

release_ipc == service = Idle /\ Service("term", FALSE) /\ ServiceOnly

(* killall: SIGTERM runs signal_handler, no more. *)
Terminate ==
  /\ service.at = "term" /\ Service("wait", service.launch)
  /\ exiting' = exiting \cup {p \in Pid : Running(p)}
  /\ UNCHANGED <<dispatch, mirror, pc, last_alarm, timers, pidfile, files, history>>

(* The wait of stop_process ends, at once or after its three seconds, and  *)
(* whoever is still there gets SIGKILL.                                    *)
Kill ==
  /\ service.at = "wait"
  /\ service' = IF service.launch THEN [at |-> "launch", launch |-> TRUE] ELSE Idle
  /\ LET K == {p \in Pid : Running(p)} IN
     /\ pc' = [p \in Pid |-> IF p \in K THEN "dying" ELSE pc[p]]
     /\ exiting' = exiting \ K
     /\ last_alarm' = [p \in Pid |-> IF p \in K THEN None ELSE last_alarm[p]]
     /\ timers' = [p \in Pid |-> IF p \in K THEN 0 ELSE timers[p]]
     /\ orphan' = IF K = {} THEN orphan ELSE orphan \cup files
     /\ complete' = (complete /\ K = {})
     /\ latest' = IF K = {} THEN latest ELSE None
  /\ UNCHANGED <<dispatch, mirror, pidfile, files>>

(* `ipc2file': main forks twice, the child continues.  Process numbers a   *)
(* pid file names are not reused.                                          *)
Launch(p) ==
  /\ service.at = "launch" /\ pc[p] = "gone" /\ pidfile # p
  /\ Goto(p, "check_pid")
  /\ service' = Idle
  /\ mirror' = [i \in Mirror |-> [k \in 1..Len(mirror[i]) |-> [mirror[i][k] EXCEPT !.old = TRUE]]]
  /\ UNCHANGED <<dispatch, exiting, last_alarm, timers, pidfile, files, history>>

(* The shell that runs service.sh is killed. *)
ServiceKilled == service # Idle /\ service' = Idle /\ ServiceOnly

-----------------------------------------------------------------------------
(* system.sh starts dispatch with one of two environments: DISABLE_CLOUD   *)
(* or not.                                                                 *)
Init ==
  /\ env \in {[drop |-> FALSE, queues |-> {}], [drop |-> TRUE, queues |-> {2}]}
  /\ inbox = <<>> /\ hand = None /\ next = {} /\ opened = FALSE
  /\ mirror = [i \in Mirror |-> <<>>]
  /\ pc = [p \in Pid |-> "gone"] /\ exiting = {}
  /\ last_alarm = [p \in Pid |-> None]
  /\ timers = [p \in Pid |-> 0]
  /\ pidfile = None /\ files = {} /\ service = Idle
  /\ orphan = {} /\ latest = None /\ complete = FALSE

(* Sound packets and timers that have not fired. *)
PendingSound ==
  LET Sounds(s) == Cardinality({k \in DOMAIN s : s[k] = "sound_c"})
      Entries(s) == [k \in DOMAIN s |-> s[k].pkt] IN
  Sounds(inbox) + Sounds(<<hand>>) + Sounds(Entries(mirror[Consumed]))
    + Cardinality({p \in Pid : timers[p] > 0})

Rmm == \E p \in Sent : (p = "sound_c" => PendingSound < TimerMax) /\ rmm_send(p)

Dispatch ==
  ipc_multiplex_initialize \/ mq_receive \/ mq_receive_return \/ \E i \in Mirror : mq_send(i)

ipc2file(p) ==
  \/ check_pid(p) \/ create_pid(p) \/ open_queue(p) \/ clear_queue(p) \/ main_loop(p)
  \/ receive(p) \/ terminate(p)

StopAndLaunch == Terminate \/ Kill \/ \E p \in Pid : Launch(p)

Next ==
  \/ Rmm \/ Dispatch
  \/ \E p \in Pid : ipc2file(p) \/ sound_stop_thread(p) \/ Crash(p) \/ Reaped(p)
  \/ ensure_ipc \/ release_ipc \/ StopAndLaunch \/ ServiceKilled

(* Processes and threads are scheduled, the kernel reaps what it killed,   *)
(* and the watchdog calls ensure_ipc (through onvif ensure) again and      *)
(* again.                                                                  *)
Fairness ==
  /\ WF_vars(Dispatch)
  /\ \A p \in Pid : WF_vars(ipc2file(p)) /\ WF_vars(sound_stop_thread(p)) /\ WF_vars(Reaped(p))
  /\ WF_vars(ensure_ipc) /\ WF_vars(StopAndLaunch)

Spec == Init /\ [][Next]_vars /\ Fairness

-----------------------------------------------------------------------------
(* Every variable has its type; no mirror holds more than its capacity.    *)
TypeOK ==
  /\ env.drop \in BOOLEAN /\ env.queues \subseteq Mirror
  /\ inbox \in Seq(Sent) /\ Len(inbox) <= InboxMax
  /\ hand \in Sent \cup {None}
  /\ next \subseteq enabled /\ opened \in BOOLEAN
  /\ \A i \in Mirror : mirror[i] \in Seq([pkt : Sent, old : BOOLEAN])
                        /\ Len(mirror[i]) <= Capacity[i]
  /\ pc \in [Pid -> PC] /\ exiting \subseteq Pid
  /\ last_alarm \in [Pid -> Alarm \cup {"stop", None}]
  /\ timers \in [Pid -> 0..TimerMax]
  /\ pidfile \in Pid \cup {None} /\ files \subseteq AlarmFile
  /\ service.at \in {"idle", "term", "wait", "launch"}
  /\ orphan \subseteq files /\ latest \in Alarm \cup {"stop", None}
  /\ complete \in BOOLEAN

(* One ipc2file at a time reads the mirror and writes the files, although  *)
(* the check of its pid file and the writing of it are two steps, the pid  *)
(* file survives SIGKILL, and service.sh may be killed between its steps.  *)
OneConsumer ==
  \A p, q \in Pid : Running(p) /\ Running(q) => p = q

(* clear_queue leaves nothing behind: what the main loop receives was      *)
(* never in the mirror before the running ipc2file was launched.           *)
NoStaleEvent ==
  \A p \in Pid : pc[p] \in LoopPC =>
    \A k \in DOMAIN mirror[Consumed] : ~mirror[Consumed][k].old

Drained(p) == pc[p] \in LoopPC /\ mirror[Consumed] = <<>>

Timed == IF \E p \in Pid : timers[p] > 0 THEN {"sound"} ELSE {}

(* From dispatch to the files: whenever ipc2file has caught up and no      *)
(* message was lost on the way since it started, the alarm that dispatch   *)
(* received last, if it has not ended, has its file, and there is no other *)
(* file than that one, those of alarms left over from an earlier ipc2file  *)
(* or overtaken by a later alarm before their stop, and the sound file     *)
(* while a timer is going to remove it.                                    *)
FilesFollowDispatch ==
  \A p \in Pid : complete /\ Drained(p) =>
    /\ latest \in Alarm => latest \in files
    /\ files \subseteq orphan \cup {latest} \cup Timed

(* A full mirror, a slow, dead or restarting consumer, and the packets     *)
(* dropped are nothing to dispatch: it receives the packets that are not   *)
(* dropped, each once, in order and in the end.                            *)
Passes(p) == ~is_cloud_event(p)
Filtered == INSTANCE FilteredReceive WITH
  inbox <- (IF hand = None THEN <<>> ELSE <<hand>>) \o SelectSeq(inbox, Passes)
TransparentToDispatch == Filtered!Spec

(* An endless burst may keep ipc2file in clear_queue; one that a killed    *)
(* service.sh has only sent SIGTERM waits for its next message.            *)
Serving == \E p \in Pid : pc[p] \in {"clear"} \cup LoopPC

(* While ONVIF keeps asking for it, ipc2file comes back after every kill,  *)
(* with the pid file of its predecessor still there.                       *)
ConsumerReturns ==
  <>[][~(release_ipc \/ ServiceKilled \/ \E p \in Pid : Crash(p))]_vars => []<>Serving

(* "Consume confirmed cloud-only event packets" (ipc_multiplex.c:171): no  *)
(* packet that ipc2file would have turned into an alarm is dropped.        *)
OnlyCloudPacketsDropped ==
  [][inbox # <<>> /\ inbox' = Tail(inbox) /\ hand' = None
       => parse_message(Head(inbox)) = "unrecognized"]_vars
=============================================================================
