----------------------------- MODULE MqttConfig -----------------------------
(***************************************************************************)
(* mqtt-config: it keeps a connection to the broker, listens to its        *)
(* topics, and stores or carries out what is published there.  It is built *)
(* with libmosquitto (compile.mqtt-config) or with wolfMQTT.  The library, *)
(* the broker and the commands it runs are external.  ConfigStore is the   *)
(* writing of the file, in the same single thread.                         *)
(***************************************************************************)
EXTENDS ConfigStore, TLC

CONSTANTS
  Built,    \* the libraries of the build: "mosquitto", "wolf"
  Message   \* what is published: [form, file, key, value]

ASSUME MqttAssumption == Built \subseteq {"mosquitto", "wolf"}

VARIABLES
  library,     \* the one this daemon is built with
  at,          \* where the daemon is: a loop, or "gone"
  conn,        \* conn_state
  link,        \* the connection: "none", "open", "acked" by the broker
  subscribed,  \* the broker knows of the subscription on this connection
  run,         \* no SIGTERM so far
  broker       \* the broker accepts connections

netvars == <<library, at, conn, link, subscribed, run, broker>>
vars == <<storevars, netvars>>

Thread(l) == at = l /\ pc[Daemon] = "idle"
Session == <<link, subscribed>>
Unlinked == link' = "none" /\ subscribed' = FALSE

-----------------------------------------------------------------------------
(* config_params: the keys of each file, by the type of their values.      *)
Switch == [
  system |-> {"HTTPD", "TELNETD", "SSHD", "FTPD", "BUSYBOX_FTPD", "MDNSD", "DISABLE_CLOUD",
    "REC_WITHOUT_CLOUD", "DISABLE_MOTION_ANALYSIS", "MQTT", "RTSP", "SPEAKER_AUDIO", "SNAPSHOT",
    "SNAPSHOT_VIDEO", "SNAPSHOT_LOW", "TIMELAPSE", "TIMELAPSE_FTP", "TIMELAPSE_FTP_SAME_NAME",
    "ONVIF", "ONVIF_WSDD", "ONVIF_WM_SNAPSHOT", "ONVIF_ENABLE_MEDIA2", "ONVIF_FAULT_IF_UNKNOWN",
    "ONVIF_SYNOLOGY_NVR", "TIME_OSD", "NTPD", "PROXYCHAINSNG", "SWAP_FILE", "FTP_UPLOAD",
    "FTP_DIR_TREE", "FTP_FILE_DELETE_AFTER_UPLOAD", "DEBUG_LOG"},
  camera |-> {"SWITCH_ON", "SAVE_VIDEO_ON_MOTION", "MOTION_DETECTION", "AI_HUMAN_DETECTION",
    "AI_VEHICLE_DETECTION", "AI_ANIMAL_DETECTION", "FACE_DETECTION", "BABY_CRYING_DETECT", "LED",
    "ROTATE", "IR", "SOUND_DETECTION", "MOTION_TRACKING"},
  ptz |-> {}]
Number == [
  system |-> [RTSP_AUDIO_NR_LEVEL |-> 0 .. 30, TIMELAPSE_DT |-> 1 .. 1440, SWAP_SWAPPINESS |-> 0 .. 100,
    RTSP_PORT |-> 1 .. 65535, HTTPD_PORT |-> 1 .. 65535, FREE_SPACE |-> 0 .. 100],
  camera |-> [SOUND_SENSITIVITY |-> 30 .. 90],
  ptz |-> [GOTO_PRESET |-> 0 .. 7, REMOVE_PRESET |-> 0 .. 7]]
Choice == [
  system |-> [RTSP_ALT |-> {"standard", "alternative", "go2rtc"}, RTSP_STREAM |-> {"high", "low", "both"},
    RTSP_AUDIO |-> {"no", "pcm", "alaw", "ulaw", "aac"}, ONVIF_PROFILE |-> {"high", "low", "both"},
    ONVIF_AUDIO_BC |-> {"NONE", "G711", "AAC"}, EVENTS_TIME |-> {"autodetect", "local", "gmt"}],
  camera |-> [SENSITIVITY |-> {"low", "medium", "high"}, CRUISE |-> {"no", "presets", "360"}],
  ptz |-> [MOVE |-> {"right", "left", "down", "up", "stop"}]]
Text == [
  system |-> {"TIMELAPSE_VDT", "ONVIF_NETIF", "NTP_SERVER", "USERNAME", "PASSWORD", "TIMEZONE",
    "FTP_HOST", "FTP_DIR", "FTP_USERNAME", "FTP_PASSWORD", "SSH_PASSWORD", "CRONTAB", "STATIC_IP",
    "STATIC_MASK", "STATIC_GW", "STATIC_DNS1", "STATIC_DNS2"},
  camera |-> {}, ptz |-> {"ADD_PRESET", "SET_HOME_POSITION"}]

Files == DOMAIN Switch
Keys(file) == Switch[file] \cup DOMAIN Number[file] \cup DOMAIN Choice[file] \cup Text[file]

(* The first row that agrees with the key in its first nine letters: for   *)
(* some keys the row of another one.                                       *)
Row(key) ==
  CASE key = "RTSP_AUDIO_NR_LEVEL" -> "RTSP_AUDIO"
    [] key = "SNAPSHOT_LOW" -> "SNAPSHOT_VIDEO"
    [] key \in {"TIMELAPSE_FTP", "TIMELAPSE_FTP_SAME_NAME", "TIMELAPSE_DT", "TIMELAPSE_VDT"} ->
         "TIMELAPSE"
    [] key = "STATIC_DNS2" -> "STATIC_DNS1"
    [] OTHER -> key

(* A value is its text, what strtol reads of it, and whether it fits in    *)
(* the buffers.                                                            *)
Fits(file, key, value) ==
  \/ key \in Switch[file] /\ value.text \in {"yes", "no", "on", "off"}
  \/ key \in DOMAIN Number[file] /\ value.number \in Number[file][key]
  \/ key \in DOMAIN Choice[file] /\ value.text \in Choice[file][key]
  \/ key \in Text[file] /\ value.short

validate_param(file, key, value) ==
  file \in Files /\ Row(key) \in Keys(file) /\ Fits(file, Row(key), value)

(* What becomes of a message.  Only the keys of system.conf are stored,    *)
(* those of the camera and its motors are commands.                        *)
Result(m) ==
  CASE m.form \in {"foreign", "dump", "empty", "long"} -> "error"
    [] m.form = "set" ->
         IF ~validate_param(m.file, m.key, m.value) \/ m.key \notin Keys(m.file) THEN "nothing"
         ELSE IF m.file = "system" THEN "store" ELSE "command"

-----------------------------------------------------------------------------
Begins ==
  /\ at' = "connect" /\ conn' = "disconnected" /\ Unlinked /\ run' = TRUE

Start == at = "gone" /\ Begins /\ UNCHANGED <<storevars, library, broker>>

(* mosquitto_connect, again and again: SIGTERM is not looked at here.      *)
(* With wolfMQTT it is.                                                    *)
Connects ==
  /\ Thread("connect") /\ broker /\ (run \/ library = "mosquitto")
  /\ link' = "open" /\ subscribed' = FALSE
  /\ conn' = IF library = "mosquitto" THEN "connecting" ELSE "disconnected"
  /\ at' = IF library = "mosquitto" THEN "subscribe" ELSE "await"
  /\ UNCHANGED <<storevars, run, broker, library>>

NotConnected ==
  /\ Thread("connect") /\ library = "wolf" /\ ~run
  /\ at' = "gone" /\ DaemonEnds /\ UNCHANGED <<conn, Session, run, broker, library>>

(* The subscription is sent before the broker has answered (mosquitto), or *)
(* after (wolfMQTT).                                                       *)
Subscribes ==
  /\ Thread("subscribe") /\ link # "none"
  /\ subscribed' = TRUE /\ conn' = "connected"
  /\ at' = IF library = "mosquitto" THEN "await" ELSE "loop"
  /\ UNCHANGED <<storevars, link, run, broker, library>>

NotSubscribed ==
  /\ Thread("subscribe") /\ link = "none"
  /\ at' = IF library = "mosquitto" THEN "loop" ELSE "connect"
  /\ UNCHANGED <<storevars, conn, Session, run, broker, library>>

(* mqtt_connect returns when the callbacks have left it connected.         *)
Awaited(state) ==
  IF library = "wolf" THEN (IF state = "connected" THEN "subscribe" ELSE "connect")
  ELSE CASE state = "connected" -> "loop" [] state = "connecting" -> "await" [] OTHER -> "connect"

(* connect_callback                                                        *)
Acked ==
  /\ Thread("await") /\ link = "open"
  /\ link' = "acked" /\ at' = Awaited("connected")
  /\ conn' = IF library = "mosquitto" THEN "connected" ELSE conn
  /\ UNCHANGED <<storevars, subscribed, run, broker, library>>

Refused ==
  /\ Thread("await") /\ link = "open"
  /\ Elsewhere /\ Unlinked /\ conn' = "disconnected" /\ at' = "connect"
  /\ UNCHANGED <<run, broker, library>>

(* mosquitto_loop found nothing to read in its second: the answer to the   *)
(* connection comes in the main loop then.                                 *)
Quiet ==
  /\ Thread("await") /\ library = "mosquitto" /\ link = "open"
  /\ at' = Awaited(conn) /\ UNCHANGED <<storevars, conn, Session, run, broker, library>>

LateAck ==
  /\ Thread("loop") /\ link = "open" /\ link' = "acked" /\ conn' = "connected"
  /\ UNCHANGED <<storevars, at, subscribed, run, broker, library>>

(* disconnect_callback; with wolfMQTT the loop itself disconnects.         *)
Lost ==
  /\ pc[Daemon] = "idle" /\ link = "none" /\ Unlinked
  /\ \/ at = "await" /\ at' = "connect" /\ conn' = "disconnected"
     \/ at = "loop" /\ run /\ conn # "disconnected" /\ conn' = "disconnected"
        /\ at' = IF library = "wolf" THEN "connect" ELSE at
  /\ UNCHANGED <<storevars, run, broker, library>>

-----------------------------------------------------------------------------
(* main: mqtt_check_connection at the head of the loop.                    *)
ReconnectsOnly ==
  /\ Thread("loop") /\ run /\ library = "mosquitto" /\ conn # "connected" /\ broker
  /\ at' = "await" /\ conn' = "connecting" /\ link' = "open" /\ subscribed' = FALSE
  /\ UNCHANGED <<storevars, run, broker, library>>
ReconnectsNever == FALSE /\ UNCHANGED vars
Reconnects ==
  /\ Thread("loop") /\ run /\ library = "mosquitto" /\ conn # "connected"
  /\ at' = "connect" /\ conn' = "disconnected"
  /\ UNCHANGED <<storevars, Session, run, broker, library>>

Stops ==
  /\ Thread("loop") /\ ~run
  /\ at' = "gone" /\ Unlinked /\ DaemonEnds /\ UNCHANGED <<conn, run, broker, library>>

(* message_callback and mqtt_message_cb.  An error returned to wolfMQTT    *)
(* ends the connection.  The command of a parameter is copied into two     *)
(* bytes on the stack: it is carried out, or the daemon is gone.           *)
Receives(m) ==
  /\ at \in {"await", "loop"} /\ pc[Daemon] = "idle" /\ link = "acked" /\ subscribed
  /\ UNCHANGED <<run, broker, library>>
  /\ LET r == Result(m) IN
       \/ /\ r = "store" /\ Asks(Daemon, m.key :> m.value.text)
          /\ UNCHANGED <<at, conn, Session>>
       \/ /\ r = "error" /\ library = "wolf"
          /\ at' = "connect" /\ conn' = "disconnected" /\ Unlinked /\ UNCHANGED storevars
       \/ r = "command" /\ at' = "gone" /\ Unlinked /\ DaemonEnds /\ UNCHANGED conn
       \/ r # "store" /\ ~(r = "error" /\ library = "wolf") /\ UNCHANGED <<storevars, at, conn, Session>>

(* Change is what may be asked for, by a message as well as by the page.   *)
ASSUME StoredAssumption ==
  \A m \in Message : Result(m) = "store" => (m.key :> m.value.text) \in Change

-----------------------------------------------------------------------------
Terminated == run /\ at # "gone" /\ run' = FALSE /\ UNCHANGED <<storevars, at, conn, Session, broker, library>>

LinkDrops ==
  /\ link # "none" /\ Elsewhere /\ Unlinked /\ UNCHANGED <<at, conn, run, broker, library>>

BrokerStops ==
  /\ broker /\ Elsewhere /\ broker' = FALSE /\ Unlinked /\ UNCHANGED <<at, conn, run, library>>

BrokerStarts == ~broker /\ broker' = TRUE /\ UNCHANGED <<storevars, at, conn, Session, run, library>>

DaemonKilled == Killed(Daemon) /\ at' = "gone" /\ Unlinked /\ UNCHANGED <<conn, run, broker, library>>
Off == PowerFails /\ at' = "gone" /\ Unlinked /\ UNCHANGED <<conn, run, broker, library>>

Init ==
  /\ StoreInit /\ library \in Built /\ at = "gone" /\ conn = "disconnected"
  /\ link = "none" /\ subscribed = FALSE /\ run = TRUE /\ broker = TRUE

Network ==
  \/ Connects \/ NotConnected \/ Subscribes \/ NotSubscribed \/ Acked \/ Quiet \/ LateAck
  \/ Lost \/ Reconnects \/ Stops

Next ==
  \/ Start \/ Network \/ Refused \/ \E m \in Message : Receives(m)
  \/ Terminated \/ LinkDrops \/ BrokerStops \/ BrokerStarts \/ DaemonKilled \/ Off
  \/ UNCHANGED netvars /\ \/ \E w \in Writer : Step(w) \/ Fails(w)
                          \/ \E p \in Page : Killed(p) \/ \E c \in Change : Asks(p, c)
                          \/ CardPulled \/ CardBack

Spec == Init /\ [][Next]_vars /\ WF_vars(Network) /\ WF_vars(UNCHANGED netvars /\ Step(Daemon))

-----------------------------------------------------------------------------
(* A connected daemon that waits for messages has a subscription on this   *)
(* very connection: it is never up and deaf (mqtt_mosquitto.c 219-292,     *)
(* mqtt_wolf.c 410-488).                                                   *)
Listening == at = "loop" /\ conn = "connected" /\ link = "acked" /\ subscribed
NeverDeaf == at = "loop" /\ conn = "connected" /\ link # "none" => subscribed

(* However the connection was lost, the daemon listens again, as long as   *)
(* the broker is there and nobody has ended it.                            *)
ListensAgain == (at # "gone" /\ run) ~> (Listening \/ ~broker \/ ~run \/ at = "gone")

(* After any crash that left the lock, its pid and staged files behind,    *)
(* one while the lock was being recovered included, the next setting is    *)
(* stored, if the card is there and the pages are idle (config.c lines     *)
(* 53-80, 106-136).  Two places inside the lock code are excepted: a       *)
(* writer killed before its pid is in the directory or between the removal *)
(* of the two leaves a lock without a pid (config.c 105-107, 65, 137), one *)
(* killed before it has removed lock.d.recover leaves that (61-67), and    *)
(* every later setting is refused till the next start of the camera.       *)
Recoverable == ~recover /\ (dir = None \/ Gone(pid))
PagesIdle == \A p \in Page : pc[p] = "idle"
AfterCrash ==
  \A c \in {m.key :> m.value.text : m \in {n \in Message : Result(n) = "store"}} :
    (/\ pc[Daemon] = "mkdir" /\ change[Daemon] = c
     /\ sd /\ Recoverable /\ PagesIdle /\ faults = MaxFaults)
      ~> (conf = Over(Daemon, c, conf) \/ ~PagesIdle)
=============================================================================
