-------------------------- MODULE MCServiceManager --------------------------
(* Instances of ServiceManager for TLC. *)
EXTENDS ServiceManager, TLC

CONSTANTS c1, c2

Managed == {"rtsp", "mp4record", "onvif"}
ManagedKeys == {"RTSP", "RECORD", "SWITCH_ON", "ONVIF"}
StreamingCommands ==
  {<<"rtsp", "stop">>, <<"rtsp", "start">>, <<"privacy", "on">>, <<"privacy", "off">>}
OtherCommands ==
  {<<"all", "restart">>, <<"onvif", "recover">>}
Commands == StreamingCommands \cup OtherCommands
RtspOnly == {"rRTSPServer"}
Shells == Permutations(Client)

AskedOnly(cmds) ==
  \A c \in Client : call[c] = NoCall \/ <<call[c].name, call[c].action>> \in cmds

(* The streaming services and onvif share nothing but the lock: a           *)
(* behaviour is followed as long as it works on one side.  On the streaming *)
(* side the server stays enabled and the camera switch turns it off; on the *)
(* other side the streaming services are disabled.                          *)
StreamingSide ==
  /\ "RTSP" \in yes /\ "ONVIF" \notin yes /\ "onvif" \notin files
  /\ AskedOnly(StreamingCommands)
OnvifSide ==
  /\ yes \subseteq {"ONVIF"} /\ "privacy" \notin files /\ rtspd = "go2rtc"
  /\ \A d \in RtspDaemon \cup {"mp4record"} : proc[d] = "none"
  /\ AskedOnly(OtherCommands)
OneSide == StreamingSide \/ OnvifSide
=============================================================================
