----------------------------- MODULE MCWatchdog -----------------------------
(* Instances of Watchdog for TLC. *)
EXTENDS Watchdog

CONSTANTS u, wd

Streaming == {"rtsp", "mp4record"}
StreamingKeys == {"RTSP", "RECORD", "SWITCH_ON"}
StreamingCommands ==
  {<<"rtsp", "start">>, <<"rtsp", "stop">>, <<"privacy", "on">>, <<"privacy", "off">>}
Events == {"onvif", "mqtt"}
EventKeys == {"ONVIF", "MQTT"}
EventCommands ==
  ({"onvif", "mqtt"} \X {"stop", "start"}) \cup {<<"onvif", "restart">>, <<"onvif", "recover">>}
Discovery == {"onvif", "wsdd"}
DiscoveryKeys == {"ONVIF", "ONVIF_WSDD"}
DiscoveryCommands == {<<"wsdd", "start">>}
Checks == Service \X {"ensure"}
StreamingAll == StreamingCommands \cup Checks \cup {<<"rtsp", "recover">>}
EventAll == EventCommands \cup Checks
DiscoveryAll == DiscoveryCommands \cup Checks
RtspOnly == {"rRTSPServer", "go2rtc"}
Notifier == {"onvif_notify_server"}
EventDaemons == {"onvif_notify_server", "mqttv4", "ipc2file"}
Nothing == {}
=============================================================================
