--------------------------- MODULE MCEventPipeline ---------------------------
(* Instances of EventPipeline for TLC.                                      *)
EXTENDS EventPipeline, TLC

CONSTANTS p1, p2

(* Mirror 1 has no reader: it stays full once one message is in it. *)
Two == 2 :> 2
Single == (1 :> 1) @@ (2 :> 1)
Packets == {"motion", "stop", "vehicle_c", "sound_c"}
TwoPackets == {"other", "vehicle_c"}
Pids == Permutations(Pid)
=============================================================================
