-------------------------- MODULE MCRemoteControl --------------------------
(***************************************************************************)
(* The two ways to control the camera from outside the web pages: the      *)
(* mqtt-config daemon (MqttConfig), and the scripts around ipc_cmd         *)
(* (PtzPresets).  Their files and queues are disjoint, so TLC looks at one *)
(* of them at a time: `part' is chosen in the initial state, and the state *)
(* spaces add up instead of multiplying.  So do those of the daemon with   *)
(* its broker and one page beside it, and of the store alone with all its  *)
(* writers.                                                                *)
(***************************************************************************)
EXTENDS MqttConfig, PtzScripts

CONSTANTS Caller, Ops, Spots, Model, TopPreset, MaxOps, QueueMax  \* of PtzPresets
CONSTANTS
  Beside,   \* the pages at work beside the daemon and its broker
  MaxAsks   \* bound: requests to store something

VARIABLES
  part, asks,
  p_model, p_script, p_run, p_queue, p_file, p_presets, p_pos, p_moving,
  p_recording, p_ops, p_apart, p_failed, p_target

-----------------------------------------------------------------------------
(* mqtt-config: a switch, a key the file does not have at first and that   *)
(* the page adds together with its mirror, a value out of range, a command *)
(* and a request to publish a file.                                        *)
MCInitial == [HTTPD |-> "yes"]
MCChange == {"HTTPD" :> "no", "ONVIF_AUDIO_BC" :> "AAC"}
Value(t, n) == [text |-> t, number |-> n, short |-> TRUE]
Set(f, k, t, n) == [form |-> "set", file |-> f, key |-> k, value |-> Value(t, n)]
MCMessage ==
  {Set("system", "HTTPD", "no", -1), Set("system", "TIMELAPSE_DT", "60", 60),
   Set("ptz", "GOTO_PRESET", "3", 3),
   [form |-> "dump", file |-> "camera", key |-> None, value |-> None]}

-----------------------------------------------------------------------------
(* The scripts. *)
One(o, w) == <<Run(<<Opt(o, w)>>)>>
AllPresets == 255
ManyOptions ==
  <<Run(<<Opt("x", "on"), Opt("f", "f"), Opt("t", "yes"), Opt("w", "on"),
          Opt("C", "360"), Opt("M", "up"), Opt("J", [x |-> -90, y |-> 30])>>)>>
MCOps ==
  {AddPreset(<<"a">>), AddPreset(<<>>), DelPreset(AllPresets), SetHome,
   StepMove("left"), One("S", 5), One("R", 9), ManyOptions, One("j", [x |-> 300, y |-> 45])}
Near == [x |-> 2050, y |-> 625]
MCSpots == {Near, [x |-> 1000, y |-> 100]}

Ptz == INSTANCE PtzPresets WITH
  model <- p_model, script <- p_script, run <- p_run, queue <- p_queue,
  file <- p_file, presets <- p_presets, pos <- p_pos, moving <- p_moving,
  recording <- p_recording, ops <- p_ops, apart <- p_apart,
  failed <- p_failed, target <- p_target

ASSUME ScriptsAssumption == Ptz!CallerConstants
ASSUME PresetsAssumption == \A op \in Ops : Ptz!PresetScript(op)

ptzVars ==
  <<p_model, p_script, p_run, p_queue, p_file, p_presets, p_pos, p_moving,
    p_recording, p_ops, p_apart, p_failed, p_target>>
allVars == <<part, asks, vars, ptzVars>>

-----------------------------------------------------------------------------
ControlInit ==
  /\ part \in {"mqtt-config", "store", "scripts"} /\ asks = 0
  /\ Init /\ Ptz!Init
  /\ faults = IF part = "mqtt-config" THEN 0 ELSE MaxFaults - 1
  /\ p_pos = Near     \* a movement takes the camera to the other spot
  /\ part # "mqtt-config" => library = CHOOSE l \in Built : TRUE
  /\ part # "scripts" => /\ p_model = "mstar"
                        /\ \A s \in 0 .. TopPreset : p_presets[s] = None

NewRequest == \E w \in Writer : pc[w] = "idle" /\ pc'[w] # "idle"
Other ==
  /\ UNCHANGED part
  /\ part = "scripts" => UNCHANGED vars
  /\ part = "store" => UNCHANGED netvars
  /\ part = "mqtt-config" => \A p \in Page \ Beside : pc'[p] = "idle"
  /\ part # "scripts" => UNCHANGED ptzVars
  /\ asks' = asks + (IF NewRequest THEN 1 ELSE 0) /\ asks' <= MaxAsks

ControlNext ==
  \/ part = "mqtt-config" /\ Next /\ Other
  \/ part = "store" /\ Writes /\ Other
  \/ part = "scripts" /\ Ptz!Next /\ Other

(* The fairness of MqttConfig and of PtzPresets, for the one that runs. *)
ControlSpec ==
  /\ ControlInit /\ [][ControlNext]_allVars
  /\ WF_allVars(part = "mqtt-config" /\ Network /\ Other)
  /\ WF_allVars(part \in {"mqtt-config", "store"} /\ UNCHANGED netvars /\ Step(Daemon) /\ Other)
  /\ WF_allVars(part = "scripts" /\ Ptz!Dispatch /\ Other)
  /\ \A p \in Ptz!Proc : WF_allVars(part = "scripts" /\ Ptz!Command(p) /\ Other)

-----------------------------------------------------------------------------
(* The table of the script and that of the camera agree when everything    *)
(* has been carried out.                                                   *)
TablesAgree == Ptz!TablesAgree

(* A jump ends within a degree of where it was asked to.                   *)
JumpLands == Ptz!JumpLands

(* A recording begun by ipc_cmd -S ends, unless its fork failed.           *)
MotionEnds == Ptz!MotionEnds
=============================================================================
