----------------------------- MODULE IpcCommand -----------------------------
(***************************************************************************)
(* ipc_cmd: one run of the program.  The options are parsed into one value *)
(* per letter, the last one counting; then the messages are sent in the    *)
(* order of the program text, whatever the order of the options.  Plan     *)
(* gives what a run does after it has opened /ipc_dispatch, step by step.  *)
(* Angles are whole degrees; the driver counts in ticks.                   *)
(***************************************************************************)
EXTENDS Integers, Sequences, SequencesExt

CONSTANT TopPreset     \* the last preset number, 7 in the program

PresetConstants == TopPreset \in Nat

Slot == 0 .. TopPreset
All == 255        \* what -R all stands for

-----------------------------------------------------------------------------
(* The words an option takes.  With any other word the run ends with the   *)
(* usage, before a queue is opened; a crying detection's is ignored.       *)
OnOff == {"off", "no", "on", "yes"}
SettingOptions ==
  {"t", "s", "l", "v", "i", "r", "1", "a", "E", "N", "O", "c", "o", "I", "b", "B", "n"}

SettingTakes(o, w) ==
  CASE o = "s" -> w \in {"low", "medium", "high"}
    [] o = "v" -> w \in OnOff \cup {"always", "detect"}
    [] o = "n" -> w \in {"30", "35", "40", "45", "50", "60", "70", "80", "90"}
    [] o \in {"1", "B"} -> TRUE
    [] OTHER   -> w \in OnOff

Directions == {"left", "right", "up", "down", "stop"}
Opposite(d) ==
  CASE d = "left" -> "right" [] d = "right" -> "left"
    [] d = "up" -> "down" [] d = "down" -> "up" [] OTHER -> d

NumberTakes(o, n) ==
  CASE o = "R" -> n \in Slot \cup {All} [] o = "S" -> n \in 1 .. 300 [] o = "p" -> n \in Int

AnglesTake(o, a) ==
  LET angles(most) == (IF o = "j" THEN 0 ELSE -most) .. most
  IN a.x \in angles(360) /\ a.y \in angles(180)

Takes(o, w) ==
  CASE o \in SettingOptions -> SettingTakes(o, w)
    [] o \in {"m", "M"}      -> w \in Directions
    [] o \in {"p", "R", "S"} -> NumberTakes(o, w)
    [] o \in {"j", "J"}      -> AnglesTake(o, w)
    [] o = "C"               -> w \in OnOff \cup {"presets", "360"}
    [] OTHER                 -> TRUE

Value(o, w) ==
  CASE o = "M" -> Opposite(w)
    [] o \in SettingOptions \cup {"C"} ->
         IF w \in {"no", "always"} THEN "off" ELSE IF w \in {"yes", "detect"} THEN "on" ELSE w
    [] OTHER -> w

(* What an option sets: -j and -J share the angles, -M is -m reversed.     *)
Sets(o) ==
  CASE o = "M" -> {"m"} [] o = "j" -> {"j", "xy"} [] o = "J" -> {"J", "xy"} [] OTHER -> {o}

Refused(args) == \E i \in DOMAIN args : ~Takes(args[i].opt, args[i].word)

Counts(a, o) == o \in Sets(a.opt) /\ (a.opt = "B" => a.word \in OnOff)

Parse(args) ==
  LET setting(o) == {i \in DOMAIN args : Counts(args[i], o)}
      given == {o \in UNION {Sets(args[i].opt) : i \in DOMAIN args} : setting(o) # {}}
  IN [o \in given |-> LET a == args[Max(setting(o))] IN Value(a.opt, a.word)]

-----------------------------------------------------------------------------
(* The messages, in the order they are sent.                               *)
Send(kind, arg) == <<[do |-> "send", msg |-> [kind |-> kind, arg |-> arg]]>>
Do(what) == <<[do |-> what]>>
Given(v, o) == o \in DOMAIN v
When(c, steps) == IF c THEN steps ELSE <<>>

Set(v, o) == When(Given(v, o), Send("set", <<o, v[o]>>))

Settings(v) ==
  Set(v, "t") \o Set(v, "s") \o Set(v, "l") \o Set(v, "v") \o Set(v, "i") \o Set(v, "r")
    \o Set(v, "1") \o Set(v, "a") \o Set(v, "E") \o Set(v, "N") \o Set(v, "O") \o Set(v, "c")
    \o Set(v, "o") \o Set(v, "I") \o Set(v, "b") \o Set(v, "B") \o Set(v, "n")

Move(v, model) ==
  LET turned == \/ model = "v2"
                \/ model = "v2alt" /\ v["m"] \in {"left", "right"}
  IN When(Given(v, "m"), Send("move", IF turned THEN Opposite(v["m"]) ELSE v["m"]))

MAX_PTZ_X == 4100
MAX_PTZ_Y == 1250

Round(n, d) ==
  IF n >= 0 THEN (2 * n + d) \div (2 * d) ELSE -((2 * (-n) + d) \div (2 * d))

TurnedPlain(model, y) == y
Turned(model, y) == IF model = "v2alt" THEN 180 - y ELSE y

(* What the jump message asks for, in hundredths of the camera's view,     *)
(* from the ticks the driver reported.                                     *)
JumpTo(model, a, cur) ==
  [x |-> Round(100 * (Round(a.x * MAX_PTZ_X, 360) - cur.x) + 50 * 911, 911),
   y |-> Round(100 * (Round(Turned(model, a.y) * MAX_PTZ_Y, 180) - cur.y) + 50 * 694, 694)]

(* After a -j of the same run the angle is already turned.                 *)
JumpBy(model, v) ==
  LET given == IF Given(v, "j") THEN Turned(model, v["xy"].y) ELSE v["xy"].y
      y == IF model = "v2alt" THEN -given ELSE given
  IN [x |-> Round(100 * Round(v["xy"].x * MAX_PTZ_X, 360) + 50 * 911, 911),
      y |-> Round(100 * Round(y * MAX_PTZ_Y, 180) + 50 * 694, 694)]

(* What -g prints, times the driver's range.                               *)
Reported(model, cur) ==
  [x |-> cur.x * 360,
   y |-> IF model = "v2alt" THEN 180 * MAX_PTZ_Y - cur.y * 180 ELSE cur.y * 180]

Jumps(v) ==
  When(Given(v, "j"), Do("read") \o Do("jump to")) \o When(Given(v, "J"), Do("read") \o Do("jump by"))

Presets(v) ==
  When(Given(v, "p") /\ v["p"] # -1, Send("goto", v["p"] % 256))
    \o When(Given(v, "P"), Send("add", "preset"))
    \o When(Given(v, "g"), Do("read"))
    \o When(Given(v, "u"), Do("read"))
    \o When(Given(v, "H"), Send("remove", 0) \o Do("sleep") \o Send("add", "preset"))

RemovePresetShort(v) ==
  When(Given(v, "R"),
       IF v["R"] = All THEN [i \in 1 .. TopPreset |-> Send("remove", i - 1)[1]]
       ELSE Send("remove", v["R"]))

RemovePreset(v) ==
  When(Given(v, "R"),
       IF v["R"] = All THEN [i \in 1 .. TopPreset + 1 |-> Send("remove", i - 1)[1]]
       ELSE Send("remove", v["R"]))

Cruise(v) ==
  When(Given(v, "C"),
       IF v["C"] \in {"on", "off"} THEN Send("cruise", v["C"])
       ELSE Send("cruise", "on") \o Do("sleep") \o Send("cruise", v["C"]))

MotionKept(v) ==
  When(Given(v, "S"), Send("motion", "start") \o Do("fork") \o Do("sleep"))

(* -S leaves a daemon behind that ends the event and then goes on with the *)
(* options that follow in the program text.                                *)
Motion(v) ==
  When(Given(v, "S"),
       Send("motion", "start") \o Do("fork") \o Do("sleep") \o Send("motion", "stop"))
    \o When(Given(v, "T"), Send("motion", "stop"))

(* -w goes to the other queue and ends the run: a -x is never sent then.   *)
Ending(v) ==
  IF Given(v, "w") THEN Do("worker") ELSE When(Given(v, "x"), Send("time", "now"))

Plan(v, model) ==
  Settings(v) \o Move(v, model) \o Jumps(v) \o Presets(v) \o RemovePreset(v) \o Cruise(v)
    \o When(Given(v, "f"), Do("file")) \o Motion(v) \o Ending(v)
=============================================================================
