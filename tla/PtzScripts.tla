----------------------------- MODULE PtzScripts -----------------------------
(***************************************************************************)
(* The jobs of ptz_presets.sh, ptz.sh and other callers of ipc_cmd, in     *)
(* their order: edits of ptz_presets.conf and runs of the program.  A job  *)
(* that must succeed ends the script when it fails.                        *)
(***************************************************************************)
EXTENDS Sequences, Functions

Run(args) == [job |-> "run", args |-> args, must |-> FALSE]
Ask == [job |-> "run", args |-> <<[opt |-> "g", word |-> "on"]>>, must |-> TRUE]
Edit(kind, num, name) == [job |-> "edit", kind |-> kind, num |-> num, name |-> name]
Opt(o, w) == [opt |-> o, word |-> w]

IsSeq(s) == s \in Seq(Range(s))
IsScript(op) == IsSeq(op) /\ \A i \in DOMAIN op : op[i].job = "run" => IsSeq(op[i].args)

(* The name is not quoted: without one, the position stands in its place   *)
(* in the file, and -P has no word and sets nothing.                       *)
Called(name) == IF name = <<>> THEN <<"position">> ELSE name
NameGiven(name) == IF name = <<>> THEN <<>> ELSE <<Opt("P", "name")>>

AddPreset(name) == <<Ask, Edit("add", 0, Called(name)), Run(NameGiven(name))>>
SetPreset(num, name) == <<Ask, Edit("edit", num, Called(name)), Run(NameGiven(name))>>
DelPreset(num) == <<Edit("del", num, <<>>), Run(<<Opt("R", num)>>)>>
SetHome == <<Edit("del", 0, <<>>), Edit("home", 0, <<"Home">>), Run(<<Opt("H", "on")>>)>>
StepMove(d) == <<Run(<<Opt("m", d)>>), Run(<<Opt("m", "stop")>>)>>
=============================================================================
