----------------------------- MODULE PtzPresets -----------------------------
(***************************************************************************)
(* ptz_presets.sh, ptz.sh and other callers of ipc_cmd, the dispatch queue *)
(* and the camera behind it.  The script keeps a table of presets in a     *)
(* file; the camera keeps its own, which only messages change and nothing  *)
(* reads back.  The camera's part is external.                             *)
(***************************************************************************)
EXTENDS IpcCommand, PtzScripts, FiniteSets

CONSTANTS
  Caller,      \* shells that run the scripts
  Ops,         \* what they do: sequences of jobs
  MaxOps,      \* bound: operations begun
  QueueMax,    \* messages the dispatch queue holds
  Spots,       \* where the camera may be when a movement is stopped
  Model,       \* of "mstar", "v2" and "v2alt"
  None

CallerConstants ==
  /\ PresetConstants
  /\ MaxOps \in Nat /\ QueueMax \in Nat \ {0}
  /\ Spots # {} /\ Spots \subseteq [x : 0 .. MAX_PTZ_X, y : 0 .. MAX_PTZ_Y]
  /\ \A op \in Ops : IsScript(op)
  /\ Model \subseteq {"mstar", "v2", "v2alt"}
  /\ None \notin [x : 0 .. MAX_PTZ_X, y : 0 .. MAX_PTZ_Y]

(* The presets are left to ptz_presets.sh: no other caller sends a -P, -H  *)
(* or -R that is accepted.                                                 *)
Spares(op) ==
  \A i \in DOMAIN op :
    op[i].job = "run" /\ (Refused(op[i].args) \/ \A j \in DOMAIN op[i].args : op[i].args[j].opt \notin {"P", "H", "R"})
Named(job) == job.job = "edit" /\ job.name \notin {<<>>, <<"absent">>}
PresetScript(op) ==
  \/ /\ Len(op) = 3 /\ Named(op[2])
     /\ op \in {AddPreset(op[2].name), AddPreset(<<>>),
                SetPreset(op[2].num, op[2].name), SetPreset(op[2].num, <<>>), SetHome}
  \/ Len(op) = 2 /\ op[1].job = "edit" /\ op = DelPreset(op[1].num)
  \/ Spares(op)

Proc == Caller \X {"command", "timer"}
Fore(u) == <<u, "command">>
Timer(u) == <<u, "timer">>

VARIABLES
  model,
  script,    \* of each caller: the jobs it still has to do
  run,       \* of each process: whether it runs, with which options, the
             \* steps left, the ticks read
  queue,     \* /ipc_dispatch
  file,      \* the lines of ptz_presets.conf: a name, <<>> or <<"absent">>
  presets,   \* the camera's presets: ticks or None
  pos, moving, recording,   \* the camera
  ops,       \* operations begun
  apart,     \* history: a table may rightly differ, see Begin and Failed
  failed,    \* history: the fork of a -S has failed
  target     \* history: the angles the last undisturbed -j asked for, or None

camera == <<presets, pos, moving, recording>>
vars == <<model, script, run, queue, file, camera, ops, apart, failed, target>>

Idle == [on |-> FALSE, v |-> None, todo |-> <<>>, cur |-> None]
Quiet == queue = <<>> /\ \A u \in Caller : script[u] = <<>>

-----------------------------------------------------------------------------
(* A script begins. *)
Moves(op) ==
  \E i \in DOMAIN op : op[i].job = "run" /\ \E a \in Range(op[i].args) : a.opt \in {"m", "M", "j", "J", "p"}
Jump(op) ==
  /\ Len(op) = 1 /\ op[1].job = "run" /\ Len(op[1].args) = 1
  /\ op[1].args[1].opt = "j" /\ ~Refused(op[1].args)

(* A table may differ when two scripts overlap, for a preset added at a    *)
(* number of the caller's choice, for one a user calls Home, and for one   *)
(* without a name, of which the camera is told nothing.                    *)
Begin(u, op) ==
  /\ script[u] = <<>> /\ ops < MaxOps
  /\ script' = [script EXCEPT ![u] = op] /\ ops' = ops + 1
  /\ apart' = \/ apart
              \/ \E w \in Caller : script[w] # <<>>
              \/ op = AddPreset(<<>>)
              \/ \E i \in DOMAIN op : /\ op[i].job = "edit"
                                      /\ \/ op[i].kind = "edit"
                                         \/ op[i].kind = "add" /\ op[i].name = <<"Home">>
  /\ target' = IF Jump(op) /\ Quiet /\ moving = "stop" THEN op[1].args[1].word
               ELSE IF Moves(op) THEN None ELSE target
  /\ UNCHANGED <<model, run, queue, file, camera, failed>>

-----------------------------------------------------------------------------
(* edit_preset: the file is read, then written line by line.               *)
FirstAvail == {s \in Slot : file[s] = <<>>}
Kept(s) == IF file[s] = <<"absent">> THEN <<>> ELSE file[s]

Edited(kind, num, name) ==
  LET chosen(s) == CASE kind = "del"  -> num \in {s, All}
                     [] kind = "edit" -> s = num
                     [] OTHER -> s \in FirstAvail /\ \A f \in FirstAvail : s <= f
  IN [s \in Slot |-> IF chosen(s) THEN name ELSE Kept(s)]

Rejected(job) ==
  /\ job.kind \in {"add", "home"}
  /\ FirstAvail = {} \/ \E s \in Slot : file[s] = job.name

WriteJobs(table) == [i \in 1 .. TopPreset + 1 |-> [job |-> "write", slot |-> i - 1, name |-> table[i - 1]]]

EditPreset(u) ==
  /\ script[u] # <<>> /\ Head(script[u]).job = "edit"
  /\ LET job == Head(script[u])
     IN script' = [script EXCEPT ![u] =
                     IF ~Rejected(job) THEN WriteJobs(Edited(job.kind, job.num, job.name)) \o Tail(@)
                     ELSE IF job.kind = "home" THEN Tail(@) ELSE <<>>]
  /\ UNCHANGED <<model, run, queue, file, camera, ops, apart, failed, target>>

WriteLine(u) ==
  /\ script[u] # <<>> /\ Head(script[u]).job = "write"
  /\ LET job == Head(script[u])
     IN file' = [s \in Slot |-> IF s = job.slot THEN job.name
                                ELSE IF job.slot = 0 THEN <<"absent">> ELSE file[s]]
  /\ script' = [script EXCEPT ![u] = Tail(@)]
  /\ UNCHANGED <<model, run, queue, camera, ops, apart, failed, target>>

-----------------------------------------------------------------------------
(* ipc_cmd.  A run that fails leaves what follows undone.                  *)
At(p, what) == run[p].on /\ run[p].todo # <<>> /\ Head(run[p].todo).do = what
Leave(p, rest) == script' = [script EXCEPT ![p[1]] = IF p[2] = "timer" THEN @ ELSE rest]

Failed(p) ==
  /\ run' = [run EXCEPT ![p] = Idle]
  /\ LET s == script[p[1]] IN Leave(p, IF s # <<>> /\ Head(s).must THEN <<>> ELSE Tail(s))
  /\ apart' = TRUE /\ target' = None /\ UNCHANGED queue
  /\ failed' = (failed \/ At(p, "fork"))

Open(u) ==
  /\ script[u] # <<>> /\ Head(script[u]).job = "run" /\ ~run[Fore(u)].on
  /\ LET args == Head(script[u]).args
     IN IF Refused(args)
        THEN /\ script' = [script EXCEPT ![u] = Tail(@)]
             /\ UNCHANGED <<run, queue, apart, failed, target>>
        ELSE \/ /\ run' = [run EXCEPT ![Fore(u)] =
                             [on |-> TRUE, v |-> Parse(args), todo |-> Plan(Parse(args), model), cur |-> None]]
                /\ UNCHANGED <<script, queue, apart, failed, target>>
             \/ Failed(Fore(u))
  /\ UNCHANGED <<model, file, camera, ops>>

Done(p) == run' = [run EXCEPT ![p].todo = Tail(@)] /\ UNCHANGED script
Put(p, msg) == Len(queue) < QueueMax /\ queue' = Append(queue, msg) /\ Done(p)

Sending(p) ==
  /\ \/ At(p, "send") /\ Put(p, Head(run[p].todo).msg)
     \/ At(p, "jump to") /\ Put(p, [kind |-> "jump", arg |-> JumpTo(model, run[p].v["xy"], run[p].cur)])
     \/ At(p, "jump by") /\ Put(p, [kind |-> "jump", arg |-> JumpBy(model, run[p].v)])
     \/ At(p, "file") /\ Put(p, [kind |-> "file", arg |-> "content"])
  /\ UNCHANGED <<apart, failed, target>>

Sleep(p) == At(p, "sleep") /\ Done(p) /\ UNCHANGED <<queue, apart, failed, target>>

Read(p) ==
  /\ At(p, "read")
  /\ \/ /\ run' = [run EXCEPT ![p].cur = pos, ![p].todo = Tail(@)]
        /\ UNCHANGED <<script, queue, apart, failed, target>>
     \/ Failed(p)

NoFile(p) == At(p, "file") /\ Failed(p)

(* One timer for each caller, a bound of the model.                        *)
Fork(p) ==
  /\ At(p, "fork") /\ ~run[Timer(p[1])].on
  /\ \/ /\ run' = [run EXCEPT ![p] = Idle, ![Timer(p[1])] = [run[p] EXCEPT !.todo = Tail(@)]]
        /\ Leave(p, Tail(script[p[1]]))
        /\ UNCHANGED <<queue, apart, failed, target>>
     \/ Failed(p)

(* The other queue, which nothing else here uses.                          *)
Worker(p) ==
  /\ At(p, "worker")
  /\ Done(p) /\ UNCHANGED <<queue, apart, failed, target>>

Exit(p) ==
  /\ run[p].on /\ run[p].todo = <<>>
  /\ run' = [run EXCEPT ![p] = Idle] /\ Leave(p, Tail(script[p[1]]))
  /\ UNCHANGED <<queue, apart, failed, target>>

Command(p) ==
  /\ Sending(p) \/ Sleep(p) \/ Read(p) \/ NoFile(p) \/ Fork(p) \/ Worker(p) \/ Exit(p)
  /\ UNCHANGED <<model, file, camera, ops>>

-----------------------------------------------------------------------------
(* The camera, as the scripts use it: the first free preset is taken, a    *)
(* jump moves it by hundredths of its view, 911 ticks wide and 694 high.   *)
Clamp(n, top) == IF n \in 0 .. top THEN n ELSE IF n < 0 THEN 0 ELSE top
Landed(cur, to) ==
  [x |-> Clamp(cur.x + Round((to.x - 50) * 911, 100), MAX_PTZ_X),
   y |-> Clamp(cur.y + Round((to.y - 50) * 694, 100), MAX_PTZ_Y)]

Free == {s \in Slot : presets[s] = None}

Dispatch ==
  /\ queue # <<>> /\ queue' = Tail(queue)
  /\ LET m == Head(queue)
     IN /\ presets' = [s \in Slot |->
             IF m.kind = "add" /\ s \in Free /\ \A f \in Free : s <= f THEN pos
             ELSE IF m.kind = "remove" /\ m.arg = s THEN None ELSE presets[s]]
        /\ moving' = IF m.kind = "move" THEN m.arg ELSE moving
        /\ recording' = IF m.kind = "motion" THEN m.arg = "start" ELSE recording
        /\ CASE m.kind = "jump" -> pos' = Landed(pos, m.arg)
             [] m.kind = "goto" /\ m.arg \in Slot -> pos' = IF presets[m.arg] # None THEN presets[m.arg] ELSE pos
             [] m.kind = "move" /\ moving # "stop" -> pos' \in Spots
             [] OTHER -> pos' = pos
  /\ UNCHANGED <<model, script, run, file, ops, apart, failed, target>>

-----------------------------------------------------------------------------
Init ==
  /\ model \in Model
  /\ script = [u \in Caller |-> <<>>] /\ run = [p \in Proc |-> Idle] /\ queue = <<>>
  /\ pos \in Spots
  /\ \E taken \in SUBSET Slot :
       /\ file = [s \in Slot |-> IF s \in taken THEN <<"old", s>> ELSE <<>>]
       /\ presets = [s \in Slot |-> IF s \in taken THEN pos ELSE None]
  /\ moving = "stop" /\ recording = FALSE
  /\ ops = 0 /\ apart = FALSE /\ failed = FALSE /\ target = None

Next ==
  \/ \E u \in Caller : \/ \E op \in Ops : Begin(u, op)
                       \/ EditPreset(u) \/ WriteLine(u) \/ Open(u)
  \/ \E p \in Proc : Command(p)
  \/ Dispatch

(* The scheduler runs a command that was begun, and the camera empties its *)
(* queue.                                                                  *)
Fairness == WF_vars(Dispatch) /\ \A p \in Proc : WF_vars(Command(p))
Spec == Init /\ [][Next]_vars /\ Fairness

-----------------------------------------------------------------------------
(* The script's table and the camera's, which are kept by different        *)
(* programs and never compared, have the same presets taken whenever       *)
(* everything has been carried out: the first free slot of the file        *)
(* (ptz_presets.sh lines 29-49) is the camera's, removing all removes all  *)
(* (ipc_cmd.c lines 935-947), and Home is preset 0 in both (925-933).      *)
TablesAgree ==
  Quiet /\ ~apart => \A s \in Slot : (file[s] = <<>>) = (presets[s] = None)

(* A jump ends within a degree of where it was asked to, as -g reports it, *)
(* on every model (ipc_cmd.c lines 800-834, 883-906): the vertical axis of *)
(* some is turned, and must be turned on both ways.                        *)
Within(n, degree) == n <= degree /\ -n <= degree

JumpLands ==
  Quiet /\ target # None =>
    LET at == Reported(model, pos)
    IN /\ Within(at.x - target.x * MAX_PTZ_X, MAX_PTZ_X)
       /\ Within(at.y - target.y * MAX_PTZ_Y, MAX_PTZ_Y)

(* A recording begun by -S ends (lines 986-1030), however many others are  *)
(* begun and ended around it and whatever else fails, unless a fork has    *)
(* failed: START is out then, and no process is there to send STOP.        *)
MotionEnds == recording ~> (~recording \/ failed)
=============================================================================
