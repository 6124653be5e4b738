----------------------------- MODULE ConfigStore ----------------------------
(***************************************************************************)
(* The writers of a configuration file: config_replace of mqtt-config, and *)
(* the processes of the settings page set_configs.sh.  They take the       *)
(* directory lock /tmp/yi-config-work.lock.d, stage the new text on the SD *)
(* card, copy it to a second file next to the configuration and rename     *)
(* that.  One system call on the lock is one step.  A writer may be killed *)
(* between any two steps, the power may fail and the card may be pulled.   *)
(*                                                                         *)
(* Who made the lock directory (`dir') and whose directory another one     *)
(* removed (`robbed') are history: no guard reads more of them than        *)
(* whether there is a directory.                                           *)
(***************************************************************************)
EXTENDS Integers, Sequences

CONSTANTS
  Page,       \* the processes of the settings page
  Change,     \* what may be asked: functions from some keys to values
  Initial,    \* the configuration at first
  MaxFaults,  \* bound: kills, power failures, cards pulled
  None

Daemon == "daemon"
Writer == {Daemon} \cup Page
Side(w) == IF w = Daemon THEN Daemon ELSE "page"

ASSUME StoreAssumption ==
  /\ None \notin Change /\ None \notin Writer \cup {"dead"} /\ MaxFaults \in Nat
  /\ Daemon \notin Page /\ "dead" \notin Page

VARIABLES
  conf,     \* the file: a function from its keys to values
  pc,       \* where each writer is
  change,   \* what it is asked for, till it has renamed or has failed
  owner,    \* the pid it has read in the lock: a writer, "dead" or None
  temp,     \* the file staged on the card, <<>> if there is none
  fresh,    \* the file that will be renamed, <<>> if there is none
  dir,      \* the writer that made the lock directory, None if there is none
  recover,  \* the directory lock.d.recover is there
  pid,      \* what the pid file holds: a writer, "dead" or None
  robbed,   \* writers whose directory was removed, till nobody holds the lock
  sd,       \* the card is mounted
  faults

lockvars == <<owner, dir, recover, pid, robbed>>
filevars == <<conf, temp, fresh>>
storevars == <<pc, change, filevars, lockvars, sd, faults>>

-----------------------------------------------------------------------------
(* The keys the page adds to a file that does not have them; it refuses    *)
(* any other.  One key of the back channel sets both.  The daemon changes  *)
(* the lines that are there.                                               *)
Mirrors == {"RTSP_BACKCHANNEL", "ONVIF_AUDIO_BC"}
Appends == Mirrors \cup {"MOTION_IMAGE_DELAY", "TIMELAPSE_DT", "RTSP_PORT", "HTTPD_PORT"}
Mirrored(c) ==
  LET both == DOMAIN c \cap Mirrors IN
  [k \in DOMAIN c \cup (IF both = {} THEN {} ELSE Mirrors) |->
     IF k \in Mirrors THEN c[IF "RTSP_BACKCHANNEL" \in both THEN "RTSP_BACKCHANNEL" ELSE "ONVIF_AUDIO_BC"]
     ELSE c[k]]
With(c, file, keys) == [k \in keys |-> IF k \in DOMAIN c THEN c[k] ELSE file[k]]
Over(w, c, file) ==
  IF w = Daemon THEN With(c, file, DOMAIN file)
  ELSE With(Mirrored(c), file, DOMAIN file \cup DOMAIN Mirrored(c))
Knows(w, c, file) == w = Daemon \/ DOMAIN c \subseteq DOMAIN file \cup Appends

Empty == <<[k \in {} |-> None]>>

(* From mkdir to the end of the release.                                   *)
Staging == {"publish", "clear", "open", "read", "replace", "copy", "rename"}
Done == {"undo", "cleanup", "unstage", "unlock", "relpid", "rellock"}
Held == Staging \cup Done

(* kill(pid, 0).  A pid is not used again while a file or a variable still *)
(* holds it: a page of that name does not begin, and the pid of an ended   *)
(* daemon is "dead".                                                       *)
Alive(p) == p = Daemon \/ (p \in Page /\ pc[p] # "idle")
Gone(p) == p # None /\ ~Alive(p)
Unreferenced(p) == pid # p /\ \A v \in Writer : owner[v] # p

(* Whose directory w removes: by a sample of a pid whose process is gone,  *)
(* or having lost its own before.                                          *)
Robs(w) == {v \in Writer \ {w} : v = dir /\ pc[v] \in Held /\ (Gone(owner[w]) \/ w \in robbed)}

Goto(w, l) ==
  /\ pc' = [pc EXCEPT ![w] = l]
  /\ change' = IF l \in Done THEN [change EXCEPT ![w] = None] ELSE change
Leave(w, victims) ==
  /\ pc' = [pc EXCEPT ![w] = "idle"] /\ change' = [change EXCEPT ![w] = None]
  /\ owner' = [owner EXCEPT ![w] = None]
  /\ robbed' = IF \A v \in Writer \ {w} : pc[v] \notin Held THEN {} ELSE robbed \cup victims

(* Without the card nothing is asked for: it is looked for before the lock *)
(* is taken.                                                               *)
Asks(w, c) ==
  /\ pc[w] = "idle" /\ (w \in Page => Unreferenced(w))
  /\ IF sd THEN pc' = [pc EXCEPT ![w] = "mkdir"] /\ change' = [change EXCEPT ![w] = c]
     ELSE UNCHANGED <<pc, change>>
  /\ UNCHANGED <<filevars, lockvars, sd, faults>>

-----------------------------------------------------------------------------
(* take_config_lock, and lock_acquire without another attempt.             *)
Mkdir(w) ==
  /\ pc[w] = "mkdir"
  /\ IF dir = None THEN dir' = w /\ Goto(w, "publish") ELSE UNCHANGED dir /\ Goto(w, "recover")
  /\ UNCHANGED <<filevars, owner, recover, pid, robbed, sd, faults>>

(* Somebody is recovering the lock, or was killed doing it: refused.       *)
Recover(w) ==
  /\ pc[w] = "recover" /\ recover' = TRUE
  /\ IF recover THEN Leave(w, {}) ELSE Goto(w, "cat") /\ UNCHANGED <<owner, robbed>>
  /\ UNCHANGED <<filevars, dir, pid, sd, faults>>

Cat(w) ==
  /\ pc[w] = "cat" /\ owner' = [owner EXCEPT ![w] = pid]
  /\ Goto(w, IF pid = None THEN "unrecover" ELSE "probe")
  /\ UNCHANGED <<filevars, dir, recover, pid, robbed, sd, faults>>

ProbeNothing(w) ==
  /\ pc[w] = "probe" /\ Goto(w, "rmpid")
  /\ UNCHANGED <<filevars, lockvars, sd, faults>>
Probe(w) ==
  /\ pc[w] = "probe" /\ Goto(w, IF Gone(owner[w]) THEN "rmpid" ELSE "unrecover")
  /\ UNCHANGED <<filevars, lockvars, sd, faults>>

RmPid(w) ==
  /\ pc[w] = "rmpid" /\ pid' = None /\ Goto(w, "rmdir")
  /\ UNCHANGED <<filevars, owner, dir, recover, robbed, sd, faults>>

(* A directory with a pid file is not removed.                             *)
Rmdir(w) == IF pid = None THEN dir' = None ELSE UNCHANGED dir
Removes(w) == IF pid = None THEN Robs(w) ELSE {}

RmDir(w) ==
  /\ pc[w] = "rmdir" /\ Rmdir(w) /\ robbed' = robbed \cup Removes(w) /\ Goto(w, "unrecover")
  /\ UNCHANGED <<filevars, owner, recover, pid, sd, faults>>

(* The daemon tries mkdir once more, the page refuses.                     *)
Unrecover(w) ==
  /\ pc[w] = "unrecover" /\ recover' = FALSE
  /\ IF w = Daemon THEN Goto(w, "again") /\ owner' = [owner EXCEPT ![w] = None] /\ UNCHANGED robbed
     ELSE Leave(w, {})
  /\ UNCHANGED <<filevars, dir, pid, sd, faults>>

Again(w) ==
  /\ pc[w] = "again"
  /\ IF dir = None THEN dir' = w /\ Goto(w, "publish") /\ UNCHANGED <<owner, robbed>>
     ELSE UNCHANGED dir /\ Leave(w, {})
  /\ UNCHANGED <<filevars, recover, pid, sd, faults>>

(* It fails when the directory has been removed: the page then removes the *)
(* directory of whoever has made one since, the daemon unlocks.            *)
Publish(w) ==
  /\ pc[w] = "publish"
  /\ IF dir # None THEN pid' = w /\ Goto(w, "clear")
     ELSE UNCHANGED pid /\ Goto(w, IF w = Daemon THEN "relpid" ELSE "undo")
  /\ UNCHANGED <<filevars, owner, dir, recover, robbed, sd, faults>>

Undo(w) ==
  /\ pc[w] = "undo" /\ Rmdir(w) /\ Leave(w, Removes(w))
  /\ UNCHANGED <<filevars, recover, pid, sd, faults>>

lock_acquire(w) ==
  \/ Mkdir(w) \/ Recover(w) \/ Cat(w) \/ Probe(w) \/ RmPid(w) \/ RmDir(w) \/ Unrecover(w)
  \/ Again(w) \/ Publish(w) \/ Undo(w)

(* lock_release looks whether the lock is still its own; config_replace    *)
(* does not.                                                               *)
Unlock(w) ==
  /\ pc[w] = "unlock"
  /\ IF w = Daemon \/ pid = w THEN Goto(w, "relpid") /\ UNCHANGED <<owner, robbed>> ELSE Leave(w, {})
  /\ UNCHANGED <<filevars, dir, recover, pid, sd, faults>>

RelPid(w) ==
  /\ pc[w] = "relpid" /\ pid' = None /\ Goto(w, "rellock")
  /\ UNCHANGED <<filevars, owner, dir, recover, robbed, sd, faults>>

RelLock(w) ==
  /\ pc[w] = "rellock" /\ Rmdir(w) /\ Leave(w, Removes(w))
  /\ UNCHANGED <<filevars, recover, pid, sd, faults>>

lock_release(w) == Unlock(w) \/ RelPid(w) \/ RelLock(w)

-----------------------------------------------------------------------------
(* The files of the daemon are its own, those of the pages are the same    *)
(* for all of them.                                                        *)
Write(w, ok, f, file, good, bad) ==
  IF sd /\ ok THEN f' = [f EXCEPT ![Side(w)] = file] /\ Goto(w, good)
  ELSE UNCHANGED f /\ Goto(w, bad)

ClearNothing(w) ==
  /\ pc[w] = "clear" /\ UNCHANGED fresh
  /\ IF w = Daemon THEN UNCHANGED temp /\ Goto(w, "open") ELSE Write(w, TRUE, temp, Empty, "read", "unlock")
  /\ UNCHANGED <<conf, lockvars, sd, faults>>

(* What an earlier writer left is removed: the daemon's two files; the     *)
(* pages' directory on the card, which is made anew (Empty).               *)
Clear(w) ==
  /\ pc[w] = "clear"
  /\ IF w = Daemon THEN Write(w, TRUE, temp, <<>>, "open", "unlock")
     ELSE Write(w, TRUE, temp, Empty, "read", "unlock")
  /\ fresh' = IF w = Daemon /\ sd THEN [fresh EXCEPT ![Side(w)] = <<>>] ELSE fresh
  /\ UNCHANGED <<conf, lockvars, sd, faults>>

(* O_EXCL: a file that is there already is not written to, nor removed.    *)
Open(w) ==
  /\ pc[w] = "open" /\ Write(w, temp[Side(w)] = <<>>, temp, Empty, "read", "unlock")
  /\ UNCHANGED <<conf, fresh, lockvars, sd, faults>>

(* The page refuses a key it does not know.                                *)
ReadConf(w) ==
  /\ pc[w] = "read"
  /\ Write(w, temp[Side(w)] # <<>> /\ Knows(w, change[w], conf), temp,
           <<Over(w, change[w], conf)>>, "replace", "unstage")
  /\ UNCHANGED <<conf, fresh, lockvars, sd, faults>>

Replace(w) ==
  /\ pc[w] = "replace"
  /\ IF w = Daemon THEN Write(w, fresh[Side(w)] = <<>>, fresh, Empty, "copy", "unstage")
     ELSE Write(w, temp[Side(w)] # <<>>, fresh, Empty, "copy", "cleanup")
  /\ UNCHANGED <<conf, temp, lockvars, sd, faults>>

Copy(w) ==
  /\ pc[w] = "copy"
  /\ Write(w, temp[Side(w)] # <<>>, fresh, temp[Side(w)], "rename", "cleanup")
  /\ UNCHANGED <<conf, temp, lockvars, sd, faults>>

Rename(w) ==
  /\ pc[w] = "rename" /\ Goto(w, "cleanup")
  /\ conf' = IF fresh[Side(w)] = <<>> THEN conf ELSE fresh[Side(w)][1]
  /\ fresh' = [fresh EXCEPT ![Side(w)] = <<>>]
  /\ UNCHANGED <<temp, lockvars, sd, faults>>

(* The second file is removed by a writer that has begun to write it.      *)
Cleanup(w) ==
  /\ pc[w] \in {"cleanup", "unstage"} /\ Goto(w, "unlock")
  /\ temp' = IF sd THEN [temp EXCEPT ![Side(w)] = <<>>] ELSE temp
  /\ fresh' = IF pc[w] = "cleanup" THEN [fresh EXCEPT ![Side(w)] = <<>>] ELSE fresh
  /\ UNCHANGED <<conf, lockvars, sd, faults>>

-----------------------------------------------------------------------------
Fault == faults < MaxFaults /\ faults' = faults + 1

(* A write fails, or the page refuses what it was sent.                    *)
Fails(w) ==
  /\ pc[w] \in {"read", "replace", "copy", "rename"}
  /\ Goto(w, IF pc[w] = "read" \/ (pc[w] = "replace" /\ w = Daemon) THEN "unstage" ELSE "cleanup")
  /\ IF w = Daemon THEN Fault ELSE UNCHANGED faults
  /\ UNCHANGED <<filevars, lockvars, sd>>

(* The daemon's next process has another pid.                              *)
Past(p) == IF p = Daemon THEN "dead" ELSE p
DaemonEnds ==
  /\ pc[Daemon] = "idle" /\ pid' = Past(pid) /\ owner' = [v \in Writer |-> Past(owner[v])]
  /\ UNCHANGED <<pc, change, filevars, dir, recover, robbed, sd, faults>>

(* Nothing is cleaned up after SIGKILL.                                    *)
Killed(w) ==
  /\ Fault /\ pc[w] # "idle" /\ pc' = [pc EXCEPT ![w] = "idle"] /\ change' = [change EXCEPT ![w] = None]
  /\ pid' = IF w = Daemon THEN Past(pid) ELSE pid
  /\ owner' = [v \in Writer |-> IF v = w THEN None ELSE IF w = Daemon THEN Past(owner[v]) ELSE owner[v]]
  /\ robbed' = IF \A v \in Writer \ {w} : pc[v] \notin Held THEN {} ELSE robbed
  /\ UNCHANGED <<filevars, dir, recover, sd>>

(* /tmp, and the lock with it, is empty after the next start.              *)
PowerFails ==
  /\ Fault /\ pc' = [w \in Writer |-> "idle"] /\ change' = [w \in Writer |-> None]
  /\ owner' = change' /\ dir' = None /\ recover' = FALSE /\ pid' = None /\ robbed' = {}
  /\ UNCHANGED <<filevars, sd>>

CardPulled ==
  /\ Fault /\ sd /\ sd' = FALSE
  /\ UNCHANGED <<pc, change, filevars, lockvars>>

(* A fault that leaves the files alone. *)
Elsewhere == Fault /\ UNCHANGED <<pc, change, filevars, lockvars, sd>>

CardBack ==
  /\ ~sd /\ sd' = TRUE
  /\ UNCHANGED <<pc, change, filevars, lockvars, faults>>

-----------------------------------------------------------------------------
StoreInit ==
  /\ conf = Initial /\ pc = [w \in Writer |-> "idle"] /\ change = [w \in Writer |-> None]
  /\ owner = change /\ temp = [f \in {Daemon, "page"} |-> <<>>] /\ fresh = temp
  /\ dir = None /\ recover = FALSE /\ pid = None /\ robbed = {} /\ sd = TRUE
  /\ faults \in 0 .. MaxFaults   \* those that will not happen

Step(w) ==
  \/ lock_acquire(w) \/ Clear(w) \/ Open(w) \/ ReadConf(w)
  \/ Replace(w) \/ Copy(w) \/ Rename(w) \/ Cleanup(w) \/ lock_release(w)

Writes ==
  \/ \E w \in Writer : Step(w) \/ Fails(w) \/ Killed(w) \/ \E c \in Change : Asks(w, c)
  \/ DaemonEnds \/ PowerFails \/ CardPulled \/ CardBack
StoreNext == Writes \/ Elsewhere

StoreSpec == StoreInit /\ [][StoreNext]_storevars

-----------------------------------------------------------------------------
File == INSTANCE ConfigFile WITH request <- change

(* Whatever is killed and whenever the power fails, the file changes by a  *)
(* whole request at a time, and no writer undoes what another has written  *)
(* since it read the file (config.c lines 53-138, set_configs.sh 13-95,    *)
(* runtime.sh 36-64).  Only a writer whose lock directory was removed by   *)
(* one that had sampled the pid of an earlier owner, gone since, is not    *)
(* protected, nor is whoever works beside it, till all of them have left:  *)
(* the race of runtime.sh line 41.                                         *)
AtomicUpdates ==
  File!FileInit /\ [][File!FileNext \/ robbed # {}]_<<conf, change>>
=============================================================================
