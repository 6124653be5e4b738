---------------------------- MODULE RuntimeLock ----------------------------
(***************************************************************************)
(* The directory lock of script/runtime.sh (lock_acquire, lock_release),   *)
(* shared by service.sh, wd.sh, audio_work.sh, config_work.sh and          *)
(* wifi_failover.sh.  One system call is one step; Proc is the set of      *)
(* shells, named by their pids.  A shell may be killed at the points of    *)
(* CrashPoints, leaving its directories behind.                            *)
(*                                                                         *)
(* `maker' and `robbed' are history variables: they are never read by a    *)
(* guard.  They record which live shell made the directory that is there   *)
(* now, and which shells had their pid file or directory removed by        *)
(* another one.                                                            *)
(***************************************************************************)
EXTENDS Integers, FiniteSets

CONSTANTS
  Proc,         (* shells that take the lock                               *)
  None,         (* no process: a missing pid file, an unset variable       *)
  MaxAttempts,  (* bound on the caller's retry count (20 in service.sh)    *)
  CrashPoints   (* program points at which SIGKILL may end a shell         *)

RecoverPC == {"cat", "kill0", "rmpid", "rmlock", "unrecover"}
HoldPC    == {"publish", "critical", "release", "relpid", "rellock"}
AcquirePC == {"mkdir", "recover", "retry", "undo"}
LivePC    == RecoverPC \cup HoldPC \cup AcquirePC

ASSUME LockConstants ==
  /\ None \notin Proc
  /\ MaxAttempts \in Nat
  /\ CrashPoints \subseteq LivePC

VARIABLES
  pc,        (* the next system call of each shell, "gone" when it is not running *)
  attempts,  (* lock_acquire's local attempts                              *)
  owner,     (* lock_acquire's local owner: what `cat pid' returned        *)
  dirs,      (* which of $path ("lock") and $path.recover ("recover") exist *)
  pidfile,   (* the content of $path/pid, None when there is no such file  *)
  maker,     (* history: the live shell whose mkdir made $path, or None    *)
  robbed     (* history: live shells whose pid file or directory was removed *)

vars == <<pc, attempts, owner, dirs, pidfile, maker, robbed>>

lockdir == "lock" \in dirs
recdir  == "recover" \in dirs

Alive(p) == pc[p] # "gone"

(* A pid names no later process while a file or a variable still holds it: *)
(* the kernel's reuse of process numbers is left out.                      *)
Unreferenced(p) == pidfile # p /\ \A q \in Proc : owner[q] # p

Goto(p, l) == pc' = [pc EXCEPT ![p] = l]

(* The shell ends; its history goes with it. *)
Exit(p) ==
  /\ Goto(p, "gone")
  /\ owner'  = [owner EXCEPT ![p] = None]
  /\ maker'  = IF maker = p THEN None ELSE maker
  /\ robbed' = robbed \ {p}

(* `rmdir $path' removes only an empty directory. *)
Rmdirs == IF pidfile = None THEN {"lock"} ELSE {}
(* The live shell whose directory p removes. *)
LosesDir(p) == IF pidfile = None THEN {maker} \ {p, None} ELSE {}
(* The live shell whose pid file p removes. *)
LosesPid(p) == {q \in Proc \ {p} : pidfile = q /\ Alive(q)}

-----------------------------------------------------------------------------
Init ==
  /\ pc = [p \in Proc |-> "gone"]
  /\ attempts = [p \in Proc |-> 0]
  /\ owner = [p \in Proc |-> None]
  /\ dirs = {} /\ pidfile = None
  /\ maker = None /\ robbed = {}

(* A new shell calls lock_acquire with its retry count. *)
Begin(p) ==
  /\ ~Alive(p) /\ Unreferenced(p)
  /\ Goto(p, "mkdir")
  /\ \E n \in 0..MaxAttempts : attempts' = [attempts EXCEPT ![p] = n]
  /\ UNCHANGED <<owner, dirs, pidfile, maker, robbed>>

AcquireMkdirP(p) ==
  /\ pc[p] = "mkdir"
  /\ dirs' = dirs \cup {"lock"} /\ maker' = p
  /\ Goto(p, "publish")
  /\ UNCHANGED <<attempts, owner, pidfile, robbed>>

AcquireMkdir(p) ==
  /\ pc[p] = "mkdir"
  /\ \/ /\ ~lockdir
        /\ dirs' = dirs \cup {"lock"} /\ maker' = p
        /\ Goto(p, "publish")
     \/ /\ lockdir
        /\ Goto(p, "recover")
        /\ UNCHANGED <<dirs, maker>>
  /\ UNCHANGED <<attempts, owner, pidfile, robbed>>

RecoverMkdir(p) ==
  /\ pc[p] = "recover"
  /\ \/ ~recdir /\ dirs' = dirs \cup {"recover"} /\ Goto(p, "cat")
     \/ recdir /\ Goto(p, "retry") /\ UNCHANGED dirs
  /\ UNCHANGED <<attempts, owner, pidfile, maker, robbed>>

(* `cat $path/pid': nothing when the directory or the file is missing. *)
RecoverCat(p) ==
  /\ pc[p] = "cat"
  /\ owner' = [owner EXCEPT ![p] = pidfile]
  /\ Goto(p, IF pidfile = None THEN "unrecover" ELSE "kill0")
  /\ UNCHANGED <<attempts, dirs, pidfile, maker, robbed>>

RecoverProbeAlways(p) ==
  /\ pc[p] = "kill0"
  /\ Goto(p, "rmpid")
  /\ UNCHANGED <<attempts, owner, dirs, pidfile, maker, robbed>>

RecoverProbeNever(p) ==
  /\ pc[p] = "kill0"
  /\ Goto(p, "unrecover")
  /\ UNCHANGED <<attempts, owner, dirs, pidfile, maker, robbed>>

(* `kill -0 $owner' *)
RecoverProbe(p) ==
  /\ pc[p] = "kill0"
  /\ Goto(p, IF Alive(owner[p]) THEN "unrecover" ELSE "rmpid")
  /\ UNCHANGED <<attempts, owner, dirs, pidfile, maker, robbed>>

RecoverRmPid(p) ==
  /\ pc[p] = "rmpid"
  /\ pidfile' = None
  /\ robbed' = robbed \cup LosesPid(p)
  /\ Goto(p, "rmlock")
  /\ UNCHANGED <<attempts, owner, dirs, maker>>

RecoverRmdir(p) ==
  /\ pc[p] = "rmlock"
  /\ dirs' = dirs \ Rmdirs
  /\ maker' = IF pidfile = None THEN None ELSE maker
  /\ robbed' = robbed \cup LosesDir(p)
  /\ Goto(p, "unrecover")
  /\ UNCHANGED <<attempts, owner, pidfile>>

RecoverDone(p) ==
  /\ pc[p] = "unrecover"
  /\ dirs' = dirs \ {"recover"}
  /\ owner' = [owner EXCEPT ![p] = None]
  /\ Goto(p, "retry")
  /\ UNCHANGED <<attempts, pidfile, maker, robbed>>

(* Give up, the caller exits; or sleep and try again. *)
Retry(p) ==
  /\ pc[p] = "retry"
  /\ \/ attempts[p] = 0 /\ Exit(p) /\ UNCHANGED attempts
     \/ /\ attempts[p] > 0
        /\ attempts' = [attempts EXCEPT ![p] = @ - 1]
        /\ Goto(p, "mkdir")
        /\ UNCHANGED <<owner, maker, robbed>>
  /\ UNCHANGED <<dirs, pidfile>>

(* `printf $$ > $path/pid' fails when the directory is gone. *)
Publish(p) ==
  /\ pc[p] = "publish"
  /\ \/ /\ lockdir
        /\ pidfile' = p
        /\ Goto(p, "critical")
     \/ /\ ~lockdir
        /\ Goto(p, "undo")
        /\ UNCHANGED pidfile
  /\ UNCHANGED <<attempts, owner, dirs, maker, robbed>>

(* `rmdir $path; return 1' *)
PublishUndo(p) ==
  /\ pc[p] = "undo"
  /\ dirs' = dirs \ Rmdirs
  /\ Goto(p, "gone")
  /\ maker' = IF pidfile = None \/ maker = p THEN None ELSE maker
  /\ robbed' = (robbed \cup LosesDir(p)) \ {p}
  /\ UNCHANGED <<attempts, owner, pidfile>>

(* The protected work ends, normally or by a trapped signal: the EXIT trap *)
(* calls lock_release.                                                     *)
Finish(p) ==
  /\ pc[p] = "critical"
  /\ Goto(p, "release")
  /\ UNCHANGED <<attempts, owner, dirs, pidfile, maker, robbed>>

ReleaseCat(p) ==
  /\ pc[p] = "release"
  /\ \/ /\ pidfile = p
        /\ Goto(p, "relpid")
        /\ UNCHANGED <<owner, maker, robbed>>
     \/ /\ pidfile # p
        /\ Exit(p)
  /\ UNCHANGED <<attempts, dirs, pidfile>>

ReleaseRmPid(p) ==
  /\ pc[p] = "relpid"
  /\ pidfile' = None
  /\ robbed' = robbed \cup LosesPid(p)
  /\ Goto(p, "rellock")
  /\ UNCHANGED <<attempts, owner, dirs, maker>>

ReleaseRmdir(p) ==
  /\ pc[p] = "rellock"
  /\ dirs' = dirs \ Rmdirs
  /\ Goto(p, "gone")
  /\ maker' = IF pidfile = None \/ maker = p THEN None ELSE maker
  /\ robbed' = (robbed \cup LosesDir(p)) \ {p}
  /\ UNCHANGED <<attempts, owner, pidfile>>

(* SIGKILL, or a signal that lands before the traps are set. *)
Crash(p) ==
  /\ pc[p] \in CrashPoints
  /\ Exit(p)
  /\ UNCHANGED <<attempts, dirs, pidfile>>

-----------------------------------------------------------------------------
lock_acquire(p) ==
  \/ AcquireMkdir(p) \/ RecoverMkdir(p) \/ RecoverCat(p) \/ RecoverProbe(p)
  \/ RecoverRmPid(p) \/ RecoverRmdir(p) \/ RecoverDone(p) \/ Retry(p)
  \/ Publish(p) \/ PublishUndo(p)

lock_release(p) == ReleaseCat(p) \/ ReleaseRmPid(p) \/ ReleaseRmdir(p)

Next == \E p \in Proc :
  Begin(p) \/ lock_acquire(p) \/ Finish(p) \/ lock_release(p) \/ Crash(p)

Spec == Init /\ [][Next]_vars

(* Every running shell is scheduled, every job ends, and the callers (the  *)
(* watchdog runs service.sh every 10 s) keep coming.                       *)
Fairness == \A p \in Proc :
  WF_vars(Begin(p) \/ lock_acquire(p) \/ Finish(p) \/ lock_release(p))

LiveSpec == Spec /\ Fairness

-----------------------------------------------------------------------------
(* The retry count of lock_acquire never leaves its range, and the lock    *)
(* files only ever name shells.                                            *)
TypeOK ==
  /\ pc \in [Proc -> LivePC \cup {"gone"}]
  /\ attempts \in [Proc -> 0..MaxAttempts]
  /\ owner \in [Proc -> Proc \cup {None}]
  /\ dirs \subseteq {"lock", "recover"}
  /\ pidfile \in Proc \cup {None}
  /\ maker \in Proc \cup {None}
  /\ robbed \subseteq Proc

(* "One lock owner per operation" (runtime.sh:34): two shells are never    *)
(* both past lock_acquire and before lock_release.                         *)
MutualExclusion ==
  \A p, q \in Proc : pc[p] = "critical" /\ pc[q] = "critical" => p = q

(* Two shells can both hold the lock (past mkdir and before the end of     *)
(* lock_release) only when another shell removed the directory or the pid  *)
(* file of one of them; the pid file that a robbed shell overwrites by     *)
(* publishing into somebody else's directory does not count as removed.    *)
MutexUnlessRobbed ==
  \A p, q \in Proc \ robbed :
    pc[p] \in HoldPC /\ pc[q] \in HoldPC => p = q

(* "Stale lock recovery itself is serialized" (runtime.sh:34): one shell   *)
(* at a time is between mkdir and rmdir of $path.recover.                  *)
RecoverySerialized ==
  \A p, q \in Proc : pc[p] \in RecoverPC /\ pc[q] \in RecoverPC => p = q

(* A shell loses its lock only to a recoverer that sampled some other,     *)
(* dead, owner before, or to a shell that was itself robbed: the sampled   *)
(* owner is never evicted while it lives.                                  *)
OnlyStaleSampleRobs ==
  [][\A v \in robbed' \ robbed : \E a \in Proc \ {v} :
       /\ pc'[a] # pc[a]
       /\ \/ a \in robbed
          \/ pc[a] \in {"rmpid", "rmlock"} /\ owner[a] # v /\ ~Alive(owner[a])]_vars

(* Nobody is left who would remove the directory: a shell was killed       *)
(* between mkdir and the pid file or between the two removals, or while it *)
(* recovered, and only a restart of the camera clears /tmp.                *)
Wedged ==
  \/ /\ lockdir /\ pidfile = None
     /\ \A p \in Proc : pc[p] \notin {"publish", "undo", "rellock", "rmlock"}
  \/ recdir /\ \A p \in Proc : pc[p] \notin RecoverPC

(* The pid of a shell that died holding the lock does not stay, and the    *)
(* lock is free again and again, robberies included and however many       *)
(* holders and waiting shells are killed: unless a shell died inside the   *)
(* lock code itself at one of the points of Wedged.  A kill at `retry' is  *)
(* the step of giving up, one at `release' leaves what a killed holder     *)
(* leaves.                                                                 *)
LockFreedAgain ==
  <>[][\A p \in Proc : Crash(p) => pc[p] \in {"critical", "release", "retry"}]_vars
    => []<>(~lockdir \/ Wedged)
=============================================================================
