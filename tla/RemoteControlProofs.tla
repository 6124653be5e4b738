------------------------- MODULE RemoteControlProofs -------------------------
(***************************************************************************)
(* That ConfigStore implements ConfigFile, that mqtt-config is never       *)
(* connected without a subscription, that a jump lands where -j asked for, *)
(* and that the script's table of presets and the camera's agree.  The     *)
(* first invariant says that a holder's lock directory is its own, unless  *)
(* it has been robbed, and that, as long as nobody has been, what a holder *)
(* has staged is its request made to the file as it still is; the second,  *)
(* where a connection is subscribed to; the third, where a jump is on its  *)
(* way and that nothing else is left that moves the camera; the fourth,    *)
(* that what the queue, the run and the script have yet to do makes of the *)
(* camera's presets the file's.                                            *)
(***************************************************************************)
EXTENDS MCRemoteControl, TLAPS

Waiting == {"mkdir", "recover", "cat", "probe", "rmpid", "rmdir", "unrecover", "again"}
Files2 == {Daemon, "page"}

Types ==
  /\ pc \in [Writer -> Held \cup Waiting \cup {"idle"}] /\ change \in [Writer -> Change \cup {None}]
  /\ owner \in [Writer -> Writer \cup {"dead", None}] /\ pid \in Writer \cup {"dead", None}
  /\ temp = [f \in Files2 |-> temp[f]] /\ fresh = [f \in Files2 |-> fresh[f]]
Asked == \A w \in Writer : IF pc[w] \in Staging \cup Waiting THEN change[w] \in Change ELSE change[w] = None
Sampled == \A w \in Writer : pc[w] \in {"rmpid", "rmdir"} => Gone(owner[w])
Owned == \A w \in Writer : pc[w] \in Held => dir = w \/ w \in robbed
Staged ==
  robbed = {} => \A w \in Writer :
    /\ pc[w] \in {"replace", "copy"} => temp[Side(w)] = <<Over(w, change[w], conf)>>
    /\ pc[w] = "rename" => fresh[Side(w)] = <<Over(w, change[w], conf)>>

IInv == Types /\ Asked /\ Sampled /\ Owned /\ Staged

(* As long as nobody has been robbed, one writer at a time holds the lock. *)
LEMMA HeldAlone ==
  ASSUME Owned, robbed = {}, NEW v \in Writer, NEW w \in Writer, pc[v] \in Held, pc[w] \in Held
  PROVE  v = w
BY DEF Owned

(* The invariant holds at first: nobody has asked for anything.            *)
LEMMA InitIInv == StoreInit => IInv
<1> SUFFICES ASSUME StoreInit PROVE IInv OBVIOUS
<1> USE DEF StoreInit, Held, Staging, Done, Waiting
<1>1. Types BY DEF Types, Files2
<1>2. Asked /\ Sampled /\ Owned /\ Staged BY DEF Asked, Sampled, Owned, Staged
<1>. QED BY <1>1, <1>2 DEF IInv

-----------------------------------------------------------------------------
(* What a step does to the places of the writers.                          *)
LEMMA GotoFacts ==
  ASSUME IInv, NEW w \in Writer, NEW l, Goto(w, l), l \in Held \cup Waiting,
         pc[w] \in Staging \cup Waiting \/ l \in Done
  PROVE  /\ Asked' /\ pc' \in [Writer -> Held \cup Waiting \cup {"idle"}]
         /\ change' \in [Writer -> Change \cup {None}] /\ pc'[w] = l
         /\ \A v \in Writer : v # w => pc'[v] = pc[v] /\ change'[v] = change[v]
         /\ l \notin Done => change'[w] = change[w]
<1> USE DEF IInv, Types, Asked, Goto, Held, Staging, Done, Waiting
<1>1. pc' \in [Writer -> Held \cup Waiting \cup {"idle"}] /\ pc'[w] = l
      /\ \A v \in Writer : v # w => pc'[v] = pc[v]
  OBVIOUS
<1>2. CASE l \in Done
  <2>1. change' \in [Writer -> Change \cup {None}] /\ change'[w] = None
        /\ \A v \in Writer : v # w => change'[v] = change[v]
    BY <1>2
  <2>. QED BY <1>1, <1>2, <2>1
<1>3. CASE l \notin Done
  BY <1>1, <1>3
<1>. QED BY <1>2, <1>3

LEMMA LeaveFacts ==
  ASSUME IInv, NEW w \in Writer, NEW victims, Leave(w, victims)
  PROVE  /\ Asked' /\ pc' \in [Writer -> Held \cup Waiting \cup {"idle"}]
         /\ change' \in [Writer -> Change \cup {None}] /\ pc'[w] = "idle"
         /\ owner' \in [Writer -> Writer \cup {"dead", None}]
         /\ \A v \in Writer : v # w => pc'[v] = pc[v] /\ change'[v] = change[v] /\ owner'[v] = owner[v]
         /\ \A v \in Writer : pc'[v] \in Held => robbed' = robbed \cup victims
<1> USE DEF IInv, Types, Asked, Leave
<1>1. pc'[w] = "idle" /\ change'[w] = None /\ "idle" \notin Held \cup Waiting
  BY DEF Held, Staging, Done, Waiting
<1>2. \A v \in Writer : v # w => pc'[v] = pc[v] /\ change'[v] = change[v] /\ owner'[v] = owner[v]
  OBVIOUS
<1>3. \A v \in Writer : pc'[v] \in Held => robbed' = robbed \cup victims
  BY <1>1, <1>2
<1>4. Asked' BY <1>1, <1>2 DEF Held
<1>. QED BY <1>1, <1>2, <1>3, <1>4

(* A process that is gone stays gone while its pid is remembered: no page  *)
(* begins under a pid that somebody holds.                                 *)
LEMMA StaysGone ==
  ASSUME IInv, NEW w \in Writer, pc[w] # "idle",
         \A v \in Writer : v # w => pc'[v] = pc[v],
         NEW p, Gone(p)
  PROVE  Gone(p)'
BY DEF Gone, Alive, Writer

(* The steps that leave the files alone.                                   *)
LEMMA QuietIInv ==
  ASSUME IInv, NEW w \in Writer, NEW l, pc[w] # "idle",
         Goto(w, l), l \in Held \cup Waiting, pc[w] \in Staging \cup Waiting \/ l \in Done,
         l \in {"rmpid", "rmdir"} => Gone(owner[w]), Owned', robbed \subseteq robbed',
         l \notin {"replace", "copy", "rename"},
         owner' \in [Writer -> Writer \cup {"dead", None}],
         \A v \in Writer : v # w \/ l \in {"rmpid", "rmdir"} => owner'[v] = owner[v],
         pid' \in Writer \cup {"dead", None}, UNCHANGED filevars
  PROVE  IInv'
<1>1. Asked' /\ pc' \in [Writer -> Held \cup Waiting \cup {"idle"}]
      /\ change' \in [Writer -> Change \cup {None}] /\ pc'[w] = l
      /\ \A v \in Writer : v # w => pc'[v] = pc[v] /\ change'[v] = change[v]
  BY GotoFacts
<1>3. Types'
  <2>1. temp' = [f \in Files2 |-> temp'[f]] /\ fresh' = [f \in Files2 |-> fresh'[f]]
    BY DEF IInv, Types, filevars
  <2>. QED BY <1>1, <2>1 DEF Types
<1>4. Sampled'
  <2>. SUFFICES ASSUME NEW v \in Writer, pc'[v] \in {"rmpid", "rmdir"} PROVE Gone(owner[v])'
    BY DEF Sampled
  <2>1. Gone(owner[v]) /\ owner'[v] = owner[v]
    BY <1>1 DEF IInv, Sampled
  <2>2. \A p : Gone(p) => Gone(p)' BY <1>1, StaysGone
  <2>. QED BY <2>1, <2>2 DEF Gone, Alive
<1>5. Staged' BY <1>1 DEF IInv, Staged, filevars
<1>. QED BY <1>1, <1>3, <1>4, <1>5 DEF IInv

(* A writer's own step on the files.  Nobody has been robbed, or there is  *)
(* nothing to show of the files; then no other writer is at them.          *)
LEMMA FilesIInv ==
  ASSUME IInv, NEW w \in Writer, NEW l, pc[w] \in Held,
         Goto(w, l), l \in Held, pc[w] \in Staging \/ l \in Done,
         temp' = [f \in Files2 |-> temp'[f]], fresh' = [f \in Files2 |-> fresh'[f]],
         UNCHANGED lockvars,
         l \in {"replace", "copy"} =>
           (robbed = {} => temp'[Side(w)] = <<Over(w, change[w], conf)>>) /\ conf' = conf,
         l = "rename" =>
           (robbed = {} => fresh'[Side(w)] = <<Over(w, change[w], conf)>>) /\ conf' = conf
  PROVE  IInv'
<1>1. pc[w] # "idle" BY DEF Held, Staging, Done
<1>2. /\ Asked' /\ pc' \in [Writer -> Held \cup Waiting \cup {"idle"}]
      /\ change' \in [Writer -> Change \cup {None}] /\ pc'[w] = l
      /\ \A v \in Writer : v # w => pc'[v] = pc[v] /\ change'[v] = change[v]
      /\ l \notin Done => change'[w] = change[w]
  BY GotoFacts DEF Held
<1>3. owner' = owner /\ dir' = dir /\ pid' = pid /\ robbed' = robbed BY DEF lockvars
<1>4. Types' BY <1>2, <1>3 DEF IInv, Types
<1>5. Sampled'
  <2>. SUFFICES ASSUME NEW v \in Writer, pc'[v] \in {"rmpid", "rmdir"} PROVE Gone(owner[v])'
    BY DEF Sampled
  <2>1. v # w BY <1>2 DEF Held, Staging, Done
  <2>2. Gone(owner[v]) /\ owner'[v] = owner[v]
    BY <1>2, <1>3, <2>1 DEF IInv, Sampled
  <2>3. \A p : Gone(p) => Gone(p)' BY <1>1, <1>2, StaysGone
  <2>. QED BY <2>2, <2>3 DEF Gone, Alive
<1>6. Owned' BY <1>2, <1>3 DEF IInv, Owned
<1>7. Staged'
  <2>. SUFFICES ASSUME robbed = {}, NEW v \in Writer, pc'[v] \in {"replace", "copy", "rename"}
       PROVE /\ pc'[v] \in {"replace", "copy"} => temp'[Side(v)] = <<Over(v, change'[v], conf')>>
             /\ pc'[v] = "rename" => fresh'[Side(v)] = <<Over(v, change'[v], conf')>>
    BY <1>3 DEF Staged
  <2>1. v = w
    <3>. SUFFICES ASSUME v # w PROVE FALSE OBVIOUS
    <3>1. pc[v] \in Held BY <1>2 DEF Held, Staging
    <3>. QED BY <3>1, HeldAlone DEF IInv
  <2>2. l \notin Done BY <1>2, <2>1 DEF Done
  <2>. QED BY <1>2, <2>1, <2>2
<1>. QED BY <1>2, <1>4, <1>5, <1>6, <1>7 DEF IInv

(* The steps by which a writer leaves, or is killed: what it leaves behind *)
(* is nobody's, and whoever it robs knows nothing of it.                   *)
LEMMA LeaveIInv ==
  ASSUME IInv, NEW w \in Writer, NEW victims, pc[w] # "idle", Leave(w, victims),
         pid' \in Writer \cup {"dead", None}, UNCHANGED filevars,
         dir' # dir => \A v \in Writer : v # w /\ pc[v] \in Held => v \in robbed \cup victims
  PROVE  IInv'
<1>1. /\ Asked' /\ pc' \in [Writer -> Held \cup Waiting \cup {"idle"}]
      /\ change' \in [Writer -> Change \cup {None}] /\ pc'[w] = "idle"
      /\ owner' \in [Writer -> Writer \cup {"dead", None}]
      /\ \A v \in Writer : v # w => pc'[v] = pc[v] /\ change'[v] = change[v] /\ owner'[v] = owner[v]
      /\ \A v \in Writer : pc'[v] \in Held => robbed' = robbed \cup victims
  BY LeaveFacts
<1>2. pc'[w] \notin Held BY <1>1 DEF Held, Staging, Done
<1>3. Types'
  <2>1. temp' = [f \in Files2 |-> temp'[f]] /\ fresh' = [f \in Files2 |-> fresh'[f]]
    BY DEF IInv, Types, filevars
  <2>. QED BY <1>1, <2>1 DEF Types
<1>4. Sampled'
  <2>. SUFFICES ASSUME NEW v \in Writer, pc'[v] \in {"rmpid", "rmdir"} PROVE Gone(owner[v])'
    BY DEF Sampled
  <2>1. Gone(owner[v]) /\ owner'[v] = owner[v] BY <1>1 DEF IInv, Sampled
  <2>2. \A p : Gone(p) => Gone(p)' BY <1>1, StaysGone
  <2>. QED BY <2>1, <2>2 DEF Gone, Alive
<1>5. Owned'
  <2>. SUFFICES ASSUME NEW v \in Writer, pc'[v] \in Held PROVE dir' = v \/ v \in robbed'
    BY DEF Owned
  <2>1. v # w /\ pc[v] \in Held /\ robbed' = robbed \cup victims BY <1>1, <1>2
  <2>2. dir = v \/ v \in robbed BY <2>1 DEF IInv, Owned
  <2>. QED BY <2>1, <2>2
<1>6. Staged'
  <2>. SUFFICES ASSUME robbed' = {}, NEW v \in Writer, pc'[v] \in {"replace", "copy", "rename"}
       PROVE /\ pc'[v] \in {"replace", "copy"} => temp'[Side(v)] = <<Over(v, change'[v], conf')>>
             /\ pc'[v] = "rename" => fresh'[Side(v)] = <<Over(v, change'[v], conf')>>
    BY DEF Staged
  <2>1. v # w /\ pc'[v] \in Held BY <1>1 DEF Held, Staging
  <2>2. robbed = {} BY <1>1, <2>1
  <2>. QED BY <1>1, <2>1, <2>2 DEF IInv, Staged, filevars
<1>. QED BY <1>1, <1>3, <1>4, <1>5, <1>6 DEF IInv

(* A directory that is removed was the remover's own, or its maker is in   *)
(* `robbed' from then on.                                                  *)
LEMMA RmdirFacts ==
  ASSUME Owned, NEW w \in Writer, Rmdir(w), dir' # dir,
         Gone(owner[w]) \/ (pc[w] \in Held /\ (w = dir \/ w \in robbed)),
         NEW v \in Writer, v # w, pc[v] \in Held
  PROVE  v \in robbed \cup Removes(w)
<1>1. pid = None BY DEF Rmdir
<1>2. dir = v \/ v \in robbed BY DEF Owned
<1>. QED BY <1>1, <1>2 DEF Removes, Robs

-----------------------------------------------------------------------------
(* The lock, one system call at a time.                                    *)
LEMMA AcquireIInv == ASSUME IInv, NEW w \in Writer, lock_acquire(w) PROVE IInv'
<1> USE StoreAssumption
<1>1. /\ owner \in [Writer -> Writer \cup {"dead", None}] /\ pid \in Writer \cup {"dead", None}
      /\ pc \in [Writer -> Held \cup Waiting \cup {"idle"}] /\ Owned
  BY DEF IInv, Types
<1>2. \A l : Goto(w, l) => \A v \in Writer : pc'[v] = (IF v = w THEN l ELSE pc[v])
  BY <1>1 DEF Goto
<1>3. CASE Mkdir(w)
  <2>1. CASE dir = None
    <3>1. Goto(w, "publish") /\ dir' = w /\ pc[w] = "mkdir" /\ UNCHANGED <<owner, pid, robbed, filevars>>
      BY <1>3, <2>1 DEF Mkdir, filevars
    <3>2. Owned' BY <1>1, <1>2, <2>1, <3>1 DEF Owned
    <3>. QED BY <1>1, <3>1, <3>2, QuietIInv DEF Held, Staging, Waiting
  <2>2. CASE dir # None
    <3>1. Goto(w, "recover") /\ pc[w] = "mkdir" /\ UNCHANGED <<owner, pid, dir, robbed, filevars>>
      BY <1>3, <2>2 DEF Mkdir, filevars
    <3>2. Owned' BY <1>1, <1>2, <3>1 DEF Owned, Held, Staging, Done
    <3>. QED BY <1>1, <3>1, <3>2, QuietIInv DEF Held, Staging, Waiting
  <2>. QED BY <2>1, <2>2
<1>4. CASE Recover(w)
  <2>1. CASE recover
    <3>1. Leave(w, {}) /\ pc[w] = "recover" /\ UNCHANGED <<pid, dir, filevars>>
      BY <1>4, <2>1 DEF Recover, filevars
    <3>. QED BY <1>1, <3>1, LeaveIInv
  <2>2. CASE ~recover
    <3>1. Goto(w, "cat") /\ pc[w] = "recover" /\ UNCHANGED <<owner, pid, dir, robbed, filevars>>
      BY <1>4, <2>2 DEF Recover, filevars
    <3>2. Owned' BY <1>1, <1>2, <3>1 DEF Owned, Held, Staging, Done
    <3>. QED BY <1>1, <3>1, <3>2, QuietIInv DEF Held, Staging, Waiting
  <2>. QED BY <2>1, <2>2
<1>5. CASE Cat(w)
  <2>1. PICK l \in {"unrecover", "probe"} : Goto(w, l)
    BY <1>5 DEF Cat
  <2>2. pc[w] = "cat" /\ owner' = [owner EXCEPT ![w] = pid] /\ UNCHANGED <<pid, dir, robbed, filevars>>
    BY <1>5 DEF Cat, filevars
  <2>3. Owned' BY <1>1, <1>2, <2>1, <2>2 DEF Owned, Held, Staging, Done
  <2>4. owner' \in [Writer -> Writer \cup {"dead", None}] /\ \A v \in Writer : v # w => owner'[v] = owner[v]
    BY <1>1, <2>2
  <2>. QED BY <1>1, <2>1, <2>2, <2>3, <2>4, QuietIInv DEF Held, Staging, Waiting
<1>6. CASE Probe(w)
  <2>1. PICK l \in {"unrecover", "rmpid"} : Goto(w, l) /\ (l = "rmpid" => Gone(owner[w]))
    BY <1>6 DEF Probe
  <2>2. pc[w] = "probe" /\ UNCHANGED <<owner, pid, dir, robbed, filevars>>
    BY <1>6 DEF Probe, lockvars, filevars
  <2>3. Owned' BY <1>1, <1>2, <2>1, <2>2 DEF Owned, Held, Staging, Done
  <2>. QED BY <1>1, <2>1, <2>2, <2>3, QuietIInv DEF Held, Staging, Waiting
<1>7. CASE RmPid(w)
  <2>1. Goto(w, "rmdir") /\ pc[w] = "rmpid" /\ pid' = None /\ UNCHANGED <<owner, dir, robbed, filevars>>
    BY <1>7 DEF RmPid, filevars
  <2>2. Gone(owner[w]) BY <2>1 DEF IInv, Sampled
  <2>3. Owned' BY <1>1, <1>2, <2>1 DEF Owned, Held, Staging, Done
  <2>. QED BY <1>1, <2>1, <2>2, <2>3, QuietIInv DEF Held, Staging, Waiting
<1>8. CASE RmDir(w)
  <2>1. Goto(w, "unrecover") /\ pc[w] = "rmdir" /\ Rmdir(w) /\ robbed' = robbed \cup Removes(w)
        /\ UNCHANGED <<owner, pid, filevars>>
    BY <1>8 DEF RmDir, filevars
  <2>2. Gone(owner[w]) BY <2>1 DEF IInv, Sampled
  <2>3. Owned'
    <3>. SUFFICES ASSUME NEW v \in Writer, pc'[v] \in Held PROVE dir' = v \/ v \in robbed'
      BY DEF Owned
    <3>1. v # w /\ pc[v] \in Held BY <1>2, <2>1 DEF Held, Staging, Done
    <3>2. dir = v \/ v \in robbed BY <1>1, <3>1 DEF Owned
    <3>3. dir' # dir => v \in robbed \cup Removes(w) BY <1>1, <2>1, <2>2, <3>1, RmdirFacts
    <3>. QED BY <2>1, <3>2, <3>3
  <2>. QED BY <1>1, <2>1, <2>2, <2>3, QuietIInv DEF Held, Staging, Waiting
<1>9. CASE Unrecover(w)
  <2>1. CASE w = Daemon
    <3>1. Goto(w, "again") /\ pc[w] = "unrecover" /\ owner' = [owner EXCEPT ![w] = None]
          /\ UNCHANGED <<pid, dir, robbed, filevars>>
      BY <1>9, <2>1 DEF Unrecover, filevars
    <3>2. Owned' BY <1>1, <1>2, <3>1 DEF Owned, Held, Staging, Done
    <3>3. owner' \in [Writer -> Writer \cup {"dead", None}] /\ \A v \in Writer : v # w => owner'[v] = owner[v]
      BY <1>1, <3>1
    <3>. QED BY <1>1, <3>1, <3>2, <3>3, QuietIInv DEF Held, Staging, Waiting
  <2>2. CASE w # Daemon
    <3>1. Leave(w, {}) /\ pc[w] = "unrecover" /\ UNCHANGED <<pid, dir, filevars>>
      BY <1>9, <2>2 DEF Unrecover, filevars
    <3>. QED BY <1>1, <3>1, LeaveIInv
  <2>. QED BY <2>1, <2>2
<1>10. CASE Again(w)
  <2>1. CASE dir = None
    <3>1. Goto(w, "publish") /\ dir' = w /\ pc[w] = "again" /\ UNCHANGED <<owner, pid, robbed, filevars>>
      BY <1>10, <2>1 DEF Again, filevars
    <3>2. Owned' BY <1>1, <1>2, <2>1, <3>1 DEF Owned
    <3>. QED BY <1>1, <3>1, <3>2, QuietIInv DEF Held, Staging, Waiting
  <2>2. CASE dir # None
    <3>1. Leave(w, {}) /\ pc[w] = "again" /\ UNCHANGED <<pid, dir, filevars>>
      BY <1>10, <2>2 DEF Again, filevars
    <3>. QED BY <1>1, <3>1, LeaveIInv
  <2>. QED BY <2>1, <2>2
<1>11. CASE Publish(w)
  <2>1. PICK l \in {"clear", "relpid", "undo"} : Goto(w, l)
    BY <1>11 DEF Publish
  <2>2. pc[w] = "publish" /\ pid' \in {w, pid} /\ UNCHANGED <<owner, dir, robbed, filevars>>
    BY <1>11 DEF Publish, filevars
  <2>3. Owned' BY <1>1, <1>2, <2>1, <2>2 DEF Owned, Held, Staging
  <2>. QED BY <1>1, <2>1, <2>2, <2>3, QuietIInv DEF Held, Staging, Done
<1>12. CASE Undo(w)
  <2>1. Leave(w, Removes(w)) /\ pc[w] = "undo" /\ Rmdir(w) /\ UNCHANGED <<pid, filevars>>
    BY <1>12 DEF Undo, filevars
  <2>2. pc[w] \in Held /\ (dir = w \/ w \in robbed) BY <1>1, <2>1 DEF Owned, Held, Done
  <2>3. dir' # dir => \A v \in Writer : v # w /\ pc[v] \in Held => v \in robbed \cup Removes(w)
    BY <1>1, <2>1, <2>2, RmdirFacts
  <2>. QED BY <1>1, <2>1, <2>3, LeaveIInv
<1>. QED
  BY <1>3, <1>4, <1>5, <1>6, <1>7, <1>8, <1>9, <1>10, <1>11, <1>12 DEF lock_acquire

LEMMA ReleaseIInv == ASSUME IInv, NEW w \in Writer, lock_release(w) PROVE IInv'
<1> USE StoreAssumption
<1>1. /\ owner \in [Writer -> Writer \cup {"dead", None}] /\ pid \in Writer \cup {"dead", None}
      /\ pc \in [Writer -> Held \cup Waiting \cup {"idle"}] /\ Owned
  BY DEF IInv, Types
<1>2. \A l : Goto(w, l) => \A v \in Writer : pc'[v] = (IF v = w THEN l ELSE pc[v])
  BY <1>1 DEF Goto
<1>3. CASE Unlock(w)
  <2>1. CASE w = Daemon \/ pid = w
    <3>1. Goto(w, "relpid") /\ pc[w] = "unlock" /\ UNCHANGED <<owner, pid, dir, robbed, filevars>>
      BY <1>3, <2>1 DEF Unlock, filevars
    <3>2. Owned' BY <1>1, <1>2, <3>1 DEF Owned, Held, Done
    <3>. QED BY <1>1, <3>1, <3>2, QuietIInv DEF Held, Done
  <2>2. CASE ~(w = Daemon \/ pid = w)
    <3>1. Leave(w, {}) /\ pc[w] = "unlock" /\ UNCHANGED <<pid, dir, filevars>>
      BY <1>3, <2>2 DEF Unlock, filevars
    <3>. QED BY <1>1, <3>1, LeaveIInv
  <2>. QED BY <2>1, <2>2
<1>4. CASE RelPid(w)
  <2>1. Goto(w, "rellock") /\ pc[w] = "relpid" /\ pid' = None /\ UNCHANGED <<owner, dir, robbed, filevars>>
    BY <1>4 DEF RelPid, filevars
  <2>2. Owned' BY <1>1, <1>2, <2>1 DEF Owned, Held, Done
  <2>. QED BY <1>1, <2>1, <2>2, QuietIInv DEF Held, Done
<1>5. CASE RelLock(w)
  <2>1. Leave(w, Removes(w)) /\ pc[w] = "rellock" /\ Rmdir(w) /\ UNCHANGED <<pid, filevars>>
    BY <1>5 DEF RelLock, filevars
  <2>2. pc[w] \in Held /\ (dir = w \/ w \in robbed) BY <1>1, <2>1 DEF Owned, Held, Done
  <2>3. dir' # dir => \A v \in Writer : v # w /\ pc[v] \in Held => v \in robbed \cup Removes(w)
    BY <1>1, <2>1, <2>2, RmdirFacts
  <2>. QED BY <1>1, <2>1, <2>3, LeaveIInv
<1>. QED BY <1>3, <1>4, <1>5 DEF lock_release

-----------------------------------------------------------------------------
(* What Write does to a file and to the place of its writer.               *)
LEMMA Writes1 ==
  ASSUME IInv, NEW w \in Writer, NEW ok \in BOOLEAN, NEW file, NEW good, NEW bad,
         Write(w, ok, temp, file, good, bad)
  PROVE  /\ temp' = [f \in Files2 |-> temp'[f]]
         /\ \/ Goto(w, good) /\ temp'[Side(w)] = file /\ ok
            \/ Goto(w, bad)
BY DEF Write, IInv, Types, Side, Files2

LEMMA Writes2 ==
  ASSUME IInv, NEW w \in Writer, NEW ok \in BOOLEAN, NEW file, NEW good, NEW bad,
         Write(w, ok, fresh, file, good, bad)
  PROVE  /\ fresh' = [f \in Files2 |-> fresh'[f]]
         /\ \/ Goto(w, good) /\ fresh'[Side(w)] = file /\ ok
            \/ Goto(w, bad)
BY DEF Write, IInv, Types, Side, Files2

(* The staging, the rename and the cleanup.                                *)
LEMMA StagingIInv ==
  ASSUME IInv, NEW w \in Writer,
         Clear(w) \/ Open(w) \/ ReadConf(w) \/ Replace(w) \/ Copy(w) \/ Rename(w) \/ Cleanup(w)
  PROVE  IInv'
<1> USE DEF Held, Staging, Done
<1>1. temp = [f \in Files2 |-> temp[f]] /\ fresh = [f \in Files2 |-> fresh[f]] /\ Side(w) \in Files2
  BY DEF IInv, Types, Side, Files2
<1>2. CASE Clear(w)
  <2>1. PICK l \in {"open", "read", "unlock"} :
          Goto(w, l) /\ temp' = [f \in Files2 |-> temp'[f]]
    BY <1>2, Writes1 DEF Clear
  <2>2. fresh' = [f \in Files2 |-> fresh'[f]] BY <1>1, <1>2 DEF Clear
  <2>3. pc[w] = "clear" /\ UNCHANGED lockvars BY <1>2 DEF Clear
  <2>. QED BY <2>1, <2>2, <2>3, FilesIInv
<1>3. CASE Open(w)
  <2>1. PICK l \in {"read", "unlock"} : Goto(w, l) /\ temp' = [f \in Files2 |-> temp'[f]]
    BY <1>3, Writes1 DEF Open
  <2>2. pc[w] = "open" /\ fresh' = fresh /\ UNCHANGED lockvars BY <1>3 DEF Open
  <2>. QED BY <1>1, <2>1, <2>2, FilesIInv
<1>4. CASE ReadConf(w)
  <2>1. PICK l \in {"replace", "unstage"} :
          /\ Goto(w, l) /\ temp' = [f \in Files2 |-> temp'[f]]
          /\ l = "replace" => temp'[Side(w)] = <<Over(w, change[w], conf)>>
    BY <1>4, Writes1 DEF ReadConf
  <2>2. pc[w] = "read" /\ fresh' = fresh /\ conf' = conf /\ UNCHANGED lockvars BY <1>4 DEF ReadConf
  <2>. QED BY <1>1, <2>1, <2>2, FilesIInv
<1>5. CASE Replace(w)
  <2>1. PICK l \in {"copy", "cleanup", "unstage"} : Goto(w, l) /\ fresh' = [f \in Files2 |-> fresh'[f]]
    BY <1>5, Writes2 DEF Replace
  <2>2. pc[w] = "replace" /\ temp' = temp /\ conf' = conf /\ UNCHANGED lockvars BY <1>5 DEF Replace
  <2>3. robbed = {} => temp'[Side(w)] = <<Over(w, change[w], conf)>> BY <2>2 DEF IInv, Staged
  <2>. QED BY <1>1, <2>1, <2>2, <2>3, FilesIInv
<1>6. CASE Copy(w)
  <2>1. PICK l \in {"rename", "cleanup"} :
          /\ Goto(w, l) /\ fresh' = [f \in Files2 |-> fresh'[f]]
          /\ l = "rename" => fresh'[Side(w)] = temp[Side(w)]
    BY <1>6, Writes2 DEF Copy
  <2>2. pc[w] = "copy" /\ temp' = temp /\ conf' = conf /\ UNCHANGED lockvars BY <1>6 DEF Copy
  <2>3. robbed = {} => temp[Side(w)] = <<Over(w, change[w], conf)>> BY <2>2 DEF IInv, Staged
  <2>. QED BY <1>1, <2>1, <2>2, <2>3, FilesIInv
<1>7. CASE Rename(w)
  <2>1. Goto(w, "cleanup") /\ pc[w] = "rename" /\ temp' = temp /\ UNCHANGED lockvars BY <1>7 DEF Rename
  <2>2. fresh' = [f \in Files2 |-> fresh'[f]] BY <1>1, <1>7 DEF Rename
  <2>. QED BY <1>1, <2>1, <2>2, FilesIInv
<1>8. CASE Cleanup(w)
  <2>1. Goto(w, "unlock") /\ pc[w] \in {"cleanup", "unstage"} /\ UNCHANGED lockvars BY <1>8 DEF Cleanup
  <2>2. temp' = [f \in Files2 |-> temp'[f]] /\ fresh' = [f \in Files2 |-> fresh'[f]]
    BY <1>1, <1>8 DEF Cleanup
  <2>. QED BY <2>1, <2>2, FilesIInv
<1>. QED BY <1>2, <1>3, <1>4, <1>5, <1>6, <1>7, <1>8

(* A killed process is gone, and so is the pid of a killed daemon.         *)
LEMMA PastFacts ==
  ASSUME NEW p \in Writer \cup {"dead", None}
  PROVE  Past(p) \in Writer \cup {"dead", None} /\ (Gone(p) => Past(p) = p)
BY DEF Past, Gone, Alive

LEMMA KilledIInv == ASSUME IInv, NEW w \in Writer, Killed(w) PROVE IInv'
<1>1. /\ pc' = [pc EXCEPT ![w] = "idle"] /\ change' = [change EXCEPT ![w] = None] /\ pc[w] # "idle"
      /\ pid' \in {pid, Past(pid)} /\ UNCHANGED filevars /\ dir' = dir
      /\ robbed' = IF \A v \in Writer \ {w} : pc[v] \notin Held THEN {} ELSE robbed
  BY DEF Killed
<1>2. owner' = [v \in Writer |-> IF v = w THEN None ELSE IF w = Daemon THEN Past(owner[v]) ELSE owner[v]]
  BY DEF Killed
<1>3. \A v \in Writer : owner[v] \in Writer \cup {"dead", None} BY DEF IInv, Types
<1>4. /\ pc' \in [Writer -> Held \cup Waiting \cup {"idle"}] /\ change' \in [Writer -> Change \cup {None}]
      /\ pc'[w] = "idle" /\ change'[w] = None
      /\ \A v \in Writer : v # w => pc'[v] = pc[v] /\ change'[v] = change[v]
  BY <1>1 DEF IInv, Types
<1>5. "idle" \notin Held \cup Waiting BY DEF Held, Staging, Done, Waiting
<1>6. \A v \in Writer : pc'[v] \in Held => robbed' = robbed BY <1>1, <1>4, <1>5
<1>7. Types'
  <2>1. \A v \in Writer : Past(owner[v]) \in Writer \cup {"dead", None} BY <1>3, PastFacts
  <2>2. owner' \in [Writer -> Writer \cup {"dead", None}] BY <1>2, <1>3, <2>1
  <2>3. pid' \in Writer \cup {"dead", None} BY <1>1, PastFacts DEF IInv, Types
  <2>4. temp' = [f \in Files2 |-> temp'[f]] /\ fresh' = [f \in Files2 |-> fresh'[f]]
    BY <1>1 DEF IInv, Types, filevars
  <2>. QED BY <1>4, <2>2, <2>3, <2>4 DEF Types
<1>8. Asked' BY <1>4, <1>5 DEF IInv, Asked, Held
<1>9. Sampled'
  <2>. SUFFICES ASSUME NEW v \in Writer, pc'[v] \in {"rmpid", "rmdir"} PROVE Gone(owner[v])'
    BY DEF Sampled
  <2>1. v # w /\ Gone(owner[v]) BY <1>4 DEF IInv, Sampled
  <2>2. Past(owner[v]) = owner[v] BY <1>3, <2>1, PastFacts
  <2>3. owner'[v] = owner[v] BY <1>2, <2>1, <2>2
  <2>4. \A p : Gone(p) => Gone(p)' BY <1>1, <1>4, StaysGone
  <2>. QED BY <2>1, <2>3, <2>4 DEF Gone, Alive
<1>10. Owned' BY <1>1, <1>4, <1>5, <1>6 DEF IInv, Owned
<1>11. Staged'
  <2>. SUFFICES ASSUME robbed' = {}, NEW v \in Writer, pc'[v] \in {"replace", "copy", "rename"}
       PROVE /\ pc'[v] \in {"replace", "copy"} => temp'[Side(v)] = <<Over(v, change'[v], conf')>>
             /\ pc'[v] = "rename" => fresh'[Side(v)] = <<Over(v, change'[v], conf')>>
    BY DEF Staged
  <2>1. v # w /\ pc'[v] \in Held BY <1>4 DEF Held, Staging
  <2>2. robbed = {} BY <1>6, <2>1
  <2>. QED BY <1>1, <1>4, <2>1, <2>2 DEF IInv, Staged, filevars
<1>. QED BY <1>7, <1>8, <1>9, <1>10, <1>11 DEF IInv

LEMMA EndsIInv == ASSUME IInv, DaemonEnds PROVE IInv'
<1>1. /\ pid' = Past(pid) /\ owner' = [v \in Writer |-> Past(owner[v])]
      /\ UNCHANGED <<pc, change, conf, temp, fresh, dir, robbed>>
  BY DEF DaemonEnds, filevars
<1>2. \A v \in Writer : owner[v] \in Writer \cup {"dead", None} BY DEF IInv, Types
<1>3. Types'
  <2>1. \A v \in Writer : Past(owner[v]) \in Writer \cup {"dead", None} BY <1>2, PastFacts
  <2>2. owner' \in [Writer -> Writer \cup {"dead", None}] BY <1>1, <2>1
  <2>3. pid' \in Writer \cup {"dead", None} BY <1>1, PastFacts DEF IInv, Types
  <2>. QED BY <1>1, <2>2, <2>3 DEF IInv, Types
<1>4. Sampled'
  <2>. SUFFICES ASSUME NEW v \in Writer, pc[v] \in {"rmpid", "rmdir"} PROVE Gone(owner[v])'
    BY <1>1 DEF Sampled
  <2>1. Gone(owner[v]) BY DEF IInv, Sampled
  <2>2. owner'[v] = owner[v] BY <1>1, <1>2, <2>1, PastFacts
  <2>. QED BY <1>1, <2>1, <2>2 DEF Gone, Alive
<1>5. Asked' /\ Owned' /\ Staged' BY <1>1 DEF IInv, Asked, Owned, Staged
<1>. QED BY <1>3, <1>4, <1>5 DEF IInv

(* A page begins under a pid that nobody has sampled.                      *)
LEMMA AsksIInv == ASSUME IInv, NEW w \in Writer, NEW c \in Change, Asks(w, c) PROVE IInv'
<1> USE DEF Held, Staging, Done, Waiting
<1>1. pc[w] = "idle" /\ (w \in Page => Unreferenced(w)) /\ UNCHANGED <<filevars, lockvars>>
  BY DEF Asks
<1>2. \/ pc' = [pc EXCEPT ![w] = "mkdir"] /\ change' = [change EXCEPT ![w] = c]
      \/ UNCHANGED <<pc, change>>
  BY DEF Asks
<1>3. /\ owner' = owner /\ dir' = dir /\ pid' = pid /\ robbed' = robbed
      /\ conf' = conf /\ temp' = temp /\ fresh' = fresh
  BY <1>1 DEF filevars, lockvars
<1>4. \A v \in Writer : v # w => pc'[v] = pc[v] /\ change'[v] = change[v]
  BY <1>2 DEF IInv, Types
<1>5. pc'[w] \in {"mkdir", "idle"} BY <1>1, <1>2 DEF IInv, Types
<1>6. Types' BY <1>2, <1>3 DEF IInv, Types
<1>7. Asked' BY <1>1, <1>2 DEF IInv, Asked, Types
<1>8. Sampled'
  <2>. SUFFICES ASSUME NEW v \in Writer, pc'[v] \in {"rmpid", "rmdir"} PROVE Gone(owner[v])'
    BY DEF Sampled
  <2>1. v # w /\ Gone(owner[v]) BY <1>4, <1>5 DEF IInv, Sampled
  <2>2. owner[v] # w BY <1>1, <2>1 DEF Unreferenced, Gone, Alive, Writer
  <2>. QED BY <1>3, <1>4, <2>1, <2>2 DEF Gone, Alive, Writer
<1>9. Owned' BY <1>3, <1>4, <1>5 DEF IInv, Owned
<1>10. Staged' BY <1>3, <1>4, <1>5 DEF IInv, Staged
<1>. QED BY <1>6, <1>7, <1>8, <1>9, <1>10 DEF IInv

(* Failures, crashes and the rest.                                         *)
LEMMA NextIInv == IInv /\ [StoreNext]_storevars => IInv'
<1> SUFFICES ASSUME IInv, [StoreNext]_storevars PROVE IInv' OBVIOUS
<1> USE StoreAssumption
<1>1. ASSUME NEW w \in Writer, Step(w) PROVE IInv'
  BY <1>1, AcquireIInv, ReleaseIInv, StagingIInv DEF Step
<1>2. ASSUME NEW w \in Writer, Fails(w) PROVE IInv'
  <2>1. PICK l \in {"cleanup", "unstage"} : Goto(w, l) BY <1>2 DEF Fails
  <2>2. pc[w] \in {"read", "replace", "copy", "rename"} /\ UNCHANGED <<filevars, lockvars>> BY <1>2 DEF Fails
  <2>3. temp' = [f \in Files2 |-> temp'[f]] /\ fresh' = [f \in Files2 |-> fresh'[f]]
    BY <2>2 DEF IInv, Types, filevars
  <2>. QED BY <2>1, <2>2, <2>3, FilesIInv DEF Held, Staging, Done
<1>3. ASSUME NEW w \in Writer, Killed(w) PROVE IInv' BY <1>3, KilledIInv
<1>4. ASSUME NEW w \in Writer, NEW c \in Change, Asks(w, c) PROVE IInv' BY <1>4, AsksIInv
<1>5. CASE DaemonEnds BY <1>5, EndsIInv
<1>6. CASE PowerFails
  <2>1. pc' = [w \in Writer |-> "idle"] /\ change' = [w \in Writer |-> None] /\ owner' = change'
        /\ pid' = None /\ UNCHANGED filevars
    BY <1>6 DEF PowerFails
  <2>2. Types' BY <2>1 DEF IInv, Types, filevars
  <2>3. Asked' /\ Sampled' /\ Owned' /\ Staged'
    BY <2>1 DEF Asked, Sampled, Owned, Staged, Held, Staging, Done, Waiting
  <2>. QED BY <2>2, <2>3 DEF IInv
<1>7. CASE CardPulled \/ CardBack \/ Elsewhere \/ UNCHANGED storevars
  <2>1. UNCHANGED <<pc, change, filevars, lockvars>>
    BY <1>7 DEF CardPulled, CardBack, Elsewhere, storevars
  <2>. QED
    BY <2>1 DEF filevars, lockvars, IInv, Types, Asked, Sampled, Owned, Staged, Gone, Alive
<1>. QED BY <1>1, <1>2, <1>3, <1>4, <1>5, <1>6, <1>7 DEF StoreNext, Writes

-----------------------------------------------------------------------------
(* Every step is one of the abstract file's, or changes nothing of it, or  *)
(* somebody has been robbed: the rename is the commit, and a failure or a  *)
(* crash drops the request.                                                *)
LEMMA GotoFile ==
  ASSUME IInv, NEW w \in Writer, NEW l, Goto(w, l), conf' = conf
  PROVE  UNCHANGED <<conf, change>> \/ File!Drop({w})
<1>1. change \in [Writer -> Change \cup {None}] BY DEF IInv, Types
<1>. QED BY <1>1 DEF Goto, File!Drop

LEMMA LeaveFile ==
  ASSUME IInv, NEW w \in Writer, NEW victims, Leave(w, victims), conf' = conf
  PROVE  File!Drop({w})
<1>1. change \in [Writer -> Change \cup {None}] BY DEF IInv, Types
<1>. QED BY <1>1 DEF Leave, File!Drop

LEMMA RenameFile ==
  ASSUME IInv, NEW w \in Writer, Rename(w), robbed = {}
  PROVE  File!Commit(w)
<1>1. change[w] \in Change BY DEF Rename, IInv, Asked, Staging
<1>2. fresh[Side(w)] = <<Over(w, change[w], conf)>> BY DEF Rename, IInv, Staged
<1>3. conf' = Over(w, change[w], conf) BY <1>2 DEF Rename
<1>4. change' = [change EXCEPT ![w] = None] BY DEF Rename, Goto, Done
<1>. QED BY <1>1, <1>3, <1>4 DEF File!Commit

LEMMA NextFile ==
  IInv /\ [StoreNext]_storevars => [File!FileNext \/ robbed # {}]_<<conf, change>>
<1> SUFFICES ASSUME IInv, [StoreNext]_storevars, robbed = {}
             PROVE  File!FileNext \/ UNCHANGED <<conf, change>>
  OBVIOUS
<1>0. \A w \in Writer : File!Drop({w}) => File!FileNext BY DEF File!FileNext
<1>1. ASSUME NEW w \in Writer, lock_acquire(w) \/ lock_release(w) PROVE File!Drop({w}) \/ UNCHANGED <<conf, change>>
  <2>1. conf' = conf
    BY <1>1 DEF lock_acquire, lock_release, Mkdir, Recover, Cat, Probe, RmPid, RmDir, Unrecover, Again,
      Publish, Undo, Unlock, RelPid, RelLock, filevars
  <2>2. (\E l : Goto(w, l)) \/ \E victims : Leave(w, victims)
    BY <1>1 DEF lock_acquire, lock_release, Mkdir, Recover, Cat, Probe, RmPid, RmDir, Unrecover, Again,
      Publish, Undo, Unlock, RelPid, RelLock
  <2>. QED BY <2>1, <2>2, GotoFile, LeaveFile
<1>2. ASSUME NEW w \in Writer,
             Clear(w) \/ Open(w) \/ ReadConf(w) \/ Replace(w) \/ Copy(w) \/ Cleanup(w) \/ Fails(w)
      PROVE  File!Drop({w}) \/ UNCHANGED <<conf, change>>
  <2>1. conf' = conf
    BY <1>2 DEF Clear, Open, ReadConf, Replace, Copy, Cleanup, Fails, filevars
  <2>2. \E l : Goto(w, l)
    BY <1>2 DEF Clear, Open, ReadConf, Replace, Copy, Cleanup, Fails, Write
  <2>. QED BY <2>1, <2>2, GotoFile
<1>3. ASSUME NEW w \in Writer, Rename(w) PROVE File!Commit(w) BY <1>3, RenameFile
<1>4. ASSUME NEW w \in Writer, Killed(w) PROVE File!Drop({w})
  <2>1. change \in [Writer -> Change \cup {None}] BY DEF IInv, Types
  <2>. QED BY <1>4, <2>1 DEF Killed, filevars, File!Drop
<1>5. ASSUME NEW w \in Writer, NEW c \in Change, Asks(w, c)
      PROVE  File!Ask(w, c) \/ UNCHANGED <<conf, change>>
  <2>1. change[w] = None BY <1>5 DEF Asks, IInv, Asked, Staging, Waiting
  <2>. QED BY <1>5, <2>1 DEF Asks, filevars, File!Ask
<1>6. CASE PowerFails
  <2>1. File!Drop(Writer) BY <1>6 DEF PowerFails, filevars, File!Drop
  <2>. QED BY <2>1 DEF File!FileNext
<1>7. CASE DaemonEnds \/ CardPulled \/ CardBack \/ Elsewhere \/ UNCHANGED storevars
  BY <1>7 DEF DaemonEnds, CardPulled, CardBack, Elsewhere, storevars, filevars
<1>8. ASSUME NEW w \in Writer, Step(w) PROVE File!FileNext \/ UNCHANGED <<conf, change>>
  <2>1. CASE Rename(w) BY <1>3, <2>1 DEF File!FileNext
  <2>2. CASE ~Rename(w) BY <1>0, <1>1, <1>2, <1>8, <2>2 DEF Step
  <2>. QED BY <2>1, <2>2
<1>9. ASSUME NEW w \in Writer, NEW c \in Change, Asks(w, c)
      PROVE  File!FileNext \/ UNCHANGED <<conf, change>>
  BY <1>5, <1>9 DEF File!FileNext
<1>. QED BY <1>0, <1>2, <1>4, <1>6, <1>7, <1>8, <1>9 DEF StoreNext, Writes

(* Whatever is killed, whenever the power fails: the configuration changes *)
(* by one whole request at a time, made to the file as it is then, unless  *)
(* the lock of a writer that still works, or works beside one that does,   *)
(* was removed by a recovery that had sampled an owner now gone.           *)
THEOREM StoreImplementsFile == StoreSpec => AtomicUpdates
<1>1. StoreInit => IInv BY InitIInv
<1>2. IInv /\ [StoreNext]_storevars => IInv' BY NextIInv
<1>3. StoreInit => File!FileInit BY DEF StoreInit, File!FileInit
<1>4. IInv /\ [StoreNext]_storevars => [File!FileNext \/ robbed # {}]_<<conf, change>> BY NextFile
<1>. QED BY <1>1, <1>2, <1>3, <1>4, PTL DEF StoreSpec, AtomicUpdates

(* The daemon and its surroundings write the file by steps of the store.   *)
LEMMA NextStores == [Next]_vars => [StoreNext]_storevars
<1> SUFFICES ASSUME [Next]_vars PROVE [StoreNext]_storevars OBVIOUS
<1> USE DEF Writer, Daemon
<1>1. CASE Start BY <1>1 DEF Start
<1>2. CASE Network
  <2>1. DaemonEnds \/ UNCHANGED storevars
    BY <1>2 DEF Network, Connects, NotConnected, Subscribes, NotSubscribed, Acked, Quiet, LateAck,
      Lost, Reconnects, Stops
  <2>. QED BY <2>1 DEF StoreNext, Writes
<1>3. CASE \E m \in Message : Receives(m)
  <2>1. PICK m \in Message : Receives(m) BY <1>3
  <2>2. CASE Result(m) = "store" /\ Asks(Daemon, m.key :> m.value.text)
    BY <2>2, StoredAssumption DEF StoreNext, Writes
  <2>3. CASE UNCHANGED storevars BY <2>3
  <2>4. CASE DaemonEnds BY <2>4 DEF StoreNext, Writes
  <2>5. (Result(m) = "store" /\ Asks(Daemon, m.key :> m.value.text)) \/ DaemonEnds \/ UNCHANGED storevars
    BY <2>1 DEF Receives, storevars, filevars, lockvars, Session
  <2>. QED BY <2>2, <2>3, <2>4, <2>5
<1>4. CASE Terminated \/ BrokerStarts BY <1>4 DEF Terminated, BrokerStarts
<1>5. CASE Refused \/ LinkDrops \/ BrokerStops
  BY <1>5 DEF Refused, LinkDrops, BrokerStops, StoreNext
<1>6. CASE DaemonKilled BY <1>6 DEF DaemonKilled, StoreNext, Writes
<1>7. CASE Off BY <1>7 DEF Off, StoreNext, Writes
<1>8. CASE \E w \in Writer : Step(w) \/ Fails(w) BY <1>8 DEF StoreNext, Writes
<1>9. CASE CardPulled \/ CardBack BY <1>9 DEF StoreNext, Writes
<1>10. CASE \E p \in Page : Killed(p) \/ \E c \in Change : Asks(p, c) BY <1>10 DEF StoreNext, Writes
<1>11. CASE UNCHANGED vars BY <1>11 DEF vars
<1>. QED
  BY <1>1, <1>2, <1>3, <1>4, <1>5, <1>6, <1>7, <1>8, <1>9, <1>10, <1>11 DEF Next

(* The daemon beside its settings pages keeps the same promise, through    *)
(* every loss of the connection and every fault.                           *)
THEOREM DaemonImplementsFile == Spec => AtomicUpdates
<1>1. Init => StoreInit BY DEF Init
<1>2. Spec => StoreSpec BY <1>1, NextStores, PTL DEF Spec, StoreSpec
<1>. QED BY <1>2, StoreImplementsFile

-----------------------------------------------------------------------------
(* libmosquitto's caller has subscribed before it waits for the broker.    *)
Subscribed ==
  /\ library \in Built
  /\ at = "loop" /\ link # "none" => subscribed
  /\ library = "mosquitto" /\ at = "await" /\ link # "none" => subscribed

(* A message leaves the daemon where it was, or without its connection.    *)
LEMMA ReceivesSubscribed ==
  ASSUME Subscribed, NEW m \in Message, Receives(m) PROVE Subscribed'
  BY DEF Subscribed, Receives, Unlinked, Session

LEMMA NextSubscribed == Subscribed /\ [Next]_vars => Subscribed'
<1> SUFFICES ASSUME Subscribed, [Next]_vars PROVE Subscribed' OBVIOUS
<1> USE MqttAssumption DEF Subscribed, Session, Unlinked, Thread
<1>1. CASE Start BY <1>1 DEF Start, Begins
<1>2. CASE Connects BY <1>2 DEF Connects
<1>3. CASE NotConnected \/ Subscribes \/ NotSubscribed
  BY <1>3 DEF NotConnected, Subscribes, NotSubscribed
<1>4. CASE Acked \/ Quiet \/ LateAck
  <2>1. CASE Acked BY <2>1 DEF Acked, Awaited
  <2>2. CASE Quiet BY <2>2 DEF Quiet, Awaited
  <2>3. CASE LateAck BY <2>3 DEF LateAck
  <2>. QED BY <1>4, <2>1, <2>2, <2>3
<1>5. CASE Lost \/ Refused BY <1>5 DEF Lost, Refused
<1>6. CASE Reconnects \/ Stops BY <1>6 DEF Reconnects, Stops
<1>7. CASE \E m \in Message : Receives(m) BY <1>7, ReceivesSubscribed
<1>8. CASE Terminated \/ LinkDrops \/ BrokerStops \/ BrokerStarts
  BY <1>8 DEF Terminated, LinkDrops, BrokerStops, BrokerStarts
<1>9. CASE DaemonKilled \/ Off BY <1>9 DEF DaemonKilled, Off
<1>10. CASE UNCHANGED netvars BY <1>10 DEF netvars
<1>11. CASE UNCHANGED vars BY <1>11 DEF vars, netvars
<1>. QED BY <1>1, <1>2, <1>3, <1>4, <1>5, <1>6, <1>7, <1>8, <1>9, <1>10, <1>11 DEF Next, Network

(* A connected daemon in its loop has subscribed on this very connection,  *)
(* with either library and however often the connection was lost.          *)
THEOREM NeverDeafAlways == Spec => []NeverDeaf
<1>1. Init => Subscribed BY DEF Init, Subscribed
<1>2. Subscribed /\ [Next]_vars => Subscribed' BY NextSubscribed
<1>3. Subscribed => NeverDeaf BY DEF Subscribed, NeverDeaf
<1>. QED BY <1>1, <1>2, <1>3, PTL DEF Spec

-----------------------------------------------------------------------------
(* The jumps of the scripts.  First the sequences they are made of.        *)
LEMMA SeqIs == ASSUME NEW S, NEW s \in Seq(S) PROVE Ptz!IsSeq(s)
<1>1. \A i \in 1 .. Len(s) : s[i] \in Ptz!Range(s) BY DEF Ptz!Range
<1>. QED BY <1>1 DEF Ptz!IsSeq

LEMMA SeqTail ==
  ASSUME NEW s, Ptz!IsSeq(s), s # <<>>
  PROVE  /\ Ptz!IsSeq(Tail(s)) /\ Len(Tail(s)) = Len(s) - 1
         /\ DOMAIN s = 1 .. Len(s) /\ Len(s) \in Nat \ {0} /\ Head(s) = s[1]
         /\ DOMAIN Tail(s) = 1 .. Len(s) - 1
         /\ \A i \in 1 .. Len(s) - 1 : Tail(s)[i] = s[i + 1]
<1>1. s \in Seq(Ptz!Range(s)) BY DEF Ptz!IsSeq
<1>2. Tail(s) \in Seq(Ptz!Range(s)) BY <1>1
<1>3. Ptz!IsSeq(Tail(s)) BY <1>2, SeqIs
<1>. QED BY <1>1, <1>2, <1>3

LEMMA SeqAppend ==
  ASSUME NEW s, Ptz!IsSeq(s), NEW e
  PROVE  /\ Ptz!IsSeq(Append(s, e)) /\ Len(s) \in Nat /\ DOMAIN s = 1 .. Len(s)
         /\ DOMAIN Append(s, e) = 1 .. Len(s) + 1
         /\ \A i \in 1 .. Len(s) : Append(s, e)[i] = s[i]
         /\ Append(s, e)[Len(s) + 1] = e
<1>1. s \in Seq(Ptz!Range(s) \cup {e}) BY DEF Ptz!IsSeq
<1>2. Append(s, e) \in Seq(Ptz!Range(s) \cup {e}) BY <1>1
<1>3. Ptz!IsSeq(Append(s, e)) BY <1>2, SeqIs
<1>. QED BY <1>1, <1>2, <1>3

LEMMA SeqCat ==
  ASSUME NEW s, NEW t, Ptz!IsSeq(s), Ptz!IsSeq(t)
  PROVE  /\ Ptz!IsSeq(s \o t) /\ Len(s) \in Nat /\ Len(t) \in Nat
         /\ DOMAIN s = 1 .. Len(s) /\ DOMAIN t = 1 .. Len(t)
         /\ DOMAIN (s \o t) = 1 .. Len(s) + Len(t)
         /\ \A i \in 1 .. Len(s) : (s \o t)[i] = s[i]
         /\ \A i \in Len(s) + 1 .. Len(s) + Len(t) : (s \o t)[i] = t[i - Len(s)]
<1>1. s \in Seq(Ptz!Range(s) \cup Ptz!Range(t)) /\ t \in Seq(Ptz!Range(s) \cup Ptz!Range(t)) BY DEF Ptz!IsSeq
<1>2. s \o t \in Seq(Ptz!Range(s) \cup Ptz!Range(t)) BY <1>1
<1>3. Ptz!IsSeq(s \o t) BY <1>2, SeqIs
<1>. QED BY <1>1, <1>2, <1>3

LEMMA SeqOne == ASSUME NEW e PROVE Ptz!IsSeq(<<e>>) /\ DOMAIN <<e>> = {1} /\ <<e>>[1] = e
<1>1. Ptz!IsSeq(<<e>>) BY SeqIs, <<e>> \in Seq({e})
<1>2. DOMAIN <<e>> = {1} /\ <<e>>[1] = e OBVIOUS
<1>. QED BY <1>1, <1>2

LEMMA SeqNone == Ptz!IsSeq(<<>>) /\ DOMAIN <<>> = {}
<1>1. Ptz!IsSeq(<<>>) BY SeqIs, <<>> \in Seq({})
<1>2. DOMAIN <<>> = {} OBVIOUS
<1>. QED BY <1>1, <1>2

LEMMA CatNone == ASSUME NEW s, Ptz!IsSeq(s) PROVE s \o <<>> = s /\ <<>> \o s = s
<1>1. s \in Seq(Ptz!Range(s)) BY DEF Ptz!IsSeq
<1>. QED BY <1>1

-----------------------------------------------------------------------------
(* The steps of a run, and the messages, that move the camera.             *)
Turning == {"move", "goto", "jump"}
Movement(e) == e.do \in {"jump to", "jump by"} \/ (e.do = "send" /\ e.msg.kind \in Turning)
Still(t) == Ptz!IsSeq(t) /\ \A i \in DOMAIN t : ~Movement(t[i])
NoFork(t) == Ptz!IsSeq(t) /\ \A i \in DOMAIN t : t[i].do # "fork"

(* What is left for the timer moves nothing.                               *)
Behind(t) == Ptz!IsSeq(t) /\ \A i, j \in DOMAIN t : i < j /\ t[i].do = "fork" => ~Movement(t[j])

LEMMA StillCat == ASSUME NEW s, NEW t, Still(s), Still(t) PROVE Still(s \o t)
  BY SeqCat DEF Still
LEMMA NoForkCat == ASSUME NEW s, NEW t, NoFork(s), NoFork(t) PROVE NoFork(s \o t)
<1>1. Ptz!IsSeq(s) /\ Ptz!IsSeq(t) BY DEF NoFork
<1>. DEFINE c == s \o t
           m == Len(s)
           n == Len(t)
<1>2. /\ Ptz!IsSeq(c) /\ m \in Nat /\ n \in Nat
      /\ DOMAIN s = 1 .. m /\ DOMAIN t = 1 .. n /\ DOMAIN c = 1 .. m + n
      /\ \A i \in 1 .. m : c[i] = s[i]
      /\ \A i \in m + 1 .. m + n : c[i] = t[i - m]
  BY <1>1, SeqCat
<1>. HIDE DEF c, m, n
<1>3. ASSUME NEW i \in DOMAIN c PROVE c[i].do # "fork"
  <2>1. CASE i \in 1 .. m BY <1>2, <2>1 DEF NoFork
  <2>2. CASE i \in m + 1 .. m + n
    <3>1. i - m \in DOMAIN t /\ c[i] = t[i - m] BY <1>2, <2>2
    <3>. QED BY <3>1 DEF NoFork
  <2>. QED BY <1>2, <2>1, <2>2
<1>4. NoFork(c) BY <1>2, <1>3 DEF NoFork
<1>. QED BY <1>4 DEF c
LEMMA BehindCat == ASSUME NEW s, NEW t, Behind(s), Still(t) PROVE Behind(s \o t)
<1>1. Ptz!IsSeq(s) /\ Ptz!IsSeq(t) /\ Still(t) BY DEF Behind, Still
<1>. DEFINE c == s \o t
           m == Len(s)
           n == Len(t)
<1>2. /\ Ptz!IsSeq(c) /\ m \in Nat /\ n \in Nat
      /\ DOMAIN s = 1 .. m /\ DOMAIN t = 1 .. n /\ DOMAIN c = 1 .. m + n
      /\ \A i \in 1 .. m : c[i] = s[i]
      /\ \A i \in m + 1 .. m + n : c[i] = t[i - m]
  BY <1>1, SeqCat
<1>. HIDE DEF c, m, n
<1>3. ASSUME NEW i \in DOMAIN c, NEW j \in DOMAIN c, i < j, c[i].do = "fork" PROVE ~Movement(c[j])
  <2>1. CASE j \in 1 .. m
    <3>1. i \in DOMAIN s /\ j \in DOMAIN s /\ c[i] = s[i] /\ c[j] = s[j] BY <1>2, <1>3, <2>1
    <3>. QED BY <1>3, <3>1 DEF Behind
  <2>2. CASE j \in m + 1 .. m + n
    <3>1. j - m \in DOMAIN t /\ c[j] = t[j - m] BY <1>2, <2>2
    <3>. QED BY <1>1, <3>1 DEF Still
  <2>. QED BY <1>2, <2>1, <2>2
<1>4. Behind(c) BY <1>2, <1>3 DEF Behind
<1>. QED BY <1>4 DEF c
LEMMA StillTail == ASSUME NEW t, Still(t), t # <<>> PROVE Still(Tail(t)) /\ ~Movement(Head(t))
  BY SeqTail DEF Still
LEMMA BehindTail ==
  ASSUME NEW t, Behind(t), t # <<>>
  PROVE  Behind(Tail(t)) /\ (Head(t).do = "fork" => Still(Tail(t)))
  BY SeqTail DEF Still, Behind

(* The messages of each option, and what they do to the camera.            *)
LEMMA SendStep ==
  ASSUME NEW kind, NEW arg PROVE NoFork(Ptz!Send(kind, arg)) /\ (kind \notin Turning => Still(Ptz!Send(kind, arg)))
<1> DEFINE e == [do |-> "send", msg |-> [kind |-> kind, arg |-> arg]]
<1>1. Ptz!Send(kind, arg) = <<e>> BY DEF Ptz!Send
<1>2. e.do = "send" /\ e.msg.kind = kind OBVIOUS
<1>3. kind \notin Turning => ~Movement(e) BY <1>2 DEF Movement
<1>. HIDE DEF e
<1>. QED BY <1>1, <1>2, <1>3, SeqOne DEF Still, NoFork

LEMMA DoStep ==
  ASSUME NEW what
  PROVE  /\ what # "fork" => NoFork(Ptz!Do(what))
         /\ what \notin {"jump to", "jump by", "send"} => Still(Ptz!Do(what))
<1> DEFINE e == [do |-> what]
<1>1. Ptz!Do(what) = <<e>> BY DEF Ptz!Do
<1>2. e.do = what OBVIOUS
<1>3. what \notin {"jump to", "jump by", "send"} => ~Movement(e) BY <1>2 DEF Movement
<1>. HIDE DEF e
<1>. QED BY <1>1, <1>2, <1>3, SeqOne DEF Still, NoFork

LEMMA WhenStep ==
  ASSUME NEW c, NEW s
  PROVE  /\ (c => NoFork(s)) => NoFork(Ptz!When(c, s))
         /\ (c => Still(s)) => Still(Ptz!When(c, s))
<1>1. NoFork(<<>>) /\ Still(<<>>) BY SeqNone DEF NoFork, Still
<1>2. CASE c
  <2>1. Ptz!When(c, s) = s BY <1>2 DEF Ptz!When
  <2>. QED BY <1>2, <2>1
<1>3. CASE ~c
  <2>1. Ptz!When(c, s) = <<>> BY <1>3 DEF Ptz!When
  <2>. QED BY <1>1, <2>1
<1>. QED BY <1>2, <1>3

Both(s) == Still(s) /\ NoFork(s)
LEMMA BothCat == ASSUME NEW s, NEW t, Both(s), Both(t) PROVE Both(s \o t)
  BY StillCat, NoForkCat DEF Both

LEMMA SetSteps == ASSUME NEW v, NEW o PROVE Both(Ptz!Set(v, o))
<1>1. Both(Ptz!Send("set", <<o, v[o]>>)) BY SendStep DEF Both, Turning
<1>. QED BY <1>1, WhenStep DEF Ptz!Set, Both

LEMMA SettingsSteps == ASSUME NEW v PROVE Both(Ptz!Settings(v))
<1>1. Both(Ptz!Set(v, "t") \o Ptz!Set(v, "s") \o Ptz!Set(v, "l") \o Ptz!Set(v, "v")) BY SetSteps, BothCat
<1>. QED BY SetSteps, BothCat DEF Ptz!Settings

LEMMA MoveSteps ==
  ASSUME NEW v, NEW m PROVE NoFork(Ptz!Move(v, m)) /\ (~Ptz!Given(v, "m") => Still(Ptz!Move(v, m)))
  BY SendStep, WhenStep DEF Ptz!Move

LEMMA JumpsSteps ==
  ASSUME NEW v PROVE NoFork(Ptz!Jumps(v)) /\ (~Ptz!Given(v, "j") /\ ~Ptz!Given(v, "J") => Still(Ptz!Jumps(v)))
<1>1. NoFork(Ptz!Do("read")) /\ NoFork(Ptz!Do("jump to")) /\ NoFork(Ptz!Do("jump by")) BY DoStep
<1>2. NoFork(Ptz!Do("read") \o Ptz!Do("jump to")) /\ NoFork(Ptz!Do("read") \o Ptz!Do("jump by")) BY <1>1, NoForkCat
<1>. QED BY <1>2, WhenStep, NoForkCat, StillCat DEF Ptz!Jumps

LEMMA PresetsSteps ==
  ASSUME NEW v PROVE NoFork(Ptz!Presets(v)) /\ (~Ptz!Given(v, "p") => Still(Ptz!Presets(v)))
<1> DEFINE g == Ptz!Given(v, "p") /\ v["p"] # -1
           a == Ptz!When(g, Ptz!Send("goto", v["p"] % 256))
           b == Ptz!When(Ptz!Given(v, "P"), Ptz!Send("add", "preset"))
           c == Ptz!When(Ptz!Given(v, "g"), Ptz!Do("read"))
           d == Ptz!When(Ptz!Given(v, "u"), Ptz!Do("read"))
           e == Ptz!When(Ptz!Given(v, "H"), Ptz!Send("remove", 0) \o Ptz!Do("sleep") \o Ptz!Send("add", "preset"))
<1>1. NoFork(a) /\ (~Ptz!Given(v, "p") => Still(a)) BY SendStep, WhenStep
<1>2. Both(b) BY SendStep, WhenStep DEF Both, Turning
<1>3. Both(c) /\ Both(d) BY DoStep, WhenStep DEF Both
<1>4. Both(Ptz!Send("remove", 0)) /\ Both(Ptz!Do("sleep")) /\ Both(Ptz!Send("add", "preset"))
  BY SendStep, DoStep DEF Both, Turning
<1>5. Both(Ptz!Send("remove", 0) \o Ptz!Do("sleep") \o Ptz!Send("add", "preset")) BY <1>4, BothCat
<1>6. Both(e) BY <1>5, WhenStep DEF Both
<1>7. Ptz!Presets(v) = a \o b \o c \o d \o e BY DEF Ptz!Presets
<1>. HIDE DEF a, b, c, d, e
<1>. QED BY <1>1, <1>2, <1>3, <1>6, <1>7, StillCat, NoForkCat DEF Both

LEMMA RemoveSteps == ASSUME NEW v PROVE Both(Ptz!RemovePreset(v))
<1> DEFINE e(i) == Ptz!Send("remove", i - 1)[1]
           t == [i \in 1 .. TopPreset + 1 |-> e(i)]
<1>1. ASSUME NEW i PROVE e(i).do = "send" /\ e(i).msg.kind = "remove" BY DEF Ptz!Send
<1>. HIDE DEF e
<1>2. Ptz!IsSeq(t)
  <2>1. TopPreset + 1 \in Nat BY ScriptsAssumption DEF Ptz!CallerConstants, Ptz!PresetConstants
  <2>2. \A i \in 1 .. TopPreset + 1 : t[i] \in Ptz!Range(t) BY DEF Ptz!Range
  <2>3. t \in Seq(Ptz!Range(t)) BY <2>1, <2>2
  <2>. QED BY <2>3 DEF Ptz!IsSeq
<1>3. Both(t) BY <1>1, <1>2 DEF Both, Still, NoFork, Movement, Turning
<1>4. Both(Ptz!Send("remove", v["R"])) BY SendStep DEF Both, Turning
<1>5. Ptz!Given(v, "R") => Both(IF v["R"] = Ptz!All THEN t ELSE Ptz!Send("remove", v["R"])) BY <1>3, <1>4
<1>. QED BY <1>5, WhenStep DEF Ptz!RemovePreset, Both, e

LEMMA CruiseSteps == ASSUME NEW v PROVE Both(Ptz!Cruise(v))
<1>1. Both(Ptz!Send("cruise", v["C"])) /\ Both(Ptz!Do("sleep")) /\ Both(Ptz!Send("cruise", "on"))
  BY SendStep, DoStep DEF Both, Turning
<1>2. Both(Ptz!Send("cruise", "on") \o Ptz!Do("sleep") \o Ptz!Send("cruise", v["C"])) BY <1>1, BothCat
<1>. QED BY <1>1, <1>2, WhenStep DEF Ptz!Cruise, Both

LEMMA MotionSteps == ASSUME NEW v PROVE Still(Ptz!Motion(v))
<1>1. Still(Ptz!Send("motion", "start")) /\ Still(Ptz!Send("motion", "stop")) /\ Still(Ptz!Do("fork")) /\ Still(Ptz!Do("sleep"))
  BY SendStep, DoStep DEF Turning
<1>2. Still(Ptz!Send("motion", "start") \o Ptz!Do("fork") \o Ptz!Do("sleep") \o Ptz!Send("motion", "stop"))
  BY <1>1, StillCat
<1>. QED BY <1>1, <1>2, WhenStep, StillCat DEF Ptz!Motion

LEMMA EndingSteps == ASSUME NEW v PROVE Still(Ptz!Ending(v))
<1>1. Still(Ptz!Do("worker")) /\ Still(Ptz!Send("time", "now")) BY SendStep, DoStep DEF Turning
<1>. QED BY <1>1, WhenStep DEF Ptz!Ending

(* Behind the fork of -S nothing moves the camera; and a run moves it only *)
(* when -m, -M, -j, -J or -p is among its options.                         *)
LEMMA PlanSteps ==
  ASSUME NEW v, NEW m
  PROVE  /\ Behind(Ptz!Plan(v, m))
         /\ ~Ptz!Given(v, "m") /\ ~Ptz!Given(v, "j") /\ ~Ptz!Given(v, "J") /\ ~Ptz!Given(v, "p") => Still(Ptz!Plan(v, m))
<1> DEFINE f == Ptz!When(Ptz!Given(v, "f"), Ptz!Do("file"))
           before == Ptz!Settings(v) \o Ptz!Move(v, m) \o Ptz!Jumps(v) \o Ptz!Presets(v) \o Ptz!RemovePreset(v) \o Ptz!Cruise(v) \o f
<1>1. Both(f) BY DoStep, WhenStep DEF Both
<1>2. Ptz!Plan(v, m) = before \o Ptz!Motion(v) \o Ptz!Ending(v) BY DEF Ptz!Plan
<1>. HIDE DEF f
<1>3. NoFork(before)
  BY <1>1, SettingsSteps, MoveSteps, JumpsSteps, PresetsSteps, RemoveSteps, CruiseSteps, NoForkCat DEF Both
<1>4. ~Ptz!Given(v, "m") /\ ~Ptz!Given(v, "j") /\ ~Ptz!Given(v, "J") /\ ~Ptz!Given(v, "p") => Still(before)
  BY <1>1, SettingsSteps, MoveSteps, JumpsSteps, PresetsSteps, RemoveSteps, CruiseSteps, StillCat DEF Both
<1>. HIDE DEF before
<1>5. Behind(before) BY <1>3 DEF NoFork, Behind
<1>6. Behind(before \o Ptz!Motion(v) \o Ptz!Ending(v)) BY <1>5, MotionSteps, EndingSteps, BehindCat
<1>7. Still(before) => Still(before \o Ptz!Motion(v) \o Ptz!Ending(v)) BY MotionSteps, EndingSteps, StillCat
<1>. QED BY <1>2, <1>4, <1>6, <1>7

-----------------------------------------------------------------------------
(* The options that move the camera, in a run's arguments and in a script. *)
MovingOpts == {"m", "M", "j", "J", "p"}
StillArgs(args) == \A i \in DOMAIN args : args[i].opt \notin MovingOpts
StillJobs(s) == Ptz!IsSeq(s) /\ \A i \in DOMAIN s : s[i].job = "run" => StillArgs(s[i].args)

LEMMA ParseStill ==
  ASSUME NEW args, StillArgs(args), NEW o \in {"m", "j", "J", "p"} PROVE ~Ptz!Given(Ptz!Parse(args), o)
<1>1. ASSUME NEW i \in DOMAIN args PROVE o \notin Ptz!Sets(args[i].opt)
  BY <1>1 DEF Ptz!Sets, StillArgs, MovingOpts
<1>. QED BY <1>1 DEF Ptz!Given, Ptz!Parse, Ptz!Counts

LEMMA ParseJump ==
  ASSUME NEW args, Ptz!IsSeq(args), Len(args) = 1, args[1].opt = "j"
  PROVE  DOMAIN Ptz!Parse(args) = {"j", "xy"} /\ Ptz!Parse(args)["xy"] = args[1].word
<1>1. DOMAIN args = {1} BY DEF Ptz!IsSeq
<1>2. Ptz!Sets("j") = {"j", "xy"} BY DEF Ptz!Sets
<1>3. Ptz!Value("j", args[1].word) = args[1].word BY DEF Ptz!Value, Ptz!SettingOptions
<1>4. \A o : Ptz!Counts(args[1], o) <=> o \in {"j", "xy"} BY <1>2 DEF Ptz!Counts
<1>5. Ptz!Max({1}) = 1 BY DEF Ptz!Max
<1> DEFINE setting(o) == {i \in DOMAIN args : Ptz!Counts(args[i], o)}
           given == {o \in UNION {Ptz!Sets(args[i].opt) : i \in DOMAIN args} : setting(o) # {}}
<1>6. setting("j") = {1} /\ setting("xy") = {1} BY <1>1, <1>4
<1>7. given = {"j", "xy"} BY <1>1, <1>2, <1>4
<1>8. Ptz!Parse(args) = [o \in given |-> Ptz!Value(args[Ptz!Max(setting(o))].opt, args[Ptz!Max(setting(o))].word)]
  BY DEF Ptz!Parse
<1>. HIDE DEF setting, given
<1>. QED BY <1>3, <1>5, <1>6, <1>7, <1>8

LEMMA PlanJump ==
  ASSUME NEW v, NEW m, DOMAIN v = {"j", "xy"} PROVE Ptz!Plan(v, m) = Ptz!Do("read") \o Ptz!Do("jump to")
<1>1. \A o : Ptz!Given(v, o) <=> o \in {"j", "xy"} BY DEF Ptz!Given
<1>2. Ptz!IsSeq(Ptz!Do("read") \o Ptz!Do("jump to"))
  BY SeqOne, SeqCat DEF Ptz!Do
<1>3. Ptz!Jumps(v) = (Ptz!Do("read") \o Ptz!Do("jump to")) \o <<>>
  <2>1. Ptz!Given(v, "j") /\ ~Ptz!Given(v, "J") BY <1>1
  <2>. QED BY <2>1 DEF Ptz!Jumps, Ptz!When
<1>4. Ptz!Jumps(v) = Ptz!Do("read") \o Ptz!Do("jump to") BY <1>2, <1>3, CatNone
<1> DEFINE j == Ptz!Do("read") \o Ptz!Do("jump to")
<1>. HIDE DEF j
<1>5. Ptz!Settings(v) = <<>> BY <1>1 DEF Ptz!Settings, Ptz!Set, Ptz!When
<1>6. Ptz!Move(v, m) = <<>> BY <1>1 DEF Ptz!Move, Ptz!When
<1>7. Ptz!Presets(v) = <<>> BY <1>1 DEF Ptz!Presets, Ptz!When
<1>8. Ptz!RemovePreset(v) = <<>> /\ Ptz!Cruise(v) = <<>> BY <1>1 DEF Ptz!RemovePreset, Ptz!Cruise, Ptz!When
<1>9. Ptz!Motion(v) = <<>> /\ Ptz!Ending(v) = <<>> BY <1>1 DEF Ptz!Motion, Ptz!Ending, Ptz!When
<1>10. Ptz!When(Ptz!Given(v, "f"), Ptz!Do("file")) = <<>> BY <1>1 DEF Ptz!When
<1>11. Ptz!Plan(v, m) = <<>> \o <<>> \o j \o <<>> \o <<>> \o <<>> \o <<>> \o <<>> \o <<>>
  BY <1>4, <1>5, <1>6, <1>7, <1>8, <1>9, <1>10 DEF Ptz!Plan, j
<1>12. Ptz!IsSeq(j) /\ Ptz!IsSeq(<<>>) BY <1>2, SeqNone DEF j
<1>13. Ptz!Plan(v, m) = j BY <1>11, <1>12, CatNone
<1>. QED BY <1>13 DEF j

-----------------------------------------------------------------------------
(* A jump is rounded three times: the angle to ticks, the way there to     *)
(* hundredths of the view, and these by the camera to ticks.               *)
Nearly(n, d, r) == r \in Int /\ 2 * (d * r - n) <= d /\ 2 * (n - d * r) <= d

LEMMA Rounded ==
  ASSUME NEW n \in Int
  PROVE  /\ Nearly(n, 360, Ptz!Round(n, 360)) /\ Nearly(n, 180, Ptz!Round(n, 180))
         /\ Nearly(n, 911, Ptz!Round(n, 911)) /\ Nearly(n, 694, Ptz!Round(n, 694))
         /\ Nearly(n, 100, Ptz!Round(n, 100))
<1>1. Nearly(n, 360, Ptz!Round(n, 360)) BY DEF Nearly, Ptz!Round
<1>2. Nearly(n, 180, Ptz!Round(n, 180)) BY DEF Nearly, Ptz!Round
<1>3. Nearly(n, 911, Ptz!Round(n, 911)) BY DEF Nearly, Ptz!Round
<1>4. Nearly(n, 694, Ptz!Round(n, 694)) BY DEF Nearly, Ptz!Round
<1>5. Nearly(n, 100, Ptz!Round(n, 100)) BY DEF Nearly, Ptz!Round
<1>. QED BY <1>1, <1>2, <1>3, <1>4, <1>5

Columns == 0 .. 4100
Rows == 0 .. 1250
Turn == 0 .. 360
Tilt == 0 .. 180
Place == [x : Columns, y : Rows]
Angles(a) == a.x \in Turn /\ a.y \in Tilt
CloseTo(end, to) ==
  LET r == Ptz!Reported(p_model, end)
  IN /\ Ptz!Within(r.x - to.x * Ptz!MAX_PTZ_X, Ptz!MAX_PTZ_X)
     /\ Ptz!Within(r.y - to.y * Ptz!MAX_PTZ_Y, Ptz!MAX_PTZ_Y)

(* One axis: `to' ticks are asked for from `cur', and at most five missed. *)
Reached(cur, a, size, top, degrees) ==
  LET to == Ptz!Round(a * top, degrees)
      h == Ptz!Round(100 * (to - cur) + 50 * size, size)
  IN Ptz!Clamp(cur + Ptz!Round((h - 50) * size, 100), top)

AlongX(cur, a) == Reached(cur, a, 911, 4100, 360)
AlongY(cur, a) == Reached(cur, a, 694, 1250, 180)
HitsX(end, a) == end \in 0 .. 4100 /\ Ptz!Within(end * 360 - a * 4100, 4100)
HitsY(end, a) == end \in 0 .. 1250 /\ Ptz!Within(end * 180 - a * 1250, 1250)

LEMMA AxisX ==
  ASSUME NEW cur \in Columns, NEW a \in Turn
  PROVE  HitsX(AlongX(cur, a), a)
<1> USE DEF Columns, Rows, Turn, Tilt
<1> DEFINE ticks == a * 4100
           to == Ptz!Round(ticks, 360)
           way == 100 * (to - cur) + 50 * 911
           h == Ptz!Round(way, 911)
           go == (h - 50) * 911
           r == Ptz!Round(go, 100)
           end == Ptz!Clamp(cur + r, 4100)
<1>1. AlongX(cur, a) = end BY DEF AlongX, Reached
<1>2. ticks \in Int OBVIOUS
<1>3. to \in Int /\ 2 * (360 * to - ticks) <= 360 /\ 2 * (ticks - 360 * to) <= 360
  BY <1>2, Rounded DEF Nearly
<1>. HIDE DEF to
<1>4. to \in 0 .. 4100
  <2>1. 0 <= ticks /\ ticks <= 1476000 OBVIOUS
  <2>. HIDE DEF ticks
  <2>. QED BY <1>2, <1>3, <2>1
<1>5. way \in Int BY <1>4
<1>6. h \in Int /\ 2 * (911 * h - way) <= 911 /\ 2 * (way - 911 * h) <= 911 BY <1>5, Rounded DEF Nearly
<1>. HIDE DEF h
<1>7. go \in Int BY <1>6
<1>8. r \in Int /\ 2 * (100 * r - go) <= 100 /\ 2 * (go - 100 * r) <= 100 BY <1>7, Rounded DEF Nearly
<1>. HIDE DEF r
<1>9. (r - (to - cur)) <= 5 /\ ((to - cur) - r) <= 5 BY <1>4, <1>6, <1>8
<1>10. end \in 0 .. 4100 /\ (end - to) <= 5 /\ (to - end) <= 5 BY <1>4, <1>8, <1>9 DEF Ptz!Clamp
<1>. HIDE DEF end
<1>11. HitsX(end, a) BY <1>3, <1>4, <1>10 DEF HitsX, Ptz!Within
<1>. QED BY <1>1, <1>11

LEMMA AxisY ==
  ASSUME NEW cur \in Rows, NEW a \in Tilt
  PROVE  HitsY(AlongY(cur, a), a)
<1> USE DEF Columns, Rows, Turn, Tilt
<1> DEFINE ticks == a * 1250
           to == Ptz!Round(ticks, 180)
           way == 100 * (to - cur) + 50 * 694
           h == Ptz!Round(way, 694)
           go == (h - 50) * 694
           r == Ptz!Round(go, 100)
           end == Ptz!Clamp(cur + r, 1250)
<1>1. AlongY(cur, a) = end BY DEF AlongY, Reached
<1>2. ticks \in Int OBVIOUS
<1>3. to \in Int /\ 2 * (180 * to - ticks) <= 180 /\ 2 * (ticks - 180 * to) <= 180
  BY <1>2, Rounded DEF Nearly
<1>. HIDE DEF to
<1>4. to \in 0 .. 1250
  <2>1. 0 <= ticks /\ ticks <= 225000 OBVIOUS
  <2>. HIDE DEF ticks
  <2>. QED BY <1>2, <1>3, <2>1
<1>5. way \in Int BY <1>4
<1>6. h \in Int /\ 2 * (694 * h - way) <= 694 /\ 2 * (way - 694 * h) <= 694 BY <1>5, Rounded DEF Nearly
<1>. HIDE DEF h
<1>7. go \in Int BY <1>6
<1>8. r \in Int /\ 2 * (100 * r - go) <= 100 /\ 2 * (go - 100 * r) <= 100 BY <1>7, Rounded DEF Nearly
<1>. HIDE DEF r
<1>9. (r - (to - cur)) <= 5 /\ ((to - cur) - r) <= 5 BY <1>4, <1>6, <1>8
<1>10. end \in 0 .. 1250 /\ (end - to) <= 5 /\ (to - end) <= 5 BY <1>4, <1>8, <1>9 DEF Ptz!Clamp
<1>. HIDE DEF end
<1>11. HitsY(end, a) BY <1>3, <1>4, <1>10 DEF HitsY, Ptz!Within
<1>. QED BY <1>1, <1>11

(* So a jump that nothing disturbs ends within a degree.                   *)
LEMMA JumpIsNear ==
  ASSUME NEW cur \in Place, NEW a, Angles(a)
  PROVE  LET end == Ptz!Landed(cur, Ptz!JumpTo(p_model, a, cur)) IN end \in Place /\ CloseTo(end, a)
<1> DEFINE t == Ptz!Turned(p_model, a.y)
           ax == AlongX(cur.x, a.x)
           ay == AlongY(cur.y, t)
<1>1. Ptz!Landed(cur, Ptz!JumpTo(p_model, a, cur)) = [x |-> ax, y |-> ay]
  BY DEF Ptz!Landed, Ptz!JumpTo, AlongX, AlongY, Reached, Ptz!MAX_PTZ_X, Ptz!MAX_PTZ_Y
<1>2. cur.x \in 0 .. 4100 /\ cur.y \in 0 .. 1250 /\ a.x \in 0 .. 360 /\ a.y \in 0 .. 180
  BY DEF Place, Angles, Columns, Rows, Turn, Tilt
<1>3. t \in 0 .. 180 /\ t = IF p_model = "v2alt" THEN 180 - a.y ELSE a.y BY <1>2 DEF Ptz!Turned
<1>. HIDE DEF t
<1>4. HitsX(ax, a.x)
  <2>1. cur.x \in Columns /\ a.x \in Turn BY <1>2 DEF Columns, Turn
  <2>. QED BY <2>1, AxisX
<1>5. HitsY(ay, t)
  <2>1. cur.y \in Rows /\ t \in Tilt BY <1>2, <1>3 DEF Rows, Tilt
  <2>. QED BY <2>1, AxisY
<1>. HIDE DEF ax, ay
<1>6. Ptz!Within((IF p_model = "v2alt" THEN 180 * 1250 - ay * 180 ELSE ay * 180) - a.y * 1250, 1250)
  <2>1. CASE p_model = "v2alt"
    <3>1. PICK b \in 0 .. 180 : b = a.y BY <1>2
    <3>2. t = 180 - b BY <1>3, <2>1, <3>1
    <3>3. Ptz!Within((180 * 1250 - ay * 180) - b * 1250, 1250) BY <1>5, <3>2 DEF HitsY, Ptz!Within
    <3>. QED BY <2>1, <3>1, <3>3
  <2>2. CASE p_model # "v2alt"
    <3>1. Ptz!Within(ay * 180 - a.y * 1250, 1250) BY <1>3, <1>5, <2>2 DEF HitsY
    <3>. QED BY <2>2, <3>1
  <2>. QED BY <2>1, <2>2
<1>7. CloseTo([x |-> ax, y |-> ay], a)
  BY <1>4, <1>6 DEF CloseTo, Ptz!Reported, HitsX, Ptz!MAX_PTZ_X, Ptz!MAX_PTZ_Y
<1>8. [x |-> ax, y |-> ay] \in Place BY <1>4, <1>5 DEF Place, HitsX, HitsY, Columns, Rows
<1>. QED BY <1>1, <1>7, <1>8

-----------------------------------------------------------------------------
(* What the scripts, the runs and the queue are made of.                   *)
ScriptsShape ==
  /\ p_script = [u \in Caller |-> p_script[u]] /\ \A u \in Caller : Ptz!IsSeq(p_script[u])
  /\ Ptz!IsSeq(p_queue)

RunOk(r) ==
  r = [on |-> r.on, v |-> r.v, todo |-> r.todo, cur |-> r.cur] /\ (r.on => Behind(r.todo))
ForeOk(u) == p_run[Ptz!Fore(u)].on => p_script[u] # <<>> /\ Head(p_script[u]).job = "run"
TimerOk(u) == p_run[Ptz!Timer(u)].on => Still(p_run[Ptz!Timer(u)].todo)
RunsShape ==
  /\ p_run = [p \in Ptz!Proc |-> p_run[p]] /\ \A p \in Ptz!Proc : RunOk(p_run[p])
  /\ \A u \in Caller : ForeOk(u) /\ TimerOk(u)

Somewhere == p_pos \in Place /\ p_presets \in [Ptz!Slot -> Place \cup {None}]

Shape == ScriptsShape /\ RunsShape /\ Somewhere

(* While a target is to be reached, nothing that another script has left   *)
(* to do moves the camera: the jump is still to be read for, to be sent,   *)
(* to be carried out, or done.                                             *)
Calm(u) ==
  IF p_run[Ptz!Fore(u)].on THEN Still(p_run[Ptz!Fore(u)].todo) /\ StillJobs(Tail(p_script[u])) ELSE StillJobs(p_script[u])

JumpJob(j) ==
  /\ j.job = "run" /\ Ptz!IsSeq(j.args) /\ Len(j.args) = 1
  /\ j.args[1].opt = "j" /\ j.args[1].word = p_target /\ ~Ptz!Refused(j.args)

Waits(u) ==
  /\ ~p_run[Ptz!Fore(u)].on
  /\ p_script[u] # <<>> /\ Tail(p_script[u]) = <<>> /\ JumpJob(Head(p_script[u]))
ToRead(u) ==
  /\ p_run[Ptz!Fore(u)].on /\ p_run[Ptz!Fore(u)].todo = Ptz!Do("read") \o Ptz!Do("jump to")
  /\ p_run[Ptz!Fore(u)].v["xy"] = p_target /\ Tail(p_script[u]) = <<>>
ToSend(u) ==
  /\ p_run[Ptz!Fore(u)].on /\ p_run[Ptz!Fore(u)].todo = Ptz!Do("jump to") /\ p_run[Ptz!Fore(u)].cur = p_pos
  /\ p_run[Ptz!Fore(u)].v["xy"] = p_target /\ Tail(p_script[u]) = <<>>
Jumper(u) == Waits(u) \/ ToRead(u) \/ ToSend(u)

QuietQueue == \A i \in DOMAIN p_queue : p_queue[i].kind \notin Turning
InFlight ==
  \E k \in DOMAIN p_queue : /\ p_queue[k].kind = "jump" /\ p_queue[k].arg = Ptz!JumpTo(p_model, p_target, p_pos)
                          /\ \A i \in DOMAIN p_queue : i # k => p_queue[i].kind \notin Turning

Underway == QuietQueue /\ \E u \in Caller : Jumper(u) /\ \A w \in Caller : w # u => Calm(w)
Aimed == (\A w \in Caller : Calm(w)) /\ (InFlight \/ (QuietQueue /\ CloseTo(p_pos, p_target)))
Aim == p_target # None => Angles(p_target) /\ (Underway \/ Aimed)

JumpInv == Shape /\ Aim

(* The processes of different callers are different.                       *)
LEMMA Procs ==
  /\ \A u \in Caller : Ptz!Fore(u) \in Ptz!Proc /\ Ptz!Timer(u) \in Ptz!Proc
  /\ \A u, w \in Caller : /\ Ptz!Fore(u) # Ptz!Timer(w) /\ (Ptz!Fore(u) = Ptz!Fore(w) => u = w)
                         /\ (Ptz!Timer(u) = Ptz!Timer(w) => u = w)
                         /\ Ptz!Fore(u)[1] = u /\ Ptz!Fore(u)[2] = "command"
                         /\ Ptz!Timer(u)[1] = u /\ Ptz!Timer(u)[2] = "timer"
  /\ \A p \in Ptz!Proc : \E u \in Caller : p = Ptz!Fore(u) \/ p = Ptz!Timer(u)
<1>1. ASSUME NEW u \in Caller PROVE Ptz!Fore(u) \in Ptz!Proc /\ Ptz!Timer(u) \in Ptz!Proc BY DEF Ptz!Fore, Ptz!Timer, Ptz!Proc
<1>2. ASSUME NEW u \in Caller, NEW w \in Caller
      PROVE  /\ Ptz!Fore(u) # Ptz!Timer(w) /\ (Ptz!Fore(u) = Ptz!Fore(w) => u = w)
             /\ (Ptz!Timer(u) = Ptz!Timer(w) => u = w)
             /\ Ptz!Fore(u)[1] = u /\ Ptz!Fore(u)[2] = "command"
             /\ Ptz!Timer(u)[1] = u /\ Ptz!Timer(u)[2] = "timer"
  BY DEF Ptz!Fore, Ptz!Timer
<1>3. ASSUME NEW p \in Ptz!Proc PROVE \E u \in Caller : p = Ptz!Fore(u) \/ p = Ptz!Timer(u)
  BY DEF Ptz!Fore, Ptz!Timer, Ptz!Proc
<1>. QED BY <1>1, <1>2, <1>3

(* Callers that a step leaves alone.                                       *)
Unmoved(u) == p_script'[u] = p_script[u] /\ p_run'[Ptz!Fore(u)] = p_run[Ptz!Fore(u)]

LEMMA UnmovedCalm == ASSUME NEW u \in Caller, Unmoved(u), Calm(u) PROVE Calm(u)'
  BY DEF Unmoved, Calm

LEMMA UnmovedJumper ==
  ASSUME NEW u \in Caller, Unmoved(u), Jumper(u), p_target' = p_target, p_pos' = p_pos PROVE Jumper(u)'
  BY DEF Unmoved, Jumper, Waits, ToRead, ToSend, JumpJob

(* A message that moves nothing.                                           *)
Adds(m) == p_queue' = Append(p_queue, m)
LEMMA QuietMessage ==
  ASSUME Ptz!IsSeq(p_queue), UNCHANGED <<p_model, p_target, p_pos>>,
         p_queue' = p_queue \/ \E m : Adds(m) /\ m.kind \notin Turning
  PROVE  (QuietQueue => QuietQueue') /\ (InFlight => InFlight')
<1>1. CASE p_queue' = p_queue BY <1>1 DEF QuietQueue, InFlight
<1>2. ASSUME NEW m, Adds(m), m.kind \notin Turning PROVE (QuietQueue => QuietQueue') /\ (InFlight => InFlight')
  <2>1. /\ Len(p_queue) \in Nat /\ DOMAIN p_queue = 1 .. Len(p_queue)
        /\ DOMAIN p_queue' = 1 .. Len(p_queue) + 1
        /\ \A i \in 1 .. Len(p_queue) : p_queue'[i] = p_queue[i]
        /\ p_queue'[Len(p_queue) + 1] = m
    BY <1>2, SeqAppend DEF Adds
  <2>2. \A i \in DOMAIN p_queue' : \/ i \in DOMAIN p_queue /\ p_queue'[i] = p_queue[i]
                                 \/ p_queue'[i].kind \notin Turning
    BY <1>2, <2>1
  <2>3. \A i \in DOMAIN p_queue : i \in DOMAIN p_queue' /\ p_queue'[i] = p_queue[i] BY <2>1
  <2>4. QuietQueue => QuietQueue' BY <2>2 DEF QuietQueue
  <2>5. ASSUME InFlight PROVE InFlight'
    <3>1. PICK k \in DOMAIN p_queue :
             /\ p_queue[k].kind = "jump" /\ p_queue[k].arg = Ptz!JumpTo(p_model, p_target, p_pos)
             /\ \A i \in DOMAIN p_queue : i # k => p_queue[i].kind \notin Turning
      BY <2>5 DEF InFlight
    <3>2. k \in DOMAIN p_queue' /\ p_queue'[k] = p_queue[k] BY <2>3
    <3>3. \A i \in DOMAIN p_queue' : i # k => p_queue'[i].kind \notin Turning BY <2>2, <3>1
    <3>4. Ptz!JumpTo(p_model, p_target, p_pos)' = Ptz!JumpTo(p_model, p_target, p_pos) OBVIOUS
    <3>. QED BY <3>1, <3>2, <3>3, <3>4 DEF InFlight
  <2>. QED BY <2>4, <2>5
<1>. QED BY <1>1, <1>2

(* A step of one caller, and what it must not do.                          *)
LEMMA CallerSteps ==
  ASSUME Shape, Aim, NEW u \in Caller, UNCHANGED <<p_model, p_target, p_pos>>,
         \A w \in Caller : w # u => Unmoved(w),
         Calm(u) => /\ Calm(u)'
                    /\ p_queue' = p_queue \/ \E m : Adds(m) /\ m.kind \notin Turning,
         Jumper(u) /\ QuietQueue => \/ Jumper(u)' /\ QuietQueue'
                                    \/ Calm(u)' /\ InFlight'
  PROVE  Aim'
<1> SUFFICES ASSUME p_target # None PROVE Angles(p_target)' /\ (Underway' \/ Aimed') BY DEF Aim
<1>1. Angles(p_target) /\ Angles(p_target)' BY DEF Aim, Angles
<1>2. ASSUME NEW w \in Caller, w # u PROVE (Calm(w) => Calm(w)') /\ (Jumper(w) => Jumper(w)')
  BY <1>2, UnmovedCalm, UnmovedJumper
<1>3. Ptz!IsSeq(p_queue) BY DEF Shape, ScriptsShape
<1>4. Calm(u) => (QuietQueue => QuietQueue') /\ (InFlight => InFlight') BY <1>3, QuietMessage
<1>5. CASE Aimed
  <2>1. \A w \in Caller : Calm(w)' BY <1>2, <1>5 DEF Aimed
  <2>2. CloseTo(p_pos, p_target)' <=> CloseTo(p_pos, p_target) BY DEF CloseTo, Ptz!Reported
  <2>. QED BY <1>1, <1>4, <1>5, <2>1, <2>2 DEF Aimed
<1>6. CASE Underway
  <2>1. PICK j \in Caller : Jumper(j) /\ \A w \in Caller : w # j => Calm(w) BY <1>6 DEF Underway
  <2>2. CASE j = u
    <3>1. \A w \in Caller : w # u => Calm(w)' BY <1>2, <2>1, <2>2
    <3>2. CASE Jumper(u)' /\ QuietQueue' BY <1>1, <3>1, <3>2 DEF Underway
    <3>3. CASE Calm(u)' /\ InFlight' BY <1>1, <3>1, <3>3 DEF Aimed
    <3>. QED BY <1>6, <2>1, <2>2, <3>2, <3>3 DEF Underway
  <2>3. CASE j # u
    <3>1. Calm(u) BY <2>1, <2>3
    <3>2. Jumper(j)' /\ \A w \in Caller : w # j => Calm(w)' BY <1>2, <2>1, <2>3, <3>1
    <3>3. QuietQueue' BY <1>4, <1>6, <3>1 DEF Underway
    <3>. QED BY <1>1, <3>2, <3>3 DEF Underway
  <2>. QED BY <2>2, <2>3
<1>. QED BY <1>5, <1>6 DEF Aim

-----------------------------------------------------------------------------
(* The parts of the shape, one action after the other.                     *)
LEMMA JobsCat ==
  ASSUME NEW s, NEW t, StillJobs(s), StillJobs(t) PROVE StillJobs(s \o t)
<1>1. Ptz!IsSeq(s) /\ Ptz!IsSeq(t) BY DEF StillJobs
<1>. DEFINE c == s \o t
           m == Len(s)
           n == Len(t)
<1>2. /\ Ptz!IsSeq(c) /\ m \in Nat /\ n \in Nat
      /\ DOMAIN s = 1 .. m /\ DOMAIN t = 1 .. n /\ DOMAIN c = 1 .. m + n
      /\ \A i \in 1 .. m : c[i] = s[i]
      /\ \A i \in m + 1 .. m + n : c[i] = t[i - m]
  BY <1>1, SeqCat
<1>. HIDE DEF c, m, n
<1>3. ASSUME NEW i \in DOMAIN c, c[i].job = "run" PROVE StillArgs(c[i].args)
  <2>1. CASE i \in 1 .. m BY <1>2, <1>3, <2>1 DEF StillJobs
  <2>2. CASE i \in m + 1 .. m + n
    <3>1. i - m \in DOMAIN t /\ c[i] = t[i - m] BY <1>2, <2>2
    <3>. QED BY <1>3, <3>1 DEF StillJobs
  <2>. QED BY <1>2, <2>1, <2>2
<1>4. StillJobs(c) BY <1>2, <1>3 DEF StillJobs
<1>. QED BY <1>4 DEF c

LEMMA JobsTail ==
  ASSUME NEW s, StillJobs(s), s # <<>>
  PROVE  StillJobs(Tail(s)) /\ (Head(s).job = "run" => StillArgs(Head(s).args))
  BY SeqTail DEF StillJobs

LEMMA JobsNone == StillJobs(<<>>)
  BY SeqNone DEF StillJobs

LEMMA JobsWritten == ASSUME NEW table PROVE StillJobs(Ptz!WriteJobs(table))
<1> DEFINE e(i) == [job |-> "write", slot |-> i - 1, name |-> table[i - 1]]
           t == [i \in 1 .. TopPreset + 1 |-> e(i)]
<1>1. ASSUME NEW i PROVE e(i).job = "write" OBVIOUS
<1>2. Ptz!WriteJobs(table) = t BY DEF Ptz!WriteJobs
<1>. HIDE DEF e
<1>3. Ptz!IsSeq(t)
  <2>1. TopPreset + 1 \in Nat BY ScriptsAssumption DEF Ptz!CallerConstants, Ptz!PresetConstants
  <2>2. \A i \in 1 .. TopPreset + 1 : t[i] \in Ptz!Range(t) BY DEF Ptz!Range
  <2>3. t \in Seq(Ptz!Range(t)) BY <2>1, <2>2
  <2>. QED BY <2>3 DEF Ptz!IsSeq
<1>4. \A i \in DOMAIN t : t[i].job # "run" BY <1>1
<1>5. StillJobs(t) BY <1>3, <1>4 DEF StillJobs
<1>. QED BY <1>2, <1>5

(* What a job of editing the file becomes.                                 *)
LEMMA EditedScript ==
  ASSUME ScriptsShape, NEW u \in Caller, Ptz!EditPreset(u)
  PROVE  /\ p_script[u] # <<>> /\ Head(p_script[u]).job = "edit"
         /\ p_script' = [p_script EXCEPT ![u] = p_script'[u]] /\ Ptz!IsSeq(p_script'[u])
         /\ StillJobs(p_script[u]) => StillJobs(p_script'[u])
<1> DEFINE s == p_script[u]
           job == Head(s)
           t == Ptz!Edited(job.kind, job.num, job.name)
           new == IF ~Ptz!Rejected(job) THEN Ptz!WriteJobs(t) \o Tail(s) ELSE IF job.kind = "home" THEN Tail(s) ELSE <<>>
<1>1. s # <<>> /\ job.job = "edit" /\ p_script' = [p_script EXCEPT ![u] = new] BY DEF Ptz!EditPreset
<1>2. p_script'[u] = new BY <1>1 DEF ScriptsShape
<1>3. Ptz!IsSeq(s) BY DEF ScriptsShape
<1>. HIDE DEF s, job, t
<1>4. Ptz!IsSeq(Tail(s)) /\ (StillJobs(s) => StillJobs(Tail(s))) BY <1>1, <1>3, SeqTail, JobsTail
<1>5. Ptz!IsSeq(Ptz!WriteJobs(t)) /\ StillJobs(Ptz!WriteJobs(t)) BY JobsWritten DEF StillJobs
<1>6. Ptz!IsSeq(Ptz!WriteJobs(t) \o Tail(s)) /\ (StillJobs(s) => StillJobs(Ptz!WriteJobs(t) \o Tail(s)))
  BY <1>4, <1>5, SeqCat, JobsCat
<1>7. Ptz!IsSeq(new) /\ (StillJobs(s) => StillJobs(new)) BY <1>4, <1>6, JobsNone, SeqNone
<1>. HIDE DEF new
<1>. QED BY <1>1, <1>2, <1>7 DEF s, job

(* The shape after a step of one caller's script or run.                   *)
LEMMA ShapeOf ==
  ASSUME Shape, NEW u \in Caller, ScriptsShape', Somewhere', p_run' = [q \in Ptz!Proc |-> p_run'[q]],
         RunOk(p_run'[Ptz!Fore(u)]), RunOk(p_run'[Ptz!Timer(u)]), ForeOk(u)', TimerOk(u)',
         \A w \in Caller : w # u => Unmoved(w) /\ p_run'[Ptz!Timer(w)] = p_run[Ptz!Timer(w)]
  PROVE  Shape'
<1>1. ASSUME NEW w \in Caller, w # u PROVE ForeOk(w)' /\ TimerOk(w)' /\ RunOk(p_run'[Ptz!Fore(w)]) /\ RunOk(p_run'[Ptz!Timer(w)])
  <2>1. Unmoved(w) /\ p_run'[Ptz!Timer(w)] = p_run[Ptz!Timer(w)] BY <1>1
  <2>2. ForeOk(w) /\ TimerOk(w) /\ RunOk(p_run[Ptz!Fore(w)]) /\ RunOk(p_run[Ptz!Timer(w)])
    BY Procs DEF Shape, RunsShape
  <2>3. RunOk(p_run'[Ptz!Fore(w)]) /\ RunOk(p_run'[Ptz!Timer(w)]) BY <2>1, <2>2 DEF Unmoved
  <2>. QED BY <2>1, <2>2, <2>3 DEF Unmoved, ForeOk, TimerOk
<1>2. \A w \in Caller : ForeOk(w)' /\ TimerOk(w)' BY <1>1
<1>3. ASSUME NEW p \in Ptz!Proc PROVE RunOk(p_run'[p])
  <2>1. PICK w \in Caller : p = Ptz!Fore(w) \/ p = Ptz!Timer(w) BY Procs
  <2>. QED BY <1>1, <2>1
<1>4. RunsShape' BY <1>2, <1>3 DEF RunsShape, RunOk
<1>. QED BY <1>4 DEF Shape

(* A process that has done a step.                                         *)
Advanced(p, c) == [on |-> TRUE, v |-> p_run[p].v, todo |-> Tail(p_run[p].todo), cur |-> c]

LEMMA Advances ==
  ASSUME Shape, NEW u \in Caller, NEW p \in {Ptz!Fore(u), Ptz!Timer(u)}, NEW c, p_run[p].on, p_run[p].todo # <<>>,
         p_run' = [p_run EXCEPT ![p] = Advanced(p, c)], p_script' = p_script, Ptz!IsSeq(p_queue)',
         UNCHANGED <<p_pos, p_presets>>
  PROVE  /\ Shape' /\ \A w \in Caller : w # u => Unmoved(w)
         /\ p = Ptz!Timer(u) => Unmoved(u) /\ ~Movement(Head(p_run[p].todo))
         /\ p = Ptz!Fore(u) => p_run'[Ptz!Fore(u)] = Advanced(p, c)
         /\ p = Ptz!Fore(u) /\ Calm(u) => Calm(u)' /\ ~Movement(Head(p_run[p].todo))
<1>1. \A w \in Caller : /\ Ptz!Fore(w) \in Ptz!Proc /\ Ptz!Timer(w) \in Ptz!Proc
                        /\ w # u => Ptz!Fore(w) # p /\ Ptz!Timer(w) # p
  BY Procs
<1>2. p \in Ptz!Proc /\ Ptz!Fore(u) # Ptz!Timer(u) BY Procs
<1>3. p_run = [q \in Ptz!Proc |-> p_run[q]] BY DEF Shape, RunsShape
<1>4. p_run'[p] = Advanced(p, c) /\ \A q \in Ptz!Proc : q # p => p_run'[q] = p_run[q] BY <1>2, <1>3
<1>5. p_run' = [q \in Ptz!Proc |-> p_run'[q]] BY <1>2, <1>3
<1>6. \A w \in Caller : w # u => Unmoved(w) /\ p_run'[Ptz!Timer(w)] = p_run[Ptz!Timer(w)] BY <1>1, <1>4 DEF Unmoved
<1>7. ScriptsShape' BY DEF Shape, ScriptsShape
<1>8. Somewhere' BY DEF Shape, Somewhere
<1>9. RunOk(p_run[p]) /\ RunOk(p_run[Ptz!Fore(u)]) /\ RunOk(p_run[Ptz!Timer(u)]) /\ ForeOk(u) /\ TimerOk(u)
  BY <1>1, <1>2 DEF Shape, RunsShape
<1>10. Behind(Tail(p_run[p].todo)) BY <1>9, BehindTail DEF RunOk
<1>11. RunOk(Advanced(p, c)) /\ Advanced(p, c).on /\ Advanced(p, c).todo = Tail(p_run[p].todo)
  BY <1>10 DEF RunOk, Advanced
<1>12. p = Ptz!Timer(u) => Still(Tail(p_run[p].todo)) /\ ~Movement(Head(p_run[p].todo)) BY <1>9, StillTail DEF TimerOk
<1>13. CASE p = Ptz!Fore(u)
  <2>1. p_run'[Ptz!Fore(u)] = Advanced(p, c) /\ p_run'[Ptz!Timer(u)] = p_run[Ptz!Timer(u)] BY <1>1, <1>2, <1>4, <1>13
  <2>2. ForeOk(u)' BY <1>9, <1>13 DEF ForeOk
  <2>3. TimerOk(u)' BY <1>9, <2>1 DEF TimerOk
  <2>4. Shape' BY <1>5, <1>6, <1>7, <1>8, <1>9, <1>11, <2>1, <2>2, <2>3, ShapeOf
  <2>5. Calm(u) => Still(p_run[p].todo) /\ StillJobs(Tail(p_script[u])) BY <1>13 DEF Calm
  <2>6. Calm(u) => Still(Tail(p_run[p].todo)) /\ ~Movement(Head(p_run[p].todo)) BY <2>5, StillTail
  <2>7. Calm(u) => Calm(u)' BY <1>11, <2>1, <2>5, <2>6 DEF Calm
  <2>. QED BY <1>2, <1>6, <1>13, <2>1, <2>4, <2>6, <2>7
<1>14. CASE p = Ptz!Timer(u)
  <2>1. p_run'[Ptz!Timer(u)] = Advanced(p, c) /\ p_run'[Ptz!Fore(u)] = p_run[Ptz!Fore(u)] BY <1>1, <1>2, <1>4, <1>14
  <2>2. ForeOk(u)' BY <1>9, <2>1 DEF ForeOk
  <2>3. TimerOk(u)' BY <1>11, <1>12, <1>14, <2>1 DEF TimerOk
  <2>4. Shape' BY <1>5, <1>6, <1>7, <1>8, <1>9, <1>11, <2>1, <2>2, <2>3, ShapeOf
  <2>. QED BY <1>2, <1>6, <1>12, <1>14, <2>1, <2>4 DEF Unmoved
<1>. QED BY <1>13, <1>14

(* A process that ends.                                                    *)
LEMMA IdleRun == RunOk(Ptz!Idle) /\ ~Ptz!Idle.on
  BY DEF RunOk, Ptz!Idle

LEMMA Ends ==
  ASSUME Shape, NEW u \in Caller, NEW p \in {Ptz!Fore(u), Ptz!Timer(u)}, NEW s, Ptz!IsSeq(s),
         p_run' = [p_run EXCEPT ![p] = Ptz!Idle], Ptz!IsSeq(p_queue)', UNCHANGED <<p_pos, p_presets>>,
         p_script' = IF p = Ptz!Timer(u) THEN p_script ELSE [p_script EXCEPT ![u] = s]
  PROVE  /\ Shape' /\ \A w \in Caller : w # u => Unmoved(w)
         /\ p = Ptz!Timer(u) => Unmoved(u)
         /\ p = Ptz!Fore(u) => ~p_run'[Ptz!Fore(u)].on /\ p_script'[u] = s
<1>1. \A w \in Caller : /\ Ptz!Fore(w) \in Ptz!Proc /\ Ptz!Timer(w) \in Ptz!Proc
                        /\ w # u => Ptz!Fore(w) # p /\ Ptz!Timer(w) # p
  BY Procs
<1>2. p \in Ptz!Proc /\ Ptz!Fore(u) # Ptz!Timer(u) BY Procs
<1>3. p_run = [q \in Ptz!Proc |-> p_run[q]] BY DEF Shape, RunsShape
<1>4. p_run'[p] = Ptz!Idle /\ \A q \in Ptz!Proc : q # p => p_run'[q] = p_run[q] BY <1>2, <1>3
<1>5. p_run' = [q \in Ptz!Proc |-> p_run'[q]] BY <1>2, <1>3
<1>6. ScriptsShape /\ p_script = [w \in Caller |-> p_script[w]] BY DEF Shape, ScriptsShape
<1>7. \A w \in Caller : w # u => p_script'[w] = p_script[w] BY <1>6
<1>8. p = Ptz!Fore(u) => p_script'[u] = s BY <1>2, <1>6
<1>9. ScriptsShape'
  <2>1. CASE p = Ptz!Timer(u) BY <1>6, <2>1 DEF ScriptsShape
  <2>2. CASE p # Ptz!Timer(u)
    <3>1. p_script' = [p_script EXCEPT ![u] = s] BY <2>2
    <3>2. p_script'[u] = s /\ p_script' = [w \in Caller |-> p_script'[w]] BY <1>6, <3>1
    <3>3. \A w \in Caller : Ptz!IsSeq(p_script'[w]) BY <1>6, <1>7, <3>2 DEF ScriptsShape
    <3>. QED BY <3>2, <3>3 DEF ScriptsShape
  <2>. QED BY <2>1, <2>2
<1>10. \A w \in Caller : w # u => Unmoved(w) /\ p_run'[Ptz!Timer(w)] = p_run[Ptz!Timer(w)] BY <1>1, <1>4, <1>7 DEF Unmoved
<1>11. Somewhere' BY DEF Shape, Somewhere
<1>12. RunOk(p_run[Ptz!Fore(u)]) /\ RunOk(p_run[Ptz!Timer(u)]) /\ ForeOk(u) /\ TimerOk(u)
  BY <1>1 DEF Shape, RunsShape
<1>13. CASE p = Ptz!Fore(u)
  <2>1. p_run'[Ptz!Fore(u)] = Ptz!Idle /\ p_run'[Ptz!Timer(u)] = p_run[Ptz!Timer(u)] BY <1>1, <1>2, <1>4, <1>13
  <2>2. ForeOk(u)' BY <2>1, IdleRun DEF ForeOk
  <2>3. TimerOk(u)' BY <1>12, <2>1 DEF TimerOk
  <2>4. Shape' BY <1>5, <1>9, <1>10, <1>11, <1>12, <2>1, <2>2, <2>3, IdleRun, ShapeOf
  <2>. QED BY <1>2, <1>8, <1>10, <1>13, <2>1, <2>4, IdleRun
<1>14. CASE p = Ptz!Timer(u)
  <2>1. p_run'[Ptz!Timer(u)] = Ptz!Idle /\ p_run'[Ptz!Fore(u)] = p_run[Ptz!Fore(u)] /\ p_script' = p_script
    BY <1>1, <1>2, <1>4, <1>14
  <2>2. ForeOk(u)' BY <1>12, <2>1 DEF ForeOk
  <2>3. TimerOk(u)' BY <2>1, IdleRun DEF TimerOk
  <2>4. Shape' BY <1>5, <1>9, <1>10, <1>11, <1>12, <2>1, <2>2, <2>3, IdleRun, ShapeOf
  <2>. QED BY <1>2, <1>10, <1>14, <2>1, <2>4 DEF Unmoved
<1>. QED BY <1>13, <1>14

-----------------------------------------------------------------------------
(* Every step keeps the shape and the aim.                                 *)
LEMMA AnglesOfJump == ASSUME NEW a, Ptz!AnglesTake("j", a) PROVE Angles(a)
  BY SMT DEF Ptz!AnglesTake, Angles, Turn, Tilt

LEMMA EmptySeq == ASSUME NEW S, NEW s \in Seq(S), Len(s) = 0 PROVE s = <<>>
  OBVIOUS

LEMMA TailOfOne == ASSUME NEW s, Ptz!IsSeq(s), Len(s) = 1 PROVE s # <<>> /\ Tail(s) = <<>> /\ Head(s) = s[1]
<1>1. s # <<>> BY SeqNone
<1>2. Ptz!IsSeq(Tail(s)) /\ Len(Tail(s)) = 0 /\ Head(s) = s[1] BY <1>1, SeqTail
<1>3. Tail(s) \in Seq(Ptz!Range(Tail(s))) BY <1>2 DEF Ptz!IsSeq
<1>4. Tail(s) = <<>> BY <1>2, <1>3, EmptySeq
<1>. QED BY <1>1, <1>2, <1>4

LEMMA BeginKeeps == ASSUME JumpInv, NEW u \in Caller, NEW op \in Ops, Ptz!Begin(u, op) PROVE JumpInv'
<1> DEFINE aims == Ptz!Jump(op) /\ Ptz!Quiet /\ p_moving = "stop"
<1>1. /\ p_script[u] = <<>> /\ p_script' = [p_script EXCEPT ![u] = op]
      /\ UNCHANGED <<p_model, p_run, p_queue, p_pos, p_presets>>
      /\ p_target' = IF aims THEN op[1].args[1].word ELSE IF Ptz!Moves(op) THEN None ELSE p_target
  BY DEF Ptz!Begin, Ptz!camera
<1>2. Ptz!IsSeq(op) /\ \A i \in DOMAIN op : op[i].job = "run" => Ptz!IsSeq(op[i].args)
  BY ScriptsAssumption DEF Ptz!CallerConstants, Ptz!IsScript
<1>. HIDE DEF aims
<1>3. Shape /\ Aim BY DEF JumpInv
<1>4. p_script'[u] = op /\ ScriptsShape' BY <1>1, <1>2, <1>3 DEF Shape, ScriptsShape
<1>5. \A w \in Caller : w # u => Unmoved(w) /\ p_run'[Ptz!Timer(w)] = p_run[Ptz!Timer(w)]
  BY <1>1, <1>3 DEF Shape, ScriptsShape, Unmoved
<1>6. \A w \in Caller : RunOk(p_run[Ptz!Fore(w)]) /\ RunOk(p_run[Ptz!Timer(w)]) /\ ForeOk(w) /\ TimerOk(w)
  BY <1>3, Procs DEF Shape, RunsShape
<1>7. ~p_run[Ptz!Fore(u)].on BY <1>1, <1>6 DEF ForeOk
<1>8. Somewhere' BY <1>1, <1>3 DEF Shape, Somewhere
<1>9. p_run' = [q \in Ptz!Proc |-> p_run'[q]] BY <1>1, <1>3 DEF Shape, RunsShape
<1>10. ForeOk(u)' /\ TimerOk(u)' BY <1>1, <1>6, <1>7 DEF ForeOk, TimerOk
<1>11. RunOk(p_run'[Ptz!Fore(u)]) /\ RunOk(p_run'[Ptz!Timer(u)]) BY <1>1, <1>6
<1>12. Shape' BY <1>3, <1>4, <1>5, <1>8, <1>9, <1>10, <1>11, ShapeOf
<1>13. CASE aims
  <2>1. Ptz!Jump(op) /\ Ptz!Quiet BY <1>13 DEF aims
  <2>2. /\ Len(op) = 1 /\ op[1].job = "run" /\ Len(op[1].args) = 1
        /\ op[1].args[1].opt = "j" /\ ~Ptz!Refused(op[1].args)
    BY <2>1 DEF Ptz!Jump
  <2>3. op # <<>> /\ Tail(op) = <<>> /\ Head(op) = op[1] BY <1>2, <2>2, TailOfOne
  <2>4. p_target' = op[1].args[1].word BY <1>1, <1>13
  <2>5. 1 \in DOMAIN op /\ Ptz!IsSeq(op[1].args) /\ 1 \in DOMAIN op[1].args
    <3>1. 1 \in DOMAIN op BY <1>2, <2>2 DEF Ptz!IsSeq
    <3>2. Ptz!IsSeq(op[1].args) BY <1>2, <2>2, <3>1
    <3>3. 1 \in DOMAIN op[1].args BY <2>2, <3>2 DEF Ptz!IsSeq
    <3>. QED BY <3>1, <3>2, <3>3
  <2>6. JumpJob(op[1])' BY <2>2, <2>4, <2>5 DEF JumpJob
  <2>7. Waits(u)' BY <1>1, <1>4, <1>7, <2>3, <2>6 DEF Waits
  <2>8. \A w \in Caller : p_script[w] = <<>> /\ ~p_run[Ptz!Fore(w)].on BY <1>6, <2>1 DEF Ptz!Quiet, ForeOk
  <2>9. \A w \in Caller : w # u => Calm(w)' BY <1>5, <2>8, JobsNone DEF Calm, Unmoved
  <2>10. p_queue' = <<>> /\ QuietQueue' BY <1>1, <2>1, SeqNone DEF Ptz!Quiet, QuietQueue
  <2>11. Angles(p_target)'
    <3>1. Ptz!Takes("j", op[1].args[1].word) BY <2>2, <2>5 DEF Ptz!Refused
    <3>2. Ptz!AnglesTake("j", op[1].args[1].word) BY <3>1 DEF Ptz!Takes, Ptz!SettingOptions
    <3>. QED BY <2>4, <3>2, AnglesOfJump DEF Angles
  <2>12. Underway' BY <2>7, <2>9, <2>10 DEF Underway, Jumper
  <2>. QED BY <1>12, <2>11, <2>12 DEF JumpInv, Aim
<1>14. CASE ~aims /\ Ptz!Moves(op)
  <2>1. p_target' = None BY <1>1, <1>14
  <2>. QED BY <1>12, <2>1 DEF JumpInv, Aim
<1>15. CASE ~aims /\ ~Ptz!Moves(op)
  <2>1. p_target' = p_target BY <1>1, <1>15
  <2>2. ASSUME NEW i \in DOMAIN op, op[i].job = "run" PROVE StillArgs(op[i].args)
    BY <1>15, <2>2 DEF Ptz!Moves, StillArgs, Ptz!Range, MovingOpts
  <2>3. StillJobs(op) BY <1>2, <2>2 DEF StillJobs
  <2>4. Calm(u)' BY <1>1, <1>4, <1>7, <2>3 DEF Calm
  <2>5. ~Jumper(u) BY <1>1, <1>7 DEF Jumper, Waits, ToRead, ToSend
  <2>6. Aim' BY <1>1, <1>3, <1>5, <2>1, <2>4, <2>5, CallerSteps
  <2>. QED BY <1>12, <2>6 DEF JumpInv
<1>. QED BY <1>13, <1>14, <1>15

(* A step that changes one script only, and takes no run from it.          *)
LEMMA ScriptKeeps ==
  ASSUME JumpInv, NEW u \in Caller, NEW s, Ptz!IsSeq(s), p_script' = [p_script EXCEPT ![u] = s],
         StillJobs(p_script[u]) => StillJobs(s), ~p_run[Ptz!Fore(u)].on, ~Waits(u) \/ p_target = None,
         UNCHANGED <<p_model, p_run, p_queue, p_pos, p_presets, p_target>>
  PROVE  JumpInv'
<1>1. Shape /\ Aim BY DEF JumpInv
<1>2. p_script'[u] = s /\ ScriptsShape' BY <1>1 DEF Shape, ScriptsShape
<1>3. \A w \in Caller : w # u => Unmoved(w) /\ p_run'[Ptz!Timer(w)] = p_run[Ptz!Timer(w)]
  BY <1>1 DEF Shape, ScriptsShape, Unmoved
<1>4. \A w \in Caller : RunOk(p_run[Ptz!Fore(w)]) /\ RunOk(p_run[Ptz!Timer(w)]) /\ ForeOk(w) /\ TimerOk(w)
  BY <1>1, Procs DEF Shape, RunsShape
<1>5. Somewhere' BY <1>1 DEF Shape, Somewhere
<1>6. p_run' = [q \in Ptz!Proc |-> p_run'[q]] BY <1>1 DEF Shape, RunsShape
<1>7. ForeOk(u)' /\ TimerOk(u)' BY <1>4 DEF ForeOk, TimerOk
<1>8. RunOk(p_run'[Ptz!Fore(u)]) /\ RunOk(p_run'[Ptz!Timer(u)]) BY <1>4
<1>9. Shape' BY <1>1, <1>2, <1>3, <1>5, <1>6, <1>7, <1>8, ShapeOf
<1>10. Calm(u) => Calm(u)' BY <1>2 DEF Calm
<1>11. CASE p_target = None BY <1>9, <1>11 DEF JumpInv, Aim
<1>12. CASE ~Waits(u)
  <2>1. ~Jumper(u) BY <1>12 DEF Jumper, ToRead, ToSend
  <2>2. Aim' BY <1>1, <1>3, <1>10, <2>1, CallerSteps
  <2>. QED BY <1>9, <2>2 DEF JumpInv
<1>. QED BY <1>11, <1>12

LEMMA EditKeeps == ASSUME JumpInv, NEW u \in Caller, Ptz!EditPreset(u) PROVE JumpInv'
<1>1. Shape BY DEF JumpInv
<1>2. /\ p_script[u] # <<>> /\ Head(p_script[u]).job = "edit"
      /\ p_script' = [p_script EXCEPT ![u] = p_script'[u]] /\ Ptz!IsSeq(p_script'[u])
      /\ StillJobs(p_script[u]) => StillJobs(p_script'[u])
  BY <1>1, EditedScript DEF Shape
<1>3. UNCHANGED <<p_model, p_run, p_queue, p_pos, p_presets, p_target>> BY DEF Ptz!EditPreset, Ptz!camera
<1>4. ~p_run[Ptz!Fore(u)].on BY <1>1, <1>2 DEF Shape, RunsShape, ForeOk
<1>5. ~Waits(u) BY <1>2 DEF Waits, JumpJob
<1>. QED BY <1>2, <1>3, <1>4, <1>5, ScriptKeeps

LEMMA WriteKeeps == ASSUME JumpInv, NEW u \in Caller, Ptz!WriteLine(u) PROVE JumpInv'
<1>1. Shape BY DEF JumpInv
<1>2. /\ p_script[u] # <<>> /\ Head(p_script[u]).job = "write"
      /\ p_script' = [p_script EXCEPT ![u] = Tail(p_script[u])]
      /\ UNCHANGED <<p_model, p_run, p_queue, p_pos, p_presets, p_target>>
  BY DEF Ptz!WriteLine, Ptz!camera
<1>3. Ptz!IsSeq(p_script[u]) BY <1>1 DEF Shape, ScriptsShape
<1>4. Ptz!IsSeq(Tail(p_script[u])) /\ (StillJobs(p_script[u]) => StillJobs(Tail(p_script[u])))
  BY <1>2, <1>3, SeqTail, JobsTail
<1>5. ~p_run[Ptz!Fore(u)].on BY <1>1, <1>2 DEF Shape, RunsShape, ForeOk
<1>6. ~Waits(u) BY <1>2 DEF Waits, JumpJob
<1>. QED BY <1>2, <1>4, <1>5, <1>6, ScriptKeeps

(* A failure gives up the target.                                          *)
LEMMA FailKeeps ==
  ASSUME JumpInv, NEW p \in Ptz!Proc, Ptz!Failed(p), UNCHANGED <<p_pos, p_presets>>,
         p[2] = "command" => p_script[p[1]] # <<>>
  PROVE  JumpInv'
<1>1. Shape /\ p_target' = None /\ p_queue' = p_queue BY DEF JumpInv, Ptz!Failed
<1>2. PICK u \in Caller : p = Ptz!Fore(u) \/ p = Ptz!Timer(u) BY Procs
<1>3. /\ p[1] = u /\ Ptz!Fore(u) # Ptz!Timer(u) /\ (p[2] = "timer" <=> p = Ptz!Timer(u))
      /\ p = Ptz!Fore(u) => p[2] = "command"
  BY <1>2, Procs
<1> DEFINE s == IF p = Ptz!Timer(u) \/ Head(p_script[u]).must THEN <<>> ELSE Tail(p_script[u])
<1>4. Ptz!IsSeq(p_script[u]) /\ Ptz!IsSeq(p_queue) /\ p_script = [w \in Caller |-> p_script[w]] BY <1>1 DEF Shape, ScriptsShape
<1>5. Ptz!IsSeq(s) BY <1>2, <1>3, <1>4, SeqTail, SeqNone
<1>6. p_run' = [p_run EXCEPT ![p] = Ptz!Idle] BY DEF Ptz!Failed
<1>7. p_script' = IF p = Ptz!Timer(u) THEN p_script ELSE [p_script EXCEPT ![u] = s]
  <2>1. CASE p = Ptz!Timer(u)
    <3>1. p_script' = [p_script EXCEPT ![u] = @] BY <1>3, <2>1 DEF Ptz!Failed, Ptz!Leave
    <3>. QED BY <1>4, <2>1, <3>1
  <2>2. CASE p # Ptz!Timer(u)
    <3>1. p_script[u] # <<>> BY <1>2, <1>3, <2>2
    <3>. QED BY <1>3, <2>2, <3>1 DEF Ptz!Failed, Ptz!Leave
  <2>. QED BY <2>1, <2>2
<1>8. Ptz!IsSeq(p_queue)' BY <1>1, <1>4 DEF Ptz!IsSeq, Ptz!Range
<1>. HIDE DEF s
<1>9. Shape' BY <1>1, <1>2, <1>5, <1>6, <1>7, <1>8, Ends
<1>. QED BY <1>1, <1>9 DEF JumpInv, Aim

(* A command begins: its options are parsed, and its plan is made.         *)
LEMMA RunKeeps ==
  ASSUME JumpInv, NEW u \in Caller, p_script[u] # <<>>, Head(p_script[u]).job = "run", ~p_run[Ptz!Fore(u)].on,
         NEW args, args = Head(p_script[u]).args, NEW r,
         r = [on |-> TRUE, v |-> Ptz!Parse(args), todo |-> Ptz!Plan(Ptz!Parse(args), p_model), cur |-> None],
         p_run' = [p_run EXCEPT ![Ptz!Fore(u)] = r], UNCHANGED <<p_script, p_queue, p_target, p_model, p_pos, p_presets>>
  PROVE  JumpInv'
<1>1. Shape /\ Aim BY DEF JumpInv
<1>2. \A w \in Caller : /\ Ptz!Fore(w) \in Ptz!Proc /\ Ptz!Timer(w) \in Ptz!Proc
                        /\ w # u => Ptz!Fore(w) # Ptz!Fore(u)
                        /\ Ptz!Timer(w) # Ptz!Fore(u)
  BY Procs
<1>3. p_run = [q \in Ptz!Proc |-> p_run[q]] BY <1>1 DEF Shape, RunsShape
<1>4. p_run'[Ptz!Fore(u)] = r /\ \A q \in Ptz!Proc : q # Ptz!Fore(u) => p_run'[q] = p_run[q] BY <1>2, <1>3
<1>5. p_run' = [q \in Ptz!Proc |-> p_run'[q]] BY <1>2, <1>3
<1>6. \A w \in Caller : w # u => Unmoved(w) /\ p_run'[Ptz!Timer(w)] = p_run[Ptz!Timer(w)] BY <1>2, <1>4 DEF Unmoved
<1>7. ScriptsShape' /\ Somewhere' BY <1>1 DEF Shape, ScriptsShape, Somewhere
<1>8. r.on /\ r.v = Ptz!Parse(args) /\ r.todo = Ptz!Plan(Ptz!Parse(args), p_model)
      /\ r = [on |-> r.on, v |-> r.v, todo |-> r.todo, cur |-> r.cur]
  OBVIOUS
<1>9. Behind(r.todo) BY <1>8, PlanSteps
<1>10. RunOk(p_run'[Ptz!Fore(u)]) BY <1>4, <1>8, <1>9 DEF RunOk
<1>11. RunOk(p_run[Ptz!Timer(u)]) /\ TimerOk(u) BY <1>1, <1>2 DEF Shape, RunsShape
<1>12. p_run'[Ptz!Timer(u)] = p_run[Ptz!Timer(u)] BY <1>2, <1>4
<1>13. ForeOk(u)' /\ TimerOk(u)' BY <1>11, <1>12 DEF ForeOk, TimerOk
<1>14. Shape' BY <1>1, <1>5, <1>6, <1>7, <1>10, <1>11, <1>12, <1>13, ShapeOf
<1>15. ASSUME Calm(u) PROVE Calm(u)'
  <2>1. StillJobs(p_script[u]) BY <1>15 DEF Calm
  <2>2. StillJobs(Tail(p_script[u])) /\ StillArgs(args) BY <2>1, JobsTail
  <2>3. Still(Ptz!Plan(Ptz!Parse(args), p_model)) BY <2>2, ParseStill, PlanSteps
  <2>. QED BY <1>4, <1>8, <2>2, <2>3 DEF Calm
<1>16. ASSUME Jumper(u) PROVE Jumper(u)'
  <2>1. Waits(u) BY <1>16 DEF Jumper, ToRead, ToSend
  <2>2. /\ Tail(p_script[u]) = <<>> /\ Ptz!IsSeq(args) /\ Len(args) = 1
        /\ args[1].opt = "j" /\ args[1].word = p_target
    BY <2>1 DEF Waits, JumpJob
  <2>3. DOMAIN Ptz!Parse(args) = {"j", "xy"} /\ Ptz!Parse(args)["xy"] = p_target BY <2>2, ParseJump
  <2>4. Ptz!Plan(Ptz!Parse(args), p_model) = Ptz!Do("read") \o Ptz!Do("jump to") BY <2>3, PlanJump
  <2>5. ToRead(u)' BY <1>4, <1>8, <2>2, <2>3, <2>4 DEF ToRead
  <2>. QED BY <2>5 DEF Jumper
<1>17. QuietQueue => QuietQueue' BY DEF QuietQueue
<1>18. Aim' BY <1>1, <1>6, <1>15, <1>16, <1>17, CallerSteps
<1>. QED BY <1>14, <1>18 DEF JumpInv

LEMMA OpenKeeps == ASSUME JumpInv, NEW u \in Caller, Ptz!Open(u) PROVE JumpInv'
<1> DEFINE args == Head(p_script[u]).args
           r == [on |-> TRUE, v |-> Ptz!Parse(args), todo |-> Ptz!Plan(Ptz!Parse(args), p_model), cur |-> None]
<1>1. /\ p_script[u] # <<>> /\ Head(p_script[u]).job = "run" /\ ~p_run[Ptz!Fore(u)].on
      /\ UNCHANGED <<p_model, p_pos, p_presets>>
      /\ \/ /\ Ptz!Refused(args) /\ p_script' = [p_script EXCEPT ![u] = Tail(p_script[u])]
            /\ UNCHANGED <<p_run, p_queue, p_target>>
         \/ p_run' = [p_run EXCEPT ![Ptz!Fore(u)] = r] /\ UNCHANGED <<p_script, p_queue, p_target>>
         \/ Ptz!Failed(Ptz!Fore(u))
  BY DEF Ptz!Open, Ptz!camera
<1>. HIDE DEF args, r
<1>2. CASE Ptz!Refused(args) /\ p_script' = [p_script EXCEPT ![u] = Tail(p_script[u])] /\ UNCHANGED <<p_run, p_queue, p_target>>
  <2>1. ~Waits(u) BY <1>2 DEF Waits, JumpJob, args
  <2>2. Ptz!IsSeq(p_script[u]) BY DEF JumpInv, Shape, ScriptsShape
  <2>3. Ptz!IsSeq(Tail(p_script[u])) /\ (StillJobs(p_script[u]) => StillJobs(Tail(p_script[u])))
    BY <1>1, <2>2, SeqTail, JobsTail
  <2>. QED BY <1>1, <1>2, <2>1, <2>3, ScriptKeeps
<1>3. CASE p_run' = [p_run EXCEPT ![Ptz!Fore(u)] = r] /\ UNCHANGED <<p_script, p_queue, p_target>>
  BY <1>1, <1>3, RunKeeps DEF args, r
<1>4. CASE Ptz!Failed(Ptz!Fore(u))
  <2>1. Ptz!Fore(u) \in Ptz!Proc /\ Ptz!Fore(u)[1] = u BY Procs
  <2>. QED BY <1>1, <1>4, <2>1, FailKeeps
<1>. QED BY <1>1, <1>2, <1>3, <1>4

-----------------------------------------------------------------------------
(* The steps of a command.                                                 *)
LEMMA PairOfTwo == ASSUME NEW a, NEW b PROVE <<a>> \o <<b>> = <<a, b>>
<1> DEFINE f == <<a>> \o <<b>>
           g == <<a, b>>
<1>1. <<a>> \in Seq({a, b}) /\ <<b>> \in Seq({a, b}) OBVIOUS
<1>2. f \in Seq({a, b}) BY <1>1
<1>3. Len(f) = 2 /\ f[1] = a /\ f[2] = b BY <1>1, <1>2
<1>4. f = [i \in 1 .. 2 |-> f[i]] BY <1>2, <1>3
<1>5. g = [i \in 1 .. 2 |-> g[i]] /\ g[1] = a /\ g[2] = b OBVIOUS
<1>. HIDE DEF f, g
<1>6. \A i \in 1 .. 2 : f[i] = g[i] BY <1>3, <1>5
<1>7. f = g BY <1>4, <1>5, <1>6
<1>. QED BY <1>7 DEF f, g

LEMMA JumpSteps ==
  /\ Head(Ptz!Do("read") \o Ptz!Do("jump to")).do = "read" /\ Tail(Ptz!Do("read") \o Ptz!Do("jump to")) = Ptz!Do("jump to")
  /\ Head(Ptz!Do("jump to")).do = "jump to" /\ Tail(Ptz!Do("jump to")) = <<>>
  /\ Ptz!Do("read") \o Ptz!Do("jump to") # <<>> /\ Ptz!Do("jump to") # <<>>
<1> DEFINE a == [do |-> "read"]
           b == [do |-> "jump to"]
<1>1. Ptz!Do("read") = <<a>> /\ Ptz!Do("jump to") = <<b>> BY DEF Ptz!Do
<1>2. a.do = "read" /\ b.do = "jump to" OBVIOUS
<1>. HIDE DEF a, b
<1>3. <<a>> \o <<b>> = <<a, b>> BY PairOfTwo
<1>4. Head(<<a, b>>) = a /\ Tail(<<a, b>>) = <<b>> /\ Head(<<b>>) = b /\ Tail(<<b>>) = <<>> OBVIOUS
<1>5. <<a, b>> # <<>> /\ <<b>> # <<>> OBVIOUS
<1>. QED BY <1>1, <1>2, <1>3, <1>4, <1>5

(* A run is a record; one step of it changes a field or two.               *)
RunOf(on, v, todo, cur) == [on |-> on, v |-> v, todo |-> todo, cur |-> cur]

LEMMA RunEdited ==
  ASSUME NEW o, NEW v, NEW d, NEW c, NEW e, NEW t
  PROVE  /\ [RunOf(o, v, d, c) EXCEPT !.todo = t] = RunOf(o, v, t, c)
         /\ [RunOf(o, v, d, c) EXCEPT !.cur = e] = RunOf(o, v, d, e)
<1> DEFINE fields == {"on", "v", "todo", "cur"}
           f == [RunOf(o, v, d, c) EXCEPT !.todo = t]
           g == [RunOf(o, v, d, c) EXCEPT !.cur = e]
           r == RunOf(o, v, t, c)
           s == RunOf(o, v, d, e)
<1>1. f = [x \in fields |-> f[x]] /\ g = [x \in fields |-> g[x]] BY DEF RunOf
<1>2. r = [x \in fields |-> r[x]] /\ s = [x \in fields |-> s[x]] BY DEF RunOf
<1>3. f["on"] = o /\ f["v"] = v /\ f["todo"] = t /\ f["cur"] = c BY DEF RunOf
<1>4. g["on"] = o /\ g["v"] = v /\ g["todo"] = d /\ g["cur"] = e BY DEF RunOf
<1>5. r["on"] = o /\ r["v"] = v /\ r["todo"] = t /\ r["cur"] = c BY DEF RunOf
<1>6. s["on"] = o /\ s["v"] = v /\ s["todo"] = d /\ s["cur"] = e BY DEF RunOf
<1>. HIDE DEF f, g, r, s
<1>7. \A x \in fields : f[x] = r[x] /\ g[x] = s[x] BY <1>3, <1>4, <1>5, <1>6
<1>8. f = r /\ g = s BY <1>1, <1>2, <1>7
<1>. QED BY <1>8 DEF f, g, r, s

LEMMA RunSteps ==
  ASSUME NEW r, r = RunOf(r.on, r.v, r.todo, r.cur), NEW e
  PROVE  /\ [r EXCEPT !.todo = Tail(@)] = RunOf(r.on, r.v, Tail(r.todo), r.cur)
         /\ [[r EXCEPT !.cur = e] EXCEPT !.todo = Tail(@)] = RunOf(r.on, r.v, Tail(r.todo), e)
<1> DEFINE o == r.on
           v == r.v
           d == r.todo
           c == r.cur
           q == RunOf(o, v, d, c)
           p == RunOf(o, v, d, e)
           t == Tail(d)
<1>1. r = q OBVIOUS
<1>2. q.todo = d /\ p.todo = d BY DEF RunOf
<1>. HIDE DEF o, v, d, c, t
<1>3. [q EXCEPT !.todo = t] = RunOf(o, v, t, c) BY RunEdited
<1>4. [q EXCEPT !.cur = e] = p BY RunEdited
<1>5. [p EXCEPT !.todo = t] = RunOf(o, v, t, e) BY RunEdited
<1>. HIDE DEF q, p
<1>6. [r EXCEPT !.todo = Tail(@)] = RunOf(o, v, t, c) BY <1>1, <1>2, <1>3 DEF t
<1>7. [[r EXCEPT !.cur = e] EXCEPT !.todo = Tail(@)] = RunOf(o, v, t, e) BY <1>1, <1>2, <1>4, <1>5 DEF t
<1>. QED BY <1>6, <1>7 DEF o, v, d, c, t

LEMMA OneStep ==
  ASSUME JumpInv, NEW p \in Ptz!Proc, p_run[p].on
  PROVE  /\ p_run' = [p_run EXCEPT ![p].todo = Tail(@)] => p_run' = [p_run EXCEPT ![p] = Advanced(p, p_run[p].cur)]
         /\ p_run' = [p_run EXCEPT ![p].cur = p_pos, ![p].todo = Tail(@)] => p_run' = [p_run EXCEPT ![p] = Advanced(p, p_pos)]
<1> DEFINE r == p_run[p]
           t == Tail(r.todo)
<1>1. p_run = [q \in Ptz!Proc |-> p_run[q]] /\ RunOk(r) BY DEF JumpInv, Shape, RunsShape
<1>2. r = RunOf(r.on, r.v, r.todo, r.cur) BY <1>1 DEF RunOk, RunOf
<1>3. [p_run EXCEPT ![p].todo = Tail(@)] = [p_run EXCEPT ![p] = [r EXCEPT !.todo = Tail(@)]] BY <1>1
<1>4. [p_run EXCEPT ![p].cur = p_pos, ![p].todo = Tail(@)] = [p_run EXCEPT ![p] = [[r EXCEPT !.cur = p_pos] EXCEPT !.todo = Tail(@)]]
  BY <1>1
<1>5. Advanced(p, r.cur) = RunOf(TRUE, r.v, t, r.cur) /\ Advanced(p, p_pos) = RunOf(TRUE, r.v, t, p_pos)
  BY DEF Advanced, RunOf
<1>6. r.on = TRUE
  <2>1. r.on \in BOOLEAN BY <1>2
  <2>. QED BY <2>1
<1>. HIDE DEF r, t
<1>7. /\ [r EXCEPT !.todo = Tail(@)] = RunOf(r.on, r.v, Tail(r.todo), r.cur)
      /\ [[r EXCEPT !.cur = p_pos] EXCEPT !.todo = Tail(@)] = RunOf(r.on, r.v, Tail(r.todo), p_pos)
  BY <1>2, RunSteps
<1>8. /\ [r EXCEPT !.todo = Tail(@)] = Advanced(p, r.cur)
      /\ [[r EXCEPT !.cur = p_pos] EXCEPT !.todo = Tail(@)] = Advanced(p, p_pos)
  BY <1>5, <1>6, <1>7 DEF t
<1>. QED BY <1>3, <1>4, <1>8 DEF r

(* What a step of a process may send, and how far a jump is after it.      *)
LEMMA StepKeeps ==
  ASSUME JumpInv, NEW u \in Caller, NEW p \in {Ptz!Fore(u), Ptz!Timer(u)}, NEW c, p_run[p].on, p_run[p].todo # <<>>,
         p_run' = [p_run EXCEPT ![p] = Advanced(p, c)], p_script' = p_script, Ptz!IsSeq(p_queue)',
         UNCHANGED <<p_model, p_target, p_pos, p_presets>>,
         ~Movement(Head(p_run[p].todo)) => p_queue' = p_queue \/ \E m : Adds(m) /\ m.kind \notin Turning,
         p = Ptz!Fore(u) /\ p_run'[p] = Advanced(p, c) /\ Jumper(u) /\ QuietQueue =>
           \/ Jumper(u)' /\ QuietQueue'
           \/ Calm(u)' /\ InFlight'
  PROVE  JumpInv'
<1>1. Shape /\ Aim BY DEF JumpInv
<1>2. /\ Shape' /\ \A w \in Caller : w # u => Unmoved(w)
      /\ p = Ptz!Timer(u) => Unmoved(u) /\ ~Movement(Head(p_run[p].todo))
      /\ p = Ptz!Fore(u) => p_run'[Ptz!Fore(u)] = Advanced(p, c)
      /\ p = Ptz!Fore(u) /\ Calm(u) => Calm(u)' /\ ~Movement(Head(p_run[p].todo))
  BY <1>1, Advances
<1>3. Calm(u) => Calm(u)' /\ (p_queue' = p_queue \/ \E m : Adds(m) /\ m.kind \notin Turning)
  BY <1>2, UnmovedCalm
<1>4. Jumper(u) /\ QuietQueue => (Jumper(u)' /\ QuietQueue') \/ (Calm(u)' /\ InFlight')
  <2>1. CASE p = Ptz!Fore(u) BY <1>2, <2>1
  <2>2. CASE p = Ptz!Timer(u)
    <3>1. Jumper(u) => Jumper(u)' BY <1>2, <2>2, UnmovedJumper
    <3>2. Ptz!IsSeq(p_queue) BY <1>1 DEF Shape, ScriptsShape
    <3>3. QuietQueue => QuietQueue' BY <1>2, <2>2, <3>2, QuietMessage
    <3>. QED BY <3>1, <3>3
  <2>. QED BY <2>1, <2>2
<1>5. Aim' BY <1>1, <1>2, <1>3, <1>4, CallerSteps
<1>. QED BY <1>2, <1>5 DEF JumpInv

(* A caller whose command is at another step than these is at no jump.     *)
LEMMA JumperAt ==
  ASSUME NEW u \in Caller, p_run[Ptz!Fore(u)].on, Jumper(u)
  PROVE  /\ Head(p_run[Ptz!Fore(u)].todo).do \in {"read", "jump to"} /\ p_run[Ptz!Fore(u)].todo # <<>>
         /\ Head(p_run[Ptz!Fore(u)].todo).do = "read" => ToRead(u)
         /\ Head(p_run[Ptz!Fore(u)].todo).do = "jump to" => ToSend(u)
  BY JumpSteps DEF Jumper, Waits, ToRead, ToSend

LEMMA SendingKeeps ==
  ASSUME JumpInv, NEW p \in Ptz!Proc, Ptz!Sending(p), UNCHANGED <<p_model, p_pos, p_presets>> PROVE JumpInv'
<1> DEFINE todo == p_run[p].todo
           head == Head(todo)
           c == p_run[p].cur
<1>1. Shape /\ Ptz!IsSeq(p_queue) BY DEF JumpInv, Shape, ScriptsShape
<1>2. PICK u \in Caller : p \in {Ptz!Fore(u), Ptz!Timer(u)} BY Procs
<1>3. ASSUME NEW m, Ptz!At(p, head.do), Ptz!Put(p, m), p_target' = p_target,
             ~Movement(head) => m.kind \notin Turning,
             p = Ptz!Fore(u) /\ p_run'[p] = Advanced(p, c) /\ Jumper(u) /\ QuietQueue => Calm(u)' /\ InFlight'
      PROVE  JumpInv'
  <2>1. p_run[p].on /\ todo # <<>> BY <1>3 DEF Ptz!At
  <2>2. Adds(m) /\ p_script' = p_script /\ p_run' = [p_run EXCEPT ![p].todo = Tail(@)] BY <1>3 DEF Ptz!Put, Ptz!Done, Adds
  <2>3. p_run' = [p_run EXCEPT ![p] = Advanced(p, c)] BY <2>1, <2>2, OneStep
  <2>4. Ptz!IsSeq(p_queue') BY <1>1, <2>2, SeqAppend DEF Adds
  <2>5. Ptz!IsSeq(p_queue)' BY <2>4 DEF Ptz!IsSeq, Ptz!Range
  <2>6. ~Movement(head) => p_queue' = p_queue \/ \E n : Adds(n) /\ n.kind \notin Turning BY <1>3, <2>2
  <2>. HIDE DEF c
  <2>. QED BY <1>2, <1>3, <2>1, <2>2, <2>3, <2>5, <2>6, StepKeeps
<1>4. ASSUME p = Ptz!Fore(u), p_run[p].on, Jumper(u) PROVE head.do \in {"read", "jump to"}
  BY <1>4, JumperAt
<1>5. p_target' = p_target BY DEF Ptz!Sending
<1>6. CASE Ptz!At(p, "send") /\ Ptz!Put(p, head.msg)
  <2>1. head.do = "send" /\ p_run[p].on BY <1>6 DEF Ptz!At
  <2>2. ~Movement(head) => head.msg.kind \notin Turning BY <2>1 DEF Movement
  <2>. QED BY <1>3, <1>4, <1>5, <1>6, <2>1, <2>2
<1>7. CASE Ptz!At(p, "jump by") /\ Ptz!Put(p, [kind |-> "jump", arg |-> Ptz!JumpBy(p_model, p_run[p].v)])
  <2>1. head.do = "jump by" /\ p_run[p].on /\ Movement(head) BY <1>7 DEF Ptz!At, Movement
  <2>. QED BY <1>3, <1>4, <1>5, <1>7, <2>1
<1>8. CASE Ptz!At(p, "file") /\ Ptz!Put(p, [kind |-> "file", arg |-> "content"])
  <2>1. head.do = "file" /\ p_run[p].on BY <1>8 DEF Ptz!At
  <2>2. [kind |-> "file", arg |-> "content"].kind \notin Turning BY DEF Turning
  <2>. QED BY <1>3, <1>4, <1>5, <1>8, <2>1, <2>2
<1>9. CASE Ptz!At(p, "jump to") /\ Ptz!Put(p, [kind |-> "jump", arg |-> Ptz!JumpTo(p_model, p_run[p].v["xy"], p_run[p].cur)])
  <2> DEFINE m == [kind |-> "jump", arg |-> Ptz!JumpTo(p_model, p_run[p].v["xy"], p_run[p].cur)]
  <2>1. head.do = "jump to" /\ p_run[p].on /\ Movement(head) BY <1>9 DEF Ptz!At, Movement
  <2>2. Adds(m) /\ p_script' = p_script BY <1>9 DEF Ptz!Put, Ptz!Done, Adds
  <2>3. ASSUME p = Ptz!Fore(u), p_run'[p] = Advanced(p, c), Jumper(u), QuietQueue PROVE Calm(u)' /\ InFlight'
    <3>1. ToSend(u) BY <2>1, <2>3, JumperAt
    <3>2. /\ p_run[p].v["xy"] = p_target /\ p_run[p].cur = p_pos /\ todo = Ptz!Do("jump to") /\ Tail(p_script[u]) = <<>>
      BY <2>3, <3>1 DEF ToSend
    <3>3. p_run'[Ptz!Fore(u)].on /\ p_run'[Ptz!Fore(u)].todo = <<>>
      <4>1. Advanced(p, c).on /\ Advanced(p, c).todo = Tail(todo) BY DEF Advanced
      <4>. HIDE DEF c
      <4>. QED BY <2>3, <3>2, <4>1, JumpSteps
    <3>4. Still(<<>>) /\ StillJobs(<<>>) BY SeqNone DEF Still, StillJobs
    <3>5. Calm(u)' BY <2>2, <3>2, <3>3, <3>4 DEF Calm
    <3>6. m.kind = "jump" /\ m.arg = Ptz!JumpTo(p_model, p_target, p_pos) BY <3>2
    <3>. HIDE DEF m, c, todo, head
    <3>7. /\ Len(p_queue) \in Nat /\ DOMAIN p_queue = 1 .. Len(p_queue)
          /\ DOMAIN p_queue' = 1 .. Len(p_queue) + 1
          /\ \A i \in 1 .. Len(p_queue) : p_queue'[i] = p_queue[i]
          /\ p_queue'[Len(p_queue) + 1] = m
      BY <1>1, <2>2, SeqAppend DEF Adds
    <3> DEFINE k == Len(p_queue) + 1
    <3>8. k \in DOMAIN p_queue' /\ p_queue'[k].kind = "jump" /\ p_queue'[k].arg = Ptz!JumpTo(p_model, p_target, p_pos)
      BY <3>6, <3>7
    <3>9. \A i \in DOMAIN p_queue' : i # k => p_queue'[i].kind \notin Turning BY <2>3, <3>7 DEF QuietQueue
    <3>10. Ptz!JumpTo(p_model, p_target, p_pos)' = Ptz!JumpTo(p_model, p_target, p_pos) BY <1>5
    <3>. HIDE DEF k
    <3>11. InFlight' BY <3>8, <3>9, <3>10 DEF InFlight
    <3>. QED BY <3>5, <3>11
  <2>. HIDE DEF m
  <2>4. Ptz!At(p, head.do) /\ Ptz!Put(p, m) BY <1>9, <2>1 DEF m
  <2>. QED BY <1>3, <1>5, <2>1, <2>3, <2>4
<1>. QED BY <1>6, <1>7, <1>8, <1>9 DEF Ptz!Sending

(* A step that sends nothing.                                              *)
LEMMA SilentKeeps ==
  ASSUME JumpInv, NEW p \in Ptz!Proc, Ptz!Sleep(p) \/ Ptz!Worker(p), UNCHANGED <<p_model, p_pos, p_presets>> PROVE JumpInv'
<1> DEFINE c == p_run[p].cur
<1>1. /\ p_run[p].on /\ p_run[p].todo # <<>> /\ Head(p_run[p].todo).do \in {"sleep", "worker"}
      /\ p_run' = [p_run EXCEPT ![p].todo = Tail(@)] /\ UNCHANGED <<p_script, p_queue, p_target>>
  BY DEF Ptz!Sleep, Ptz!Worker, Ptz!At, Ptz!Done
<1>2. PICK u \in Caller : p \in {Ptz!Fore(u), Ptz!Timer(u)} BY Procs
<1>3. p_run' = [p_run EXCEPT ![p] = Advanced(p, c)] BY <1>1, OneStep
<1>4. Ptz!IsSeq(p_queue)' BY <1>1 DEF JumpInv, Shape, ScriptsShape, Ptz!IsSeq, Ptz!Range
<1>5. p = Ptz!Fore(u) => ~Jumper(u) BY <1>1, JumperAt
<1>. HIDE DEF c
<1>. QED BY <1>1, <1>2, <1>3, <1>4, <1>5, StepKeeps

(* A failure of a process that runs.                                       *)
LEMMA RunFails ==
  ASSUME JumpInv, NEW p \in Ptz!Proc, p_run[p].on, Ptz!Failed(p), UNCHANGED <<p_pos, p_presets>> PROVE JumpInv'
<1>1. ASSUME p[2] = "command" PROVE p_script[p[1]] # <<>>
  <2>1. PICK u \in Caller : p = Ptz!Fore(u) \/ p = Ptz!Timer(u) BY Procs
  <2>2. p = Ptz!Fore(u) /\ p[1] = u BY <1>1, <2>1, Procs
  <2>. QED BY <2>2 DEF JumpInv, Shape, RunsShape, ForeOk
<1>. QED BY <1>1, FailKeeps

LEMMA ReadKeeps ==
  ASSUME JumpInv, NEW p \in Ptz!Proc, Ptz!Read(p), UNCHANGED <<p_model, p_pos, p_presets>> PROVE JumpInv'
<1>1. p_run[p].on /\ p_run[p].todo # <<>> /\ Head(p_run[p].todo).do = "read" BY DEF Ptz!Read, Ptz!At
<1>2. CASE Ptz!Failed(p) BY <1>1, <1>2, RunFails
<1>3. CASE p_run' = [p_run EXCEPT ![p].cur = p_pos, ![p].todo = Tail(@)] /\ UNCHANGED <<p_script, p_queue, p_target>>
  <2>1. PICK u \in Caller : p \in {Ptz!Fore(u), Ptz!Timer(u)} BY Procs
  <2>2. p_run' = [p_run EXCEPT ![p] = Advanced(p, p_pos)] BY <1>1, <1>3, OneStep
  <2>3. Ptz!IsSeq(p_queue)' BY <1>3 DEF JumpInv, Shape, ScriptsShape, Ptz!IsSeq, Ptz!Range
  <2>4. ASSUME p = Ptz!Fore(u), p_run'[p] = Advanced(p, p_pos), Jumper(u), QuietQueue PROVE Jumper(u)' /\ QuietQueue'
    <3>1. ToRead(u) BY <1>1, <2>4, JumperAt
    <3>2. /\ p_run[p].v["xy"] = p_target /\ p_run[p].todo = Ptz!Do("read") \o Ptz!Do("jump to") /\ Tail(p_script[u]) = <<>>
      BY <2>4, <3>1 DEF ToRead
    <3>3. /\ p_run'[p].on /\ p_run'[p].v = p_run[p].v /\ p_run'[p].cur = p_pos /\ p_run'[p].todo = Tail(p_run[p].todo)
      BY <2>4 DEF Advanced
    <3>4. p_run'[p].todo = Ptz!Do("jump to") BY <3>2, <3>3, JumpSteps
    <3>5. ToSend(u)' BY <1>3, <2>4, <3>2, <3>3, <3>4 DEF ToSend
    <3>6. QuietQueue' BY <1>3, <2>4 DEF QuietQueue
    <3>. QED BY <3>5, <3>6 DEF Jumper
  <2>. QED BY <1>1, <1>3, <2>1, <2>2, <2>3, <2>4, StepKeeps
<1>. QED BY <1>2, <1>3 DEF Ptz!Read

LEMMA ExitKeeps ==
  ASSUME JumpInv, NEW p \in Ptz!Proc, Ptz!Exit(p), UNCHANGED <<p_model, p_pos, p_presets>> PROVE JumpInv'
<1>1. /\ p_run[p].on /\ p_run[p].todo = <<>> /\ p_run' = [p_run EXCEPT ![p] = Ptz!Idle]
      /\ Ptz!Leave(p, Tail(p_script[p[1]])) /\ UNCHANGED <<p_queue, p_target>>
  BY DEF Ptz!Exit
<1>2. PICK u \in Caller : p \in {Ptz!Fore(u), Ptz!Timer(u)} BY Procs
<1>3. Shape /\ Aim /\ p_script = [w \in Caller |-> p_script[w]] /\ Ptz!IsSeq(p_script[u]) /\ ForeOk(u)
  BY DEF JumpInv, Shape, ScriptsShape, RunsShape
<1> DEFINE s == IF p = Ptz!Timer(u) THEN <<>> ELSE Tail(p_script[u])
<1>4. p[1] = u /\ (p[2] = "timer" <=> p = Ptz!Timer(u)) /\ Ptz!Fore(u) # Ptz!Timer(u) BY <1>2, Procs
<1>5. p_script' = IF p = Ptz!Timer(u) THEN p_script ELSE [p_script EXCEPT ![u] = s]
  <2>1. CASE p = Ptz!Timer(u)
    <3>1. p_script' = [p_script EXCEPT ![u] = @] BY <1>1, <1>4, <2>1 DEF Ptz!Leave
    <3>. QED BY <1>3, <2>1, <3>1
  <2>2. CASE p # Ptz!Timer(u) BY <1>1, <1>4, <2>2 DEF Ptz!Leave
  <2>. QED BY <2>1, <2>2
<1>6. Ptz!IsSeq(s) BY <1>1, <1>2, <1>3, <1>4, SeqNone, SeqTail DEF ForeOk
<1>7. Ptz!IsSeq(p_queue)' BY <1>1 DEF JumpInv, Shape, ScriptsShape, Ptz!IsSeq, Ptz!Range
<1>8. p = Ptz!Fore(u) => s = Tail(p_script[u]) BY <1>4
<1>. HIDE DEF s
<1>9. /\ Shape' /\ \A w \in Caller : w # u => Unmoved(w)
      /\ p = Ptz!Timer(u) => Unmoved(u)
      /\ p = Ptz!Fore(u) => ~p_run'[Ptz!Fore(u)].on /\ p_script'[u] = s
  BY <1>1, <1>2, <1>3, <1>5, <1>6, <1>7, Ends
<1>10. QuietQueue => QuietQueue' BY <1>1 DEF QuietQueue
<1>11. CASE p = Ptz!Timer(u)
  <2>1. (Calm(u) => Calm(u)') /\ (Jumper(u) => Jumper(u)') BY <1>1, <1>9, <1>11, UnmovedCalm, UnmovedJumper
  <2>2. Aim' BY <1>1, <1>3, <1>9, <1>10, <2>1, CallerSteps
  <2>. QED BY <1>9, <2>2 DEF JumpInv
<1>12. CASE p = Ptz!Fore(u)
  <2>1. Calm(u) => Calm(u)' BY <1>1, <1>8, <1>9, <1>12 DEF Calm
  <2>2. ~Jumper(u) BY <1>1, <1>12, JumperAt
  <2>3. Aim' BY <1>1, <1>3, <1>9, <2>1, <2>2, CallerSteps
  <2>. QED BY <1>9, <2>3 DEF JumpInv
<1>. QED BY <1>2, <1>11, <1>12

LEMMA ForkKeeps ==
  ASSUME JumpInv, NEW p \in Ptz!Proc, Ptz!Fork(p), UNCHANGED <<p_model, p_pos, p_presets>> PROVE JumpInv'
<1>1. /\ p_run[p].on /\ p_run[p].todo # <<>> /\ Head(p_run[p].todo).do = "fork" /\ ~p_run[Ptz!Timer(p[1])].on
  BY DEF Ptz!Fork, Ptz!At
<1>2. CASE Ptz!Failed(p) BY <1>1, <1>2, RunFails
<1> DEFINE r == [p_run[p] EXCEPT !.todo = Tail(@)]
<1>3. CASE /\ p_run' = [p_run EXCEPT ![p] = Ptz!Idle, ![Ptz!Timer(p[1])] = r]
           /\ Ptz!Leave(p, Tail(p_script[p[1]])) /\ UNCHANGED <<p_queue, p_target>>
  <2>1. PICK u \in Caller : p = Ptz!Fore(u) \/ p = Ptz!Timer(u) BY Procs
  <2>2. p = Ptz!Fore(u) /\ p[1] = u /\ p[2] # "timer" BY <1>1, <2>1, Procs
  <2>3. /\ Shape /\ Aim /\ p_script = [w \in Caller |-> p_script[w]] /\ ForeOk(u) /\ RunOk(p_run[p])
        /\ p_run = [q \in Ptz!Proc |-> p_run[q]] /\ \A w \in Caller : Ptz!IsSeq(p_script[w])
    BY DEF JumpInv, Shape, ScriptsShape, RunsShape
  <2>4. RunOf(TRUE, p_run[p].v, Tail(p_run[p].todo), p_run[p].cur) = r
    <3>1. p_run[p] = RunOf(p_run[p].on, p_run[p].v, p_run[p].todo, p_run[p].cur) BY <2>3 DEF RunOk, RunOf
    <3>2. p_run[p].on = TRUE
      <4>1. p_run[p].on \in BOOLEAN BY <1>1
      <4>. QED BY <1>1, <4>1
    <3>. QED BY <3>1, <3>2, RunSteps
  <2>5. Behind(p_run[p].todo) BY <1>1, <2>3 DEF RunOk
  <2>6. Behind(Tail(p_run[p].todo)) /\ Still(Tail(p_run[p].todo)) BY <1>1, <2>5, BehindTail
  <2>7. r.on /\ r.todo = Tail(p_run[p].todo) /\ RunOk(r)
    <3>1. r = [on |-> TRUE, v |-> p_run[p].v, todo |-> Tail(p_run[p].todo), cur |-> p_run[p].cur]
      BY <2>4 DEF RunOf
    <3>. HIDE DEF r
    <3>2. r.on /\ r.v = p_run[p].v /\ r.todo = Tail(p_run[p].todo) /\ r.cur = p_run[p].cur BY <3>1
    <3>3. r.on = TRUE BY <3>1
    <3>. QED BY <2>6, <3>1, <3>2, <3>3 DEF RunOk
  <2>. HIDE DEF r
  <2>8. \A w \in Caller : /\ Ptz!Fore(w) \in Ptz!Proc /\ Ptz!Timer(w) \in Ptz!Proc
                          /\ w # u => Ptz!Fore(w) # Ptz!Fore(u) /\ Ptz!Timer(w) # Ptz!Timer(u)
                          /\ Ptz!Fore(w) # Ptz!Timer(u) /\ Ptz!Timer(w) # Ptz!Fore(u)
    BY Procs
  <2>9. p_run' = [p_run EXCEPT ![Ptz!Fore(u)] = Ptz!Idle, ![Ptz!Timer(u)] = r] BY <1>3, <2>2
  <2>10. /\ p_run' = [q \in Ptz!Proc |-> p_run'[q]] /\ p_run'[Ptz!Fore(u)] = Ptz!Idle /\ p_run'[Ptz!Timer(u)] = r
         /\ \A q \in Ptz!Proc : q \notin {Ptz!Fore(u), Ptz!Timer(u)} => p_run'[q] = p_run[q]
    BY <2>3, <2>8, <2>9
  <2>11. p_script' = [p_script EXCEPT ![u] = Tail(p_script[u])] BY <1>3, <2>2 DEF Ptz!Leave
  <2>12. p_script'[u] = Tail(p_script[u]) /\ p_script' = [w \in Caller |-> p_script'[w]]
         /\ \A w \in Caller : w # u => p_script'[w] = p_script[w]
    BY <2>3, <2>11
  <2>13. Ptz!IsSeq(p_script'[u])
    <3>1. p_script[u] # <<>> BY <1>1, <2>2, <2>3 DEF ForeOk
    <3>. QED BY <2>3, <2>12, <3>1, SeqTail
  <2>14. ScriptsShape'
    <3>1. Ptz!IsSeq(p_queue)' BY <1>3 DEF JumpInv, Shape, ScriptsShape, Ptz!IsSeq, Ptz!Range
    <3>2. \A w \in Caller : Ptz!IsSeq(p_script'[w]) BY <2>3, <2>12, <2>13
    <3>. QED BY <2>12, <3>1, <3>2 DEF ScriptsShape
  <2>15. \A w \in Caller : w # u => Unmoved(w) /\ p_run'[Ptz!Timer(w)] = p_run[Ptz!Timer(w)]
    BY <2>8, <2>10, <2>12 DEF Unmoved
  <2>16. Somewhere' BY <2>3 DEF Shape, Somewhere
  <2>17. ForeOk(u)' BY <2>10, IdleRun DEF ForeOk
  <2>18. TimerOk(u)' BY <2>6, <2>7, <2>10 DEF TimerOk
  <2>19. Shape' BY <2>3, <2>7, <2>10, <2>14, <2>15, <2>16, <2>17, <2>18, IdleRun, ShapeOf
  <2>20. Calm(u) => Calm(u)' BY <1>1, <2>2, <2>10, <2>12, IdleRun DEF Calm
  <2>21. ~Jumper(u) BY <1>1, <2>2, JumperAt
  <2>22. Aim' BY <1>3, <2>3, <2>15, <2>20, <2>21, CallerSteps
  <2>. QED BY <2>19, <2>22 DEF JumpInv
<1>. QED BY <1>2, <1>3 DEF Ptz!Fork

LEMMA CommandKeeps == ASSUME JumpInv, NEW p \in Ptz!Proc, Ptz!Command(p) PROVE JumpInv'
<1>1. UNCHANGED <<p_model, p_pos, p_presets>> BY DEF Ptz!Command, Ptz!camera
<1>2. CASE Ptz!Sending(p) BY <1>1, <1>2, SendingKeeps
<1>3. CASE Ptz!Sleep(p) \/ Ptz!Worker(p) BY <1>1, <1>3, SilentKeeps
<1>4. CASE Ptz!Read(p) BY <1>1, <1>4, ReadKeeps
<1>5. CASE Ptz!NoFile(p)
  <2>1. p_run[p].on /\ Ptz!Failed(p) BY <1>5 DEF Ptz!NoFile, Ptz!At
  <2>. QED BY <1>1, <2>1, RunFails
<1>6. CASE Ptz!Fork(p) BY <1>1, <1>6, ForkKeeps
<1>7. CASE Ptz!Exit(p) BY <1>1, <1>7, ExitKeeps
<1>. QED BY <1>2, <1>3, <1>4, <1>5, <1>6, <1>7 DEF Ptz!Command

-----------------------------------------------------------------------------
(* The camera takes a message.  It stays in its range.                     *)
LEMMA LandedIn == ASSUME NEW cur, NEW to PROVE Ptz!Landed(cur, to) \in Place
<1>1. ASSUME NEW n PROVE Ptz!Clamp(n, Ptz!MAX_PTZ_X) \in Columns /\ Ptz!Clamp(n, Ptz!MAX_PTZ_Y) \in Rows
  <2>1. 0 \in 0 .. 4100 /\ 4100 \in 0 .. 4100 /\ 0 \in 0 .. 1250 /\ 1250 \in 0 .. 1250 BY SMT
  <2>. QED BY <2>1, SMT DEF Ptz!Clamp, Ptz!MAX_PTZ_X, Ptz!MAX_PTZ_Y, Columns, Rows
<1>. QED BY <1>1 DEF Ptz!Landed, Place

LEMMA StaysSomewhere == ASSUME Somewhere, Ptz!Dispatch PROVE Somewhere'
<1> DEFINE m == Head(p_queue)
<1>1. p_pos \in Place /\ p_presets \in [Ptz!Slot -> Place \cup {None}] BY DEF Somewhere
<1>2. Spots \subseteq Place
  BY ScriptsAssumption DEF Ptz!CallerConstants, Place, Columns, Rows, Ptz!MAX_PTZ_X, Ptz!MAX_PTZ_Y
<1>3. p_presets' = [s \in Ptz!Slot |->
             IF m.kind = "add" /\ s \in Ptz!Free /\ \A f \in Ptz!Free : s <= f THEN p_pos
             ELSE IF m.kind = "remove" /\ m.arg = s THEN None ELSE p_presets[s]]
  BY DEF Ptz!Dispatch
<1>4. p_presets' \in [Ptz!Slot -> Place \cup {None}] BY <1>1, <1>3
<1>5. \/ p_pos' = Ptz!Landed(p_pos, m.arg)
      \/ m.arg \in Ptz!Slot /\ p_pos' = IF p_presets[m.arg] # None THEN p_presets[m.arg] ELSE p_pos
      \/ p_pos' \in Spots
      \/ p_pos' = p_pos
  BY DEF Ptz!Dispatch
<1>6. p_pos' \in Place BY <1>1, <1>2, <1>5, LandedIn
<1>. QED BY <1>4, <1>6 DEF Somewhere

(* It moves only for a message of a kind that moves it.                    *)
LEMMA StandsStill ==
  ASSUME Ptz!Dispatch
  PROVE  /\ Head(p_queue).kind \notin Turning => p_pos' = p_pos
         /\ Head(p_queue).kind = "jump" => p_pos' = Ptz!Landed(p_pos, Head(p_queue).arg)
  BY DEF Ptz!Dispatch, Turning

LEMMA DispatchKeeps == ASSUME JumpInv, Ptz!Dispatch PROVE JumpInv'
<1> DEFINE n == Len(p_queue)
<1>1. /\ p_queue # <<>> /\ p_queue' = Tail(p_queue)
      /\ UNCHANGED <<p_model, p_script, p_run, p_target>>
  BY DEF Ptz!Dispatch
<1>2. Shape /\ Aim /\ Ptz!IsSeq(p_queue) BY DEF JumpInv, Shape, ScriptsShape
<1>3. /\ Ptz!IsSeq(p_queue') /\ DOMAIN p_queue = 1 .. n /\ n \in Nat \ {0} /\ Head(p_queue) = p_queue[1]
      /\ DOMAIN p_queue' = 1 .. n - 1
      /\ \A i \in 1 .. n - 1 : p_queue'[i] = p_queue[i + 1]
  BY <1>1, <1>2, SeqTail
<1>. HIDE DEF n
<1>4. Shape'
  <2>1. Ptz!IsSeq(p_queue)' BY <1>3 DEF Ptz!IsSeq, Ptz!Range
  <2>2. ScriptsShape' BY <1>1, <1>2, <2>1 DEF Shape, ScriptsShape
  <2>3. RunsShape' BY <1>1, <1>2 DEF Shape, RunsShape, ForeOk, TimerOk
  <2>4. Somewhere' BY <1>2, StaysSomewhere DEF Shape
  <2>. QED BY <2>2, <2>3, <2>4 DEF Shape
<1>5. SUFFICES ASSUME p_target # None PROVE Underway' \/ Aimed'
  <2>1. p_target = None => Aim' BY <1>1 DEF Aim
  <2>2. p_target # None => Angles(p_target)' BY <1>1, <1>2 DEF Aim, Angles
  <2>. QED BY <1>4, <1>5, <2>1, <2>2 DEF JumpInv, Aim
<1>6. \A w \in Caller : Unmoved(w) BY <1>1 DEF Unmoved
<1>7. \A w \in Caller : Calm(w) => Calm(w)' BY <1>6, UnmovedCalm
<1>8. \A i \in DOMAIN p_queue' : i + 1 \in DOMAIN p_queue /\ i + 1 # 1 /\ p_queue'[i] = p_queue[i + 1] BY <1>3
<1>9. ASSUME QuietQueue PROVE QuietQueue' /\ p_pos' = p_pos
  <2>1. Head(p_queue).kind \notin Turning BY <1>3, <1>9 DEF QuietQueue
  <2>2. QuietQueue' BY <1>8, <1>9 DEF QuietQueue
  <2>. QED BY <2>1, <2>2, StandsStill
<1>10. CASE Underway
  <2>1. QuietQueue' /\ p_pos' = p_pos BY <1>9, <1>10 DEF Underway
  <2>2. PICK u \in Caller : Jumper(u) /\ \A w \in Caller : w # u => Calm(w) BY <1>10 DEF Underway
  <2>3. Jumper(u)' BY <1>1, <1>6, <2>1, <2>2, UnmovedJumper
  <2>. QED BY <1>7, <2>1, <2>2, <2>3 DEF Underway
<1>11. CASE Aimed
  <2>1. \A w \in Caller : Calm(w)' BY <1>7, <1>11 DEF Aimed
  <2>2. CASE QuietQueue /\ CloseTo(p_pos, p_target)
    <3>1. QuietQueue' /\ p_pos' = p_pos BY <1>9, <2>2
    <3>2. CloseTo(p_pos, p_target)' BY <1>1, <2>2, <3>1 DEF CloseTo, Ptz!Reported
    <3>. QED BY <2>1, <3>1, <3>2 DEF Aimed
  <2>3. CASE InFlight
    <3>1. PICK k \in DOMAIN p_queue :
             /\ p_queue[k].kind = "jump" /\ p_queue[k].arg = Ptz!JumpTo(p_model, p_target, p_pos)
             /\ \A i \in DOMAIN p_queue : i # k => p_queue[i].kind \notin Turning
      BY <2>3 DEF InFlight
    <3>2. CASE k = 1
      <4>1. p_pos' = Ptz!Landed(p_pos, Ptz!JumpTo(p_model, p_target, p_pos)) BY <1>3, <3>1, <3>2, StandsStill
      <4>2. p_pos \in Place /\ Angles(p_target) BY <1>2, <1>5 DEF Shape, Somewhere, Aim
      <4>3. CloseTo(p_pos', p_target) BY <4>1, <4>2, JumpIsNear
      <4>4. CloseTo(p_pos, p_target)' BY <1>1, <4>3 DEF CloseTo, Ptz!Reported
      <4>5. QuietQueue' BY <1>8, <3>1, <3>2 DEF QuietQueue
      <4>. QED BY <2>1, <4>4, <4>5 DEF Aimed
    <3>3. CASE k # 1
      <4>1. Head(p_queue).kind \notin Turning BY <1>3, <3>1, <3>3
      <4>2. p_pos' = p_pos BY <4>1, StandsStill
      <4> DEFINE j == k - 1
      <4>3. j \in DOMAIN p_queue' /\ j + 1 = k BY <1>3, <3>3
      <4>. HIDE DEF j
      <4>4. p_queue'[j] = p_queue[k] BY <1>8, <4>3
      <4>5. \A i \in DOMAIN p_queue' : i # j => i + 1 # k BY <1>3, <4>3
      <4>6. \A i \in DOMAIN p_queue' : i # j => p_queue'[i].kind \notin Turning BY <1>8, <3>1, <4>5
      <4>7. Ptz!JumpTo(p_model, p_target, p_pos)' = Ptz!JumpTo(p_model, p_target, p_pos) BY <1>1, <4>2
      <4>8. InFlight' BY <3>1, <4>3, <4>4, <4>6, <4>7 DEF InFlight
      <4>. QED BY <2>1, <4>8 DEF Aimed
    <3>. QED BY <3>2, <3>3
  <2>. QED BY <1>11, <2>2, <2>3 DEF Aimed
<1>. QED BY <1>2, <1>5, <1>10, <1>11 DEF Aim

-----------------------------------------------------------------------------
LEMMA JumpInit == Ptz!Init => JumpInv
<1> SUFFICES ASSUME Ptz!Init PROVE JumpInv OBVIOUS
<1>1. /\ p_script = [u \in Caller |-> <<>>] /\ p_run = [p \in Ptz!Proc |-> Ptz!Idle] /\ p_queue = <<>>
      /\ p_pos \in Spots /\ p_target = None
      /\ \E taken \in SUBSET Ptz!Slot : p_presets = [s \in Ptz!Slot |-> IF s \in taken THEN p_pos ELSE None]
  BY DEF Ptz!Init
<1>2. ScriptsShape BY <1>1, SeqNone DEF ScriptsShape
<1>3. RunsShape
  <2>1. \A p \in Ptz!Proc : p_run[p] = Ptz!Idle BY <1>1
  <2>2. \A u \in Caller : p_run[Ptz!Fore(u)] = Ptz!Idle /\ p_run[Ptz!Timer(u)] = Ptz!Idle BY <2>1, Procs
  <2>. QED BY <1>1, <2>1, <2>2, IdleRun DEF RunsShape, ForeOk, TimerOk
<1>4. p_pos \in Place
  BY <1>1, ScriptsAssumption DEF Ptz!CallerConstants, Place, Columns, Rows, Ptz!MAX_PTZ_X, Ptz!MAX_PTZ_Y
<1>5. Somewhere BY <1>1, <1>4 DEF Somewhere
<1>. QED BY <1>1, <1>2, <1>3, <1>5 DEF JumpInv, Shape, Aim

LEMMA JumpNext == JumpInv /\ [Ptz!Next]_Ptz!vars => JumpInv'
<1> SUFFICES ASSUME JumpInv, [Ptz!Next]_Ptz!vars PROVE JumpInv' OBVIOUS
<1>1. ASSUME NEW u \in Caller, NEW op \in Ops, Ptz!Begin(u, op) PROVE JumpInv' BY <1>1, BeginKeeps
<1>2. ASSUME NEW u \in Caller, Ptz!EditPreset(u) PROVE JumpInv' BY <1>2, EditKeeps
<1>3. ASSUME NEW u \in Caller, Ptz!WriteLine(u) PROVE JumpInv' BY <1>3, WriteKeeps
<1>4. ASSUME NEW u \in Caller, Ptz!Open(u) PROVE JumpInv' BY <1>4, OpenKeeps
<1>5. ASSUME NEW p \in Ptz!Proc, Ptz!Command(p) PROVE JumpInv' BY <1>5, CommandKeeps
<1>6. CASE Ptz!Dispatch BY <1>6, DispatchKeeps
<1>7. CASE UNCHANGED Ptz!vars
  <2>1. UNCHANGED <<p_model, p_script, p_run, p_queue, p_presets, p_pos, p_target>> BY <1>7 DEF Ptz!vars, Ptz!camera
  <2>2. Shape'
    <3>1. ScriptsShape' BY <2>1 DEF JumpInv, Shape, ScriptsShape, Ptz!IsSeq, Ptz!Range
    <3>2. RunsShape' BY <2>1 DEF JumpInv, Shape, RunsShape, ForeOk, TimerOk
    <3>3. Somewhere' BY <2>1 DEF JumpInv, Shape, Somewhere
    <3>. QED BY <3>1, <3>2, <3>3 DEF Shape
  <2>3. Aim'
    <3>1. \A w \in Caller : Unmoved(w) BY <2>1 DEF Unmoved
    <3>2. \A w \in Caller : (Calm(w) => Calm(w)') /\ (Jumper(w) => Jumper(w)')
      BY <2>1, <3>1, UnmovedCalm, UnmovedJumper
    <3>3. (QuietQueue => QuietQueue') /\ (InFlight => InFlight') BY <2>1 DEF QuietQueue, InFlight
    <3>4. CloseTo(p_pos, p_target) => CloseTo(p_pos, p_target)' BY <2>1 DEF CloseTo, Ptz!Reported
    <3>5. Underway => Underway' BY <3>2, <3>3 DEF Underway
    <3>6. Aimed => Aimed' BY <3>2, <3>3, <3>4 DEF Aimed
    <3>. QED BY <2>1, <3>5, <3>6 DEF JumpInv, Aim, Angles
  <2>. QED BY <2>2, <2>3 DEF JumpInv
<1>. QED BY <1>1, <1>2, <1>3, <1>4, <1>5, <1>6, <1>7 DEF Ptz!Next

(* When everything has been carried out there is no jump left to send.     *)
LEMMA JumpsLanded == JumpInv => Ptz!JumpLands
<1> SUFFICES ASSUME JumpInv, Ptz!Quiet, p_target # None PROVE CloseTo(p_pos, p_target)
  BY DEF Ptz!JumpLands, CloseTo
<1>1. p_queue = <<>> /\ \A u \in Caller : p_script[u] = <<>> BY DEF Ptz!Quiet
<1>2. \A u \in Caller : ~p_run[Ptz!Fore(u)].on BY <1>1 DEF JumpInv, Shape, RunsShape, ForeOk
<1>3. \A u \in Caller : ~Jumper(u) BY <1>1, <1>2 DEF Jumper, Waits, ToRead, ToSend
<1>4. ~InFlight BY <1>1, SeqNone DEF InFlight
<1>. QED BY <1>3, <1>4 DEF JumpInv, Aim, Underway, Aimed

(* A jump ends within a degree of where it was asked to, for any number of *)
(* callers, any scripts they run, any length of the queue and every model  *)
(* of the camera (ipc_cmd.c lines 800-834, 883-906).                       *)
THEOREM JumpLandsAlways == ControlSpec => []JumpLands
<1>1. ControlInit => JumpInv BY JumpInit DEF ControlInit
<1>2. JumpInv /\ [ControlNext]_allVars => JumpInv'
  <2>1. [ControlNext]_allVars => [Ptz!Next]_Ptz!vars
    BY DEF ControlNext, Other, allVars, ptzVars, Ptz!vars, Ptz!camera
  <2>. QED BY <2>1, JumpNext
<1>3. JumpInv => JumpLands BY JumpsLanded DEF JumpLands
<1>. QED BY <1>1, <1>2, <1>3, PTL DEF ControlSpec

-----------------------------------------------------------------------------
(* The two tables of presets.  What a message, and a step of a run, makes  *)
(* of the set of presets that the camera has.                              *)
AfterAdd(F) == F \cup {s \in Ptz!Slot \ F : \A f \in Ptz!Slot \ F : s <= f}
After(F, m) == IF m.kind = "add" THEN AfterAdd(F) ELSE IF m.kind = "remove" THEN F \ {m.arg} ELSE F
AfterStep(F, e) == IF e.do = "send" THEN After(F, e.msg) ELSE F

(* The messages of q lead from F to G, and so do the steps of t.           *)
Leads(F, q, G) == \E h : h[0] = F /\ h[Len(q)] = G /\ \A i \in DOMAIN q : h[i] = After(h[i - 1], q[i])
Steps(F, t, G) == \E h : h[0] = F /\ h[Len(t)] = G /\ \A i \in DOMAIN t : h[i] = AfterStep(h[i - 1], t[i])

Adding == {"add", "remove"}
Mild(t) == Ptz!IsSeq(t) /\ \A i \in DOMAIN t : ~(t[i].do = "send" /\ t[i].msg.kind \in Adding)

LEMMA LeadsNone == ASSUME NEW F, NEW G PROVE Leads(F, <<>>, G) <=> F = G
<1>1. ASSUME Leads(F, <<>>, G) PROVE F = G BY <1>1 DEF Leads
<1>2. ASSUME F = G PROVE Leads(F, <<>>, G)
  <2> DEFINE h == [i \in {0} |-> F]
  <2>1. h[0] = F /\ h[Len(<<>>)] = G BY <1>2
  <2>2. DOMAIN <<>> = {} BY SeqNone
  <2>. HIDE DEF h
  <2>. QED BY <2>1, <2>2 DEF Leads
<1>. QED BY <1>1, <1>2

LEMMA LeadsAppend ==
  ASSUME NEW F, NEW q, Ptz!IsSeq(q), NEW G, Leads(F, q, G), NEW m PROVE Leads(F, Append(q, m), After(G, m))
<1> DEFINE a == Append(q, m)
           n == Len(q)
<1>1. /\ n \in Nat /\ DOMAIN q = 1 .. n /\ DOMAIN a = 1 .. n + 1 /\ Ptz!IsSeq(a)
      /\ \A i \in 1 .. n : a[i] = q[i]
      /\ a[n + 1] = m
  BY SeqAppend
<1>2. Len(a) = n + 1
  <2>1. a \in Seq(Ptz!Range(a)) BY <1>1 DEF Ptz!IsSeq
  <2>. HIDE DEF a, n
  <2>. QED BY <1>1, <2>1
<1>3. PICK h : h[0] = F /\ h[n] = G /\ \A i \in DOMAIN q : h[i] = After(h[i - 1], q[i]) BY DEF Leads
<1>. HIDE DEF a, n
<1> DEFINE g == [i \in 0 .. n + 1 |-> IF i = n + 1 THEN After(G, m) ELSE h[i]]
<1>4. /\ g[n + 1] = After(G, m) /\ \A i \in 0 .. n : g[i] = h[i]
  BY <1>1
<1>. HIDE DEF g
<1>5. g[0] = F /\ g[Len(a)] = After(G, m) BY <1>1, <1>2, <1>3, <1>4
<1>6. ASSUME NEW i \in DOMAIN a PROVE g[i] = After(g[i - 1], a[i])
  <2>1. CASE i = n + 1
    <3>1. g[i - 1] = G
      <4>1. i - 1 = n /\ n \in 0 .. n BY <1>1, <2>1
      <4>. QED BY <1>3, <1>4, <4>1
    <3>. QED BY <1>1, <1>4, <2>1, <3>1
  <2>2. CASE i # n + 1
    <3>1. i \in 1 .. n /\ i \in 0 .. n /\ i - 1 \in 0 .. n BY <1>1, <2>2
    <3>. QED BY <1>1, <1>3, <1>4, <3>1
  <2>. QED BY <2>1, <2>2
<1>7. Leads(F, a, After(G, m)) BY <1>5, <1>6 DEF Leads
<1>. QED BY <1>7 DEF a

LEMMA LeadsTail ==
  ASSUME NEW F, NEW q, Ptz!IsSeq(q), q # <<>>, NEW G, Leads(F, q, G) PROVE Leads(After(F, Head(q)), Tail(q), G)
<1> DEFINE t == Tail(q)
           n == Len(q)
<1>1. /\ n \in Nat \ {0} /\ DOMAIN q = 1 .. n /\ DOMAIN t = 1 .. n - 1 /\ Len(t) = n - 1 /\ Head(q) = q[1]
      /\ \A i \in 1 .. n - 1 : t[i] = q[i + 1]
  BY SeqTail
<1>2. PICK h : h[0] = F /\ h[n] = G /\ \A i \in DOMAIN q : h[i] = After(h[i - 1], q[i]) BY DEF Leads
<1>. HIDE DEF t, n
<1> DEFINE g == [i \in 0 .. n - 1 |-> h[i + 1]]
<1>3. \A i \in 0 .. n - 1 : g[i] = h[i + 1] OBVIOUS
<1>. HIDE DEF g
<1>4. g[0] = After(F, Head(q))
  <2>1. 1 \in DOMAIN q /\ 0 \in 0 .. n - 1 /\ 0 + 1 = 1 /\ 1 - 1 = 0 BY <1>1
  <2>2. h[1] = After(h[0], q[1]) BY <1>2, <2>1
  <2>3. g[0] = h[1] BY <1>3, <2>1
  <2>. QED BY <1>1, <1>2, <2>2, <2>3
<1>5. g[Len(t)] = G
  <2>1. n - 1 \in 0 .. n - 1 /\ (n - 1) + 1 = n BY <1>1
  <2>. QED BY <1>1, <1>2, <1>3, <2>1
<1>6. ASSUME NEW i \in DOMAIN t PROVE g[i] = After(g[i - 1], t[i])
  <2>1. i \in 1 .. n - 1 /\ i \in 0 .. n - 1 /\ i - 1 \in 0 .. n - 1 /\ (i - 1) + 1 = i /\ (i + 1) - 1 = i /\ i + 1 \in DOMAIN q
    BY <1>1
  <2>2. h[i + 1] = After(h[i], q[i + 1]) BY <1>2, <2>1
  <2>3. g[i] = h[i + 1] /\ g[i - 1] = h[i] BY <1>3, <2>1
  <2>. QED BY <1>1, <2>1, <2>2, <2>3
<1>7. Leads(After(F, Head(q)), t, G) BY <1>4, <1>5, <1>6 DEF Leads
<1>. QED BY <1>7 DEF t

LEMMA StepsNone == ASSUME NEW F, NEW G, Steps(F, <<>>, G) PROVE F = G
  BY DEF Steps

LEMMA StepsTail ==
  ASSUME NEW F, NEW q, Ptz!IsSeq(q), q # <<>>, NEW G, Steps(F, q, G) PROVE Steps(AfterStep(F, Head(q)), Tail(q), G)
<1> DEFINE t == Tail(q)
           n == Len(q)
<1>1. /\ n \in Nat \ {0} /\ DOMAIN q = 1 .. n /\ DOMAIN t = 1 .. n - 1 /\ Len(t) = n - 1 /\ Head(q) = q[1]
      /\ \A i \in 1 .. n - 1 : t[i] = q[i + 1]
  BY SeqTail
<1>2. PICK h : h[0] = F /\ h[n] = G /\ \A i \in DOMAIN q : h[i] = AfterStep(h[i - 1], q[i]) BY DEF Steps
<1>. HIDE DEF t, n
<1> DEFINE g == [i \in 0 .. n - 1 |-> h[i + 1]]
<1>3. \A i \in 0 .. n - 1 : g[i] = h[i + 1] OBVIOUS
<1>. HIDE DEF g
<1>4. g[0] = AfterStep(F, Head(q))
  <2>1. 1 \in DOMAIN q /\ 0 \in 0 .. n - 1 /\ 0 + 1 = 1 /\ 1 - 1 = 0 BY <1>1
  <2>2. h[1] = AfterStep(h[0], q[1]) BY <1>2, <2>1
  <2>3. g[0] = h[1] BY <1>3, <2>1
  <2>. QED BY <1>1, <1>2, <2>2, <2>3
<1>5. g[Len(t)] = G
  <2>1. n - 1 \in 0 .. n - 1 /\ (n - 1) + 1 = n BY <1>1
  <2>. QED BY <1>1, <1>2, <1>3, <2>1
<1>6. ASSUME NEW i \in DOMAIN t PROVE g[i] = AfterStep(g[i - 1], t[i])
  <2>1. i \in 1 .. n - 1 /\ i \in 0 .. n - 1 /\ i - 1 \in 0 .. n - 1 /\ (i - 1) + 1 = i /\ (i + 1) - 1 = i /\ i + 1 \in DOMAIN q
    BY <1>1
  <2>2. h[i + 1] = AfterStep(h[i], q[i + 1]) BY <1>2, <2>1
  <2>3. g[i] = h[i + 1] /\ g[i - 1] = h[i] BY <1>3, <2>1
  <2>. QED BY <1>1, <2>1, <2>2, <2>3
<1>7. Steps(AfterStep(F, Head(q)), t, G) BY <1>4, <1>5, <1>6 DEF Steps
<1>. QED BY <1>7 DEF t

(* A run without -P, -H and -R leaves the presets alone.                   *)
LEMMA MildCat == ASSUME NEW s, NEW t, Mild(s), Mild(t) PROVE Mild(s \o t)
  BY SeqCat DEF Mild

LEMMA MildTail ==
  ASSUME NEW t, Mild(t), t # <<>>
  PROVE  Mild(Tail(t)) /\ (Head(t).do = "send" => Head(t).msg.kind \notin Adding)
  BY SeqTail DEF Mild

LEMMA MildStep ==
  ASSUME NEW kind, NEW arg, NEW what
  PROVE  /\ kind \notin Adding => Mild(Ptz!Send(kind, arg))
         /\ what # "send" => Mild(Ptz!Do(what))
<1> DEFINE e == [do |-> "send", msg |-> [kind |-> kind, arg |-> arg]]
           f == [do |-> what]
<1>1. Ptz!Send(kind, arg) = <<e>> /\ Ptz!Do(what) = <<f>> BY DEF Ptz!Send, Ptz!Do
<1>2. e.msg.kind = kind /\ f.do = what OBVIOUS
<1>. HIDE DEF e, f
<1>. QED BY <1>1, <1>2, SeqOne DEF Mild

LEMMA MildWhen == ASSUME NEW c, NEW s, c => Mild(s) PROVE Mild(Ptz!When(c, s))
<1>1. Mild(<<>>) BY SeqNone DEF Mild
<1>. QED BY <1>1 DEF Ptz!When

LEMMA MildSettings == ASSUME NEW v PROVE Mild(Ptz!Settings(v))
<1>1. ASSUME NEW o PROVE Mild(Ptz!Set(v, o))
  <2>1. Mild(Ptz!Send("set", <<o, v[o]>>)) BY MildStep DEF Adding
  <2>. QED BY <2>1, MildWhen DEF Ptz!Set
<1>. QED BY <1>1, MildCat DEF Ptz!Settings

LEMMA MildPresets == ASSUME NEW v, ~Ptz!Given(v, "P"), ~Ptz!Given(v, "H") PROVE Mild(Ptz!Presets(v))
<1> DEFINE g == Ptz!Given(v, "p") /\ v["p"] # -1
           a == Ptz!When(g, Ptz!Send("goto", v["p"] % 256))
           b == Ptz!When(Ptz!Given(v, "P"), Ptz!Send("add", "preset"))
           c == Ptz!When(Ptz!Given(v, "g"), Ptz!Do("read"))
           d == Ptz!When(Ptz!Given(v, "u"), Ptz!Do("read"))
           e == Ptz!When(Ptz!Given(v, "H"), Ptz!Send("remove", 0) \o Ptz!Do("sleep") \o Ptz!Send("add", "preset"))
<1>1. Mild(a) BY MildStep, MildWhen DEF Adding
<1>2. Mild(b) /\ Mild(e) BY MildWhen
<1>3. Mild(c) /\ Mild(d) BY MildStep, MildWhen
<1>4. Ptz!Presets(v) = a \o b \o c \o d \o e BY DEF Ptz!Presets
<1>. HIDE DEF a, b, c, d, e
<1>. QED BY <1>1, <1>2, <1>3, <1>4, MildCat

LEMMA MildPlan ==
  ASSUME NEW v, NEW m, ~Ptz!Given(v, "P"), ~Ptz!Given(v, "H"), ~Ptz!Given(v, "R") PROVE Mild(Ptz!Plan(v, m))
<1>1. Mild(Ptz!Move(v, m)) BY MildStep, MildWhen DEF Ptz!Move, Adding
<1>2. Mild(Ptz!Jumps(v))
  <2>1. Mild(Ptz!Do("read") \o Ptz!Do("jump to")) /\ Mild(Ptz!Do("read") \o Ptz!Do("jump by")) BY MildStep, MildCat
  <2>. QED BY <2>1, MildWhen, MildCat DEF Ptz!Jumps
<1>3. Mild(Ptz!RemovePreset(v)) BY MildWhen DEF Ptz!RemovePreset
<1>4. Mild(Ptz!Cruise(v))
  <2>1. Mild(Ptz!Send("cruise", v["C"])) /\ Mild(Ptz!Do("sleep")) /\ Mild(Ptz!Send("cruise", "on")) BY MildStep DEF Adding
  <2>2. Mild(Ptz!Send("cruise", "on") \o Ptz!Do("sleep") \o Ptz!Send("cruise", v["C"])) BY <2>1, MildCat
  <2>. QED BY <2>1, <2>2, MildWhen DEF Ptz!Cruise
<1>5. Mild(Ptz!Motion(v))
  <2>1. Mild(Ptz!Send("motion", "start")) /\ Mild(Ptz!Send("motion", "stop")) /\ Mild(Ptz!Do("fork")) /\ Mild(Ptz!Do("sleep"))
    BY MildStep DEF Adding
  <2>2. Mild(Ptz!Send("motion", "start") \o Ptz!Do("fork") \o Ptz!Do("sleep") \o Ptz!Send("motion", "stop")) BY <2>1, MildCat
  <2>. QED BY <2>1, <2>2, MildWhen, MildCat DEF Ptz!Motion
<1>6. Mild(Ptz!Ending(v))
  <2>1. Mild(Ptz!Do("worker")) /\ Mild(Ptz!Send("time", "now")) BY MildStep DEF Adding
  <2>. QED BY <2>1, MildWhen DEF Ptz!Ending
<1>7. Mild(Ptz!When(Ptz!Given(v, "f"), Ptz!Do("file"))) BY MildStep, MildWhen
<1>8. Mild(Ptz!Settings(v)) /\ Mild(Ptz!Presets(v)) BY MildSettings, MildPresets
<1>. QED BY <1>1, <1>2, <1>3, <1>4, <1>5, <1>6, <1>7, <1>8, MildCat DEF Ptz!Plan

PresetOpts == {"P", "H", "R"}
LEMMA ParseMild ==
  ASSUME NEW args, \A i \in DOMAIN args : args[i].opt \notin PresetOpts, NEW m
  PROVE  Mild(Ptz!Plan(Ptz!Parse(args), m))
<1>1. ASSUME NEW o \in PresetOpts PROVE ~Ptz!Given(Ptz!Parse(args), o)
  <2>1. \A i \in DOMAIN args : o \notin Ptz!Sets(args[i].opt) BY <1>1 DEF Ptz!Sets, PresetOpts
  <2>. QED BY <2>1 DEF Ptz!Given, Ptz!Parse, Ptz!Counts
<1>. QED BY <1>1, MildPlan DEF PresetOpts

-----------------------------------------------------------------------------
(* The runs that change the presets.                                       *)
LEMMA ParseOne ==
  ASSUME NEW o \in PresetOpts, NEW w
  PROVE  LET args == <<Ptz!Opt(o, w)>> IN DOMAIN Ptz!Parse(args) = {o} /\ Ptz!Parse(args)[o] = w
<1> DEFINE args == <<Ptz!Opt(o, w)>>
<1>1. DOMAIN args = {1} /\ args[1].opt = o /\ args[1].word = w BY DEF Ptz!Opt
<1>. HIDE DEF args
<1>2. Ptz!Sets(o) = {o} BY DEF Ptz!Sets, PresetOpts
<1>3. Ptz!Value(o, w) = w BY DEF Ptz!Value, Ptz!SettingOptions, PresetOpts
<1>4. \A p : Ptz!Counts(args[1], p) <=> p = o BY <1>1, <1>2 DEF Ptz!Counts, PresetOpts
<1>5. Ptz!Max({1}) = 1 BY DEF Ptz!Max
<1> DEFINE setting(p) == {i \in DOMAIN args : Ptz!Counts(args[i], p)}
           given == {p \in UNION {Ptz!Sets(args[i].opt) : i \in DOMAIN args} : setting(p) # {}}
<1>6. setting(o) = {1} BY <1>1, <1>4
<1>7. given = {o} BY <1>1, <1>2, <1>4
<1>8. Ptz!Parse(args) = [p \in given |-> Ptz!Value(args[Ptz!Max(setting(p))].opt, args[Ptz!Max(setting(p))].word)]
  BY DEF Ptz!Parse
<1>. HIDE DEF setting, given
<1>9. DOMAIN Ptz!Parse(args) = {o} /\ Ptz!Parse(args)[o] = w BY <1>1, <1>3, <1>5, <1>6, <1>7, <1>8
<1>. QED BY <1>9 DEF args

LEMMA PlanPreset ==
  ASSUME NEW v, NEW m, NEW o \in PresetOpts, DOMAIN v = {o}
  PROVE  /\ o = "P" => Ptz!Plan(v, m) = Ptz!Send("add", "preset")
         /\ o = "H" => Ptz!Plan(v, m) = Ptz!Send("remove", 0) \o Ptz!Do("sleep") \o Ptz!Send("add", "preset")
         /\ o = "R" => Ptz!Plan(v, m) = Ptz!RemovePreset(v)
<1>1. \A p : Ptz!Given(v, p) <=> p = o BY DEF Ptz!Given
<1>2. /\ Ptz!Settings(v) = <<>> /\ Ptz!Move(v, m) = <<>> /\ Ptz!Cruise(v) = <<>> /\ Ptz!Motion(v) = <<>>
      /\ Ptz!Jumps(v) = <<>> /\ Ptz!Ending(v) = <<>> /\ Ptz!When(Ptz!Given(v, "f"), Ptz!Do("file")) = <<>>
  <2>1. \A q : q \notin PresetOpts => ~Ptz!Given(v, q) BY <1>1
  <2>2. Ptz!Settings(v) = <<>>
    <3>1. \A q : q \notin PresetOpts => Ptz!Set(v, q) = <<>> BY <2>1 DEF Ptz!Set, Ptz!When
    <3>2. Ptz!IsSeq(<<>>) /\ <<>> \o <<>> = <<>> BY SeqNone, CatNone
    <3>3. Ptz!Settings(v) = <<>> \o <<>> \o <<>> \o <<>> \o <<>> \o <<>> \o <<>> \o <<>> \o <<>>
                          \o <<>> \o <<>> \o <<>> \o <<>> \o <<>> \o <<>> \o <<>> \o <<>>
      BY <3>1 DEF Ptz!Settings, PresetOpts
    <3>. QED BY <3>2, <3>3
  <2>3. Ptz!Move(v, m) = <<>> /\ Ptz!Cruise(v) = <<>> BY <2>1 DEF Ptz!Move, Ptz!Cruise, Ptz!When, PresetOpts
  <2>4. Ptz!Motion(v) = <<>> /\ Ptz!Ending(v) = <<>> BY <2>1 DEF Ptz!Motion, Ptz!Ending, Ptz!When, PresetOpts
  <2>5. Ptz!Jumps(v) = <<>> /\ Ptz!When(Ptz!Given(v, "f"), Ptz!Do("file")) = <<>>
    <3>1. ~Ptz!Given(v, "j") /\ ~Ptz!Given(v, "J") /\ ~Ptz!Given(v, "f") BY <2>1 DEF PresetOpts
    <3>2. <<>> \o <<>> = <<>> BY SeqNone, CatNone
    <3>. QED BY <3>1, <3>2 DEF Ptz!Jumps, Ptz!When
  <2>. QED BY <2>2, <2>3, <2>4, <2>5
<1> DEFINE p == Ptz!Presets(v)
           r == Ptz!RemovePreset(v)
           home == Ptz!Send("remove", 0) \o Ptz!Do("sleep") \o Ptz!Send("add", "preset")
           add == Ptz!Send("add", "preset")
<1>3. Ptz!Plan(v, m) = <<>> \o <<>> \o <<>> \o p \o r \o <<>> \o <<>> \o <<>> \o <<>> BY <1>2 DEF Ptz!Plan
<1>4. Ptz!IsSeq(p) /\ Ptz!IsSeq(r) BY PresetsSteps, RemoveSteps DEF NoFork, Both
<1>5. Ptz!IsSeq(home) /\ Ptz!IsSeq(add) BY SeqOne, SeqCat DEF Ptz!Send, Ptz!Do
<1>6. Ptz!IsSeq(<<>>) BY SeqNone
<1>7. o = "P" => r = <<>> /\ p = <<>> \o add \o <<>> \o <<>> \o <<>> BY <1>1 DEF Ptz!Presets, Ptz!RemovePreset, Ptz!When
<1>8. o = "H" => r = <<>> /\ p = <<>> \o <<>> \o <<>> \o <<>> \o home BY <1>1 DEF Ptz!Presets, Ptz!RemovePreset, Ptz!When
<1>9. o = "R" => p = <<>> \o <<>> \o <<>> \o <<>> \o <<>> BY <1>1 DEF Ptz!Presets, Ptz!When
<1>. HIDE DEF p, r, home, add
<1>10. (o = "P" => p = add) /\ (o = "H" => p = home) /\ (o = "R" => p = <<>>)
  BY <1>5, <1>6, <1>7, <1>8, <1>9, CatNone
<1>11. Ptz!Plan(v, m) = p \o r BY <1>3, <1>4, <1>6, CatNone, SeqCat
<1>12. (o = "P" => Ptz!Plan(v, m) = add) /\ (o = "H" => Ptz!Plan(v, m) = home) /\ (o = "R" => Ptz!Plan(v, m) = r)
  BY <1>4, <1>5, <1>7, <1>8, <1>10, <1>11, CatNone
<1>. QED BY <1>12 DEF p, r, home, add

(* What they make of the presets.                                          *)
Chosen(num) == {s \in Ptz!Slot : num \in {s, Ptz!All}}

LEMMA StepsOne == ASSUME NEW F, NEW kind, NEW arg PROVE Steps(F, Ptz!Send(kind, arg), After(F, [kind |-> kind, arg |-> arg]))
<1> DEFINE m == [kind |-> kind, arg |-> arg]
           e == [do |-> "send", msg |-> m]
           G == After(F, m)
           h == [i \in {0, 1} |-> IF i = 0 THEN F ELSE G]
<1>1. Ptz!Send(kind, arg) = <<e>> BY DEF Ptz!Send
<1>2. AfterStep(F, e) = G
  <2>1. e.do = "send" /\ e.msg = m OBVIOUS
  <2>. HIDE DEF e, m
  <2>. QED BY <2>1 DEF AfterStep, G
<1>3. h[0] = F /\ h[1] = G OBVIOUS
<1>. HIDE DEF m, e, h, G
<1>4. Len(<<e>>) = 1 /\ DOMAIN <<e>> = {1} /\ <<e>>[1] = e OBVIOUS
<1>5. Steps(F, <<e>>, G) BY <1>2, <1>3, <1>4 DEF Steps
<1>. QED BY <1>1, <1>5 DEF G, m

LEMMA StepsHome ==
  ASSUME NEW F PROVE Steps(F, Ptz!Send("remove", 0) \o Ptz!Do("sleep") \o Ptz!Send("add", "preset"), F \cup {0})
<1> DEFINE a == [do |-> "send", msg |-> [kind |-> "remove", arg |-> 0]]
           b == [do |-> "sleep"]
           c == [do |-> "send", msg |-> [kind |-> "add", arg |-> "preset"]]
           t == <<a>> \o <<b>> \o <<c>>
           E == F \ {0}
           h == [i \in 0 .. 3 |-> IF i = 0 THEN F ELSE IF i = 3 THEN F \cup {0} ELSE E]
<1>1. Ptz!Send("remove", 0) = <<a>> /\ Ptz!Do("sleep") = <<b>> /\ Ptz!Send("add", "preset") = <<c>> BY DEF Ptz!Send, Ptz!Do
<1>2. AfterStep(F, a) = E BY DEF AfterStep, After
<1>3. AfterStep(E, b) = E BY DEF AfterStep
<1>4. AfterStep(E, c) = F \cup {0}
  <2>1. 0 \in Ptz!Slot /\ \A s \in Ptz!Slot : 0 <= s /\ (s <= 0 => s = 0)
    BY ScriptsAssumption DEF Ptz!CallerConstants, Ptz!PresetConstants, Ptz!Slot
  <2>2. AfterAdd(E) = E \cup {0} BY <2>1 DEF AfterAdd
  <2>3. AfterStep(E, c) = AfterAdd(E) BY DEF AfterStep, After
  <2>. QED BY <2>2, <2>3
<1>5. h[0] = F /\ h[1] = E /\ h[2] = E /\ h[3] = F \cup {0} OBVIOUS
<1>. HIDE DEF a, b, c, E, h
<1>6. Ptz!IsSeq(t) /\ Len(t) = 3 /\ DOMAIN t = {1, 2, 3} /\ t[1] = a /\ t[2] = b /\ t[3] = c
  <2>1. <<a>> \o <<b>> = <<a, b>> BY PairOfTwo
  <2>2. Ptz!IsSeq(<<a, b>>) /\ Ptz!IsSeq(<<c>>) BY <2>1, SeqOne, SeqCat
  <2>3. Len(<<a, b>>) = 2 /\ <<a, b>>[1] = a /\ <<a, b>>[2] = b /\ Len(<<c>>) = 1 /\ <<c>>[1] = c OBVIOUS
  <2> DEFINE u == <<a, b>> \o <<c>>
  <2>4. /\ Ptz!IsSeq(u) /\ DOMAIN u = 1 .. 3 /\ u[1] = a /\ u[2] = b /\ u[3] = c
    BY <2>2, <2>3, SeqCat
  <2>5. t = u BY <2>1
  <2>. HIDE DEF u, t
  <2>6. Len(u) = 3
    <3>1. u \in Seq(Ptz!Range(u)) BY <2>4 DEF Ptz!IsSeq
    <3>. QED BY <2>4, <3>1
  <2>7. 1 .. 3 = {1, 2, 3} OBVIOUS
  <2>. QED BY <2>4, <2>5, <2>6, <2>7
<1>. HIDE DEF t
<1>7. Steps(F, t, F \cup {0}) BY <1>2, <1>3, <1>4, <1>5, <1>6 DEF Steps
<1>. QED BY <1>1, <1>7 DEF t

LEMMA StepsRemove ==
  ASSUME NEW F, NEW v, Ptz!Given(v, "R"), v["R"] \in Ptz!Slot \cup {Ptz!All}
  PROVE  Steps(F, Ptz!RemovePreset(v), F \ Chosen(v["R"]))
<1>1. CASE v["R"] # Ptz!All
  <2>1. Ptz!RemovePreset(v) = Ptz!Send("remove", v["R"]) BY <1>1 DEF Ptz!RemovePreset, Ptz!When
  <2>2. Chosen(v["R"]) = {v["R"]} BY <1>1 DEF Chosen
  <2>3. After(F, [kind |-> "remove", arg |-> v["R"]]) = F \ {v["R"]} BY DEF After
  <2>. QED BY <2>1, <2>2, <2>3, StepsOne
<1>2. CASE v["R"] = Ptz!All
  <2> DEFINE n == TopPreset + 1
             t == [i \in 1 .. n |-> Ptz!Send("remove", i - 1)[1]]
             h == [i \in 0 .. n |-> F \ (0 .. i - 1)]
  <2>1. Ptz!RemovePreset(v) = t BY <1>2 DEF Ptz!RemovePreset, Ptz!When
  <2>2. n \in Nat /\ Ptz!Slot = 0 .. n - 1 BY ScriptsAssumption DEF Ptz!CallerConstants, Ptz!PresetConstants, Ptz!Slot
  <2>3. Chosen(v["R"]) = Ptz!Slot BY <1>2 DEF Chosen
  <2>4. \A i \in 1 .. n : t[i].do = "send" /\ t[i].msg.kind = "remove" /\ t[i].msg.arg = i - 1 BY DEF Ptz!Send
  <2>5. \A i \in 0 .. n : h[i] = F \ (0 .. i - 1) OBVIOUS
  <2>6. Len(t) = n /\ DOMAIN t = 1 .. n BY <2>2
  <2>. HIDE DEF t, h, n
  <2>7. h[0] = F
    <3>1. 0 \in 0 .. n /\ 0 .. 0 - 1 = {} BY <2>2
    <3>. QED BY <2>5, <3>1
  <2>8. h[n] = F \ Ptz!Slot
    <3>1. n \in 0 .. n BY <2>2
    <3>. QED BY <2>2, <2>5, <3>1
  <2>9. ASSUME NEW i \in 1 .. n PROVE h[i] = AfterStep(h[i - 1], t[i])
    <3>1. i \in 0 .. n /\ i - 1 \in 0 .. n /\ 0 .. i - 1 = (0 .. (i - 1) - 1) \cup {i - 1} BY <2>2
    <3>2. AfterStep(h[i - 1], t[i]) = h[i - 1] \ {i - 1} BY <2>4 DEF AfterStep, After
    <3>. QED BY <2>5, <3>1, <3>2
  <2>10. Steps(F, t, F \ Ptz!Slot) BY <2>6, <2>7, <2>8, <2>9 DEF Steps
  <2>. QED BY <2>1, <2>3, <2>10
<1>. QED BY <1>1, <1>2

(* The plans of the three runs.                                            *)
LEMMA PresetRuns ==
  ASSUME NEW F, NEW m, NEW num
  PROVE  /\ LET t == Ptz!Plan(Ptz!Parse(<<Ptz!Opt("P", "name")>>), m) IN NoFork(t) /\ Steps(F, t, AfterAdd(F))
         /\ LET t == Ptz!Plan(Ptz!Parse(<<Ptz!Opt("H", "on")>>), m) IN NoFork(t) /\ Steps(F, t, F \cup {0})
         /\ num \in Ptz!Slot \cup {Ptz!All} =>
              LET t == Ptz!Plan(Ptz!Parse(<<Ptz!Opt("R", num)>>), m) IN NoFork(t) /\ Steps(F, t, F \ Chosen(num))
<1>1. LET t == Ptz!Plan(Ptz!Parse(<<Ptz!Opt("P", "name")>>), m) IN NoFork(t) /\ Steps(F, t, AfterAdd(F))
  <2> DEFINE v == Ptz!Parse(<<Ptz!Opt("P", "name")>>)
  <2>1. DOMAIN v = {"P"} BY ParseOne DEF PresetOpts
  <2>. HIDE DEF v
  <2>2. Ptz!Plan(v, m) = Ptz!Send("add", "preset") BY <2>1, PlanPreset DEF PresetOpts
  <2>3. After(F, [kind |-> "add", arg |-> "preset"]) = AfterAdd(F) BY DEF After
  <2>4. NoFork(Ptz!Plan(v, m)) /\ Steps(F, Ptz!Plan(v, m), AfterAdd(F)) BY <2>2, <2>3, SendStep, StepsOne
  <2>. QED BY <2>4 DEF v
<1>2. LET t == Ptz!Plan(Ptz!Parse(<<Ptz!Opt("H", "on")>>), m) IN NoFork(t) /\ Steps(F, t, F \cup {0})
  <2> DEFINE v == Ptz!Parse(<<Ptz!Opt("H", "on")>>)
             t == Ptz!Send("remove", 0) \o Ptz!Do("sleep") \o Ptz!Send("add", "preset")
  <2>1. DOMAIN v = {"H"} BY ParseOne DEF PresetOpts
  <2>. HIDE DEF v
  <2>2. Ptz!Plan(v, m) = t BY <2>1, PlanPreset DEF PresetOpts
  <2>3. NoFork(t)
    <3>1. NoFork(Ptz!Send("remove", 0)) /\ NoFork(Ptz!Do("sleep")) /\ NoFork(Ptz!Send("add", "preset")) BY SendStep, DoStep
    <3>. QED BY <3>1, NoForkCat
  <2>4. Steps(F, t, F \cup {0}) BY StepsHome
  <2>. HIDE DEF t
  <2>5. NoFork(Ptz!Plan(v, m)) /\ Steps(F, Ptz!Plan(v, m), F \cup {0}) BY <2>2, <2>3, <2>4
  <2>. QED BY <2>5 DEF v
<1>3. ASSUME num \in Ptz!Slot \cup {Ptz!All}
      PROVE  LET t == Ptz!Plan(Ptz!Parse(<<Ptz!Opt("R", num)>>), m) IN NoFork(t) /\ Steps(F, t, F \ Chosen(num))
  <2> DEFINE v == Ptz!Parse(<<Ptz!Opt("R", num)>>)
  <2>1. DOMAIN v = {"R"} /\ v["R"] = num BY ParseOne DEF PresetOpts
  <2>. HIDE DEF v
  <2>2. Ptz!Plan(v, m) = Ptz!RemovePreset(v) BY <2>1, PlanPreset DEF PresetOpts
  <2>3. NoFork(Ptz!RemovePreset(v)) BY RemoveSteps DEF Both
  <2>4. Steps(F, Ptz!RemovePreset(v), F \ Chosen(num)) BY <1>3, <2>1, StepsRemove DEF Ptz!Given
  <2>5. NoFork(Ptz!Plan(v, m)) /\ Steps(F, Ptz!Plan(v, m), F \ Chosen(num)) BY <2>2, <2>3, <2>4
  <2>. QED BY <2>5 DEF v
<1>. QED BY <1>1, <1>2, <1>3

-----------------------------------------------------------------------------
(* What a table is, and what a script has yet to do to make the presets F  *)
(* those of a table whose slots T are taken.                               *)
Taken(table) == {s \in Ptz!Slot : table[s] # <<>>}
Proper(table) == \A s \in Ptz!Slot : table[s] # <<"absent">> /\ (s # 0 => table[s] # <<"Home">>)
Fit(name) == name \notin {<<>>, <<"absent">>, <<"Home">>}

RunP == Ptz!Run(<<Ptz!Opt("P", "name")>>)
RunH == Ptz!Run(<<Ptz!Opt("H", "on")>>)
RunR(num) == Ptz!Run(<<Ptz!Opt("R", num)>>)
AfterAsk(name) == <<Ptz!Edit("add", 0, name), RunP>>
AfterDel == <<Ptz!Edit("home", 0, <<"Home">>), RunH>>

Starts(r) ==
  \/ Ptz!Spares(r)
  \/ \E name : Fit(name) /\ r \in {Ptz!AddPreset(name), AfterAsk(name)}
  \/ \E num : r = Ptz!DelPreset(num)
  \/ r = Ptz!SetHome

Awaits(r, F, T) ==
  \/ T = F /\ Starts(r)
  \/ T = AfterAdd(F) /\ r = <<RunP>>
  \/ \E num : T = F \ Chosen(num) /\ r = <<RunR(num)>>
  \/ T = F \ {0} /\ r = AfterDel
  \/ T = F \cup {0} /\ r = <<RunH>>

Settled(f, s, F) == Proper(f) /\ Ptz!IsSeq(s) /\ Awaits(s, F, Taken(f))

(* The file while it is written: the lines of the table from k on are left *)
(* to write.                                                               *)
Writing(table, k) ==
  [i \in 1 .. TopPreset + 1 - k |-> [job |-> "write", slot |-> k + i - 1, name |-> table[k + i - 1]]]

Pending(f, s, F) ==
  \E k \in 0 .. TopPreset + 1 : \E table, r :
    /\ s = Writing(table, k) \o r /\ \A i \in 0 .. k - 1 : f[i] = table[i]
    /\ Settled(table, r, F)

LEMMA SeqSame ==
  ASSUME NEW s, NEW t, Ptz!IsSeq(s), Ptz!IsSeq(t), Len(s) = Len(t), \A i \in 1 .. Len(s) : s[i] = t[i] PROVE s = t
<1>1. s \in Seq(Ptz!Range(s)) /\ t \in Seq(Ptz!Range(t)) BY DEF Ptz!IsSeq
<1>2. s = [i \in 1 .. Len(s) |-> s[i]] /\ t = [i \in 1 .. Len(t) |-> t[i]] BY <1>1
<1>3. Len(s) \in Nat BY <1>1
<1>. QED BY <1>2, <1>3

LEMMA SeqLength == ASSUME NEW s, Ptz!IsSeq(s) PROVE Len(s) \in Nat /\ DOMAIN s = 1 .. Len(s)
<1>1. s \in Seq(Ptz!Range(s)) BY DEF Ptz!IsSeq
<1>. QED BY <1>1

LEMMA SeqSome == ASSUME NEW s, Ptz!IsSeq(s), 1 \in DOMAIN s PROVE s # <<>>
  OBVIOUS

LEMMA Lines ==
  /\ TopPreset + 1 \in Nat /\ TopPreset \in Nat /\ Ptz!Slot = 0 .. TopPreset
  /\ \A k \in 0 .. TopPreset + 1 : k \in Int /\ TopPreset + 1 - k \in Nat
  BY ScriptsAssumption DEF Ptz!CallerConstants, Ptz!PresetConstants, Ptz!Slot

LEMMA WritingSeq ==
  ASSUME NEW table, NEW k \in 0 .. TopPreset + 1
  PROVE  /\ Ptz!IsSeq(Writing(table, k)) /\ Len(Writing(table, k)) = TopPreset + 1 - k
         /\ \A i \in 1 .. TopPreset + 1 - k :
              Writing(table, k)[i] = [job |-> "write", slot |-> k + i - 1, name |-> table[k + i - 1]]
<1> DEFINE n == TopPreset + 1 - k
           e(i) == [job |-> "write", slot |-> k + i - 1, name |-> table[k + i - 1]]
           t == [i \in 1 .. n |-> e(i)]
<1>1. n \in Nat BY Lines
<1>2. Writing(table, k) = t BY DEF Writing
<1>. HIDE DEF n, e
<1>3. \A i \in 1 .. n : t[i] = e(i) OBVIOUS
<1>4. \A i \in 1 .. n : t[i] \in Ptz!Range(t) BY DEF Ptz!Range
<1>5. t \in Seq(Ptz!Range(t)) /\ Len(t) = n BY <1>1, <1>4
<1>6. Ptz!IsSeq(t) /\ Len(t) = n BY <1>5 DEF Ptz!IsSeq
<1>. HIDE DEF t
<1>. QED BY <1>2, <1>3, <1>6 DEF n, e

LEMMA WritingAll == ASSUME NEW table PROVE Ptz!WriteJobs(table) = Writing(table, 0)
<1>1. TopPreset + 1 - 0 = TopPreset + 1 BY Lines
<1>2. \A i \in 1 .. TopPreset + 1 : 0 + i - 1 = i - 1 BY Lines
<1>. QED BY <1>1, <1>2 DEF Ptz!WriteJobs, Writing

LEMMA WritingNone == ASSUME NEW table PROVE Writing(table, TopPreset + 1) = <<>>
<1> DEFINE k == TopPreset + 1
           w == Writing(table, k)
<1>1. k \in 0 .. TopPreset + 1 /\ TopPreset + 1 - k = 0 BY Lines
<1>2. Ptz!IsSeq(w) /\ Len(w) = 0 BY <1>1, WritingSeq
<1>. HIDE DEF w
<1>3. w \in Seq(Ptz!Range(w)) BY <1>2 DEF Ptz!IsSeq
<1>4. w = <<>> BY <1>2, <1>3, EmptySeq
<1>. QED BY <1>4 DEF w

LEMMA WritingStep ==
  ASSUME NEW table, NEW k \in 0 .. TopPreset, NEW r, Ptz!IsSeq(r)
  PROVE  LET s == Writing(table, k) \o r
         IN /\ s # <<>> /\ Head(s) = [job |-> "write", slot |-> k, name |-> table[k]]
            /\ Tail(s) = Writing(table, k + 1) \o r
<1> DEFINE n == TopPreset + 1 - k
           w == Writing(table, k)
           v == Writing(table, k + 1)
           m == Len(r)
           s == w \o r
           t == v \o r
           e(i) == [job |-> "write", slot |-> k + i - 1, name |-> table[k + i - 1]]
<1>1. /\ k \in 0 .. TopPreset + 1 /\ k + 1 \in 0 .. TopPreset + 1
      /\ n \in Nat \ {0} /\ n - 1 = TopPreset + 1 - (k + 1) /\ k \in Int
  BY Lines
<1>2. Ptz!IsSeq(w) /\ Len(w) = n /\ \A i \in 1 .. n : w[i] = e(i) BY <1>1, WritingSeq
<1> DEFINE j == k + 1
<1>3. Ptz!IsSeq(v) /\ Len(v) = n - 1
      /\ \A i \in 1 .. n - 1 : v[i] = [job |-> "write", slot |-> j + i - 1, name |-> table[j + i - 1]]
  <2>1. j \in 0 .. TopPreset + 1 /\ n - 1 = TopPreset + 1 - j /\ v = Writing(table, j) BY <1>1
  <2>. HIDE DEF n, j, v
  <2>2. /\ Ptz!IsSeq(Writing(table, j)) /\ Len(Writing(table, j)) = TopPreset + 1 - j
        /\ \A i \in 1 .. TopPreset + 1 - j :
             Writing(table, j)[i] = [job |-> "write", slot |-> j + i - 1, name |-> table[j + i - 1]]
    BY <2>1, WritingSeq
  <2>3. TopPreset + 1 - j = n - 1 /\ Writing(table, j) = v BY <2>1
  <2>. QED BY ONLY <2>2, <2>3
<1>4. \A i \in 1 .. n - 1 : v[i] = w[i + 1]
  <2>1. ASSUME NEW i \in 1 .. n - 1 PROVE i + 1 \in 1 .. n /\ j + i - 1 = k + (i + 1) - 1 BY <1>1
  <2>. QED BY <1>2, <1>3, <2>1
<1>. HIDE DEF n, w, v
<1>5. /\ Ptz!IsSeq(s) /\ m \in Nat /\ DOMAIN s = 1 .. n + m
      /\ \A i \in 1 .. n : s[i] = w[i]
      /\ \A i \in n + 1 .. n + m : s[i] = r[i - n]
  <2>1. Ptz!IsSeq(w) /\ Ptz!IsSeq(r) /\ Len(w) = n BY <1>2
  <2>2. /\ Ptz!IsSeq(s) /\ Len(r) \in Nat /\ DOMAIN s = 1 .. Len(w) + Len(r)
        /\ \A i \in 1 .. Len(w) : s[i] = w[i]
        /\ \A i \in Len(w) + 1 .. Len(w) + Len(r) : s[i] = r[i - Len(w)]
    BY <2>1, SeqCat
  <2>. HIDE DEF s
  <2>. QED BY <2>1, <2>2
<1>6. /\ Ptz!IsSeq(t) /\ DOMAIN t = 1 .. n - 1 + m
      /\ \A i \in 1 .. n - 1 : t[i] = v[i]
      /\ \A i \in n .. n - 1 + m : t[i] = r[i - (n - 1)]
  <2>1. (n - 1) + 1 = n BY <1>1
  <2>. QED BY <1>3, <2>1, SeqCat
<1>. HIDE DEF s, t, m, e
<1>7. 1 \in 1 .. n /\ 1 \in DOMAIN s BY <1>1, <1>5
<1>8. s # <<>> BY <1>5, <1>7, SeqSome
<1>9. Len(s) = n + m /\ Len(t) = n - 1 + m
  <2>1. Len(s) \in Nat /\ DOMAIN s = 1 .. Len(s) /\ Len(t) \in Nat /\ DOMAIN t = 1 .. Len(t)
    BY <1>5, <1>6, SeqLength
  <2>. QED BY <1>1, <1>5, <1>6, <2>1
<1>10. /\ Ptz!IsSeq(Tail(s)) /\ Len(Tail(s)) = n + m - 1 /\ Head(s) = s[1]
       /\ \A i \in 1 .. n + m - 1 : Tail(s)[i] = s[i + 1]
  <2>1. /\ Ptz!IsSeq(Tail(s)) /\ Len(Tail(s)) = Len(s) - 1 /\ Head(s) = s[1]
        /\ \A i \in 1 .. Len(s) - 1 : Tail(s)[i] = s[i + 1]
    BY <1>5, <1>8, SeqTail
  <2>2. Len(s) - 1 = n + m - 1 BY <1>1, <1>5, <1>9
  <2>. QED BY <2>1, <2>2, Zenon
<1>11. \A i \in 1 .. n + m - 1 : s[i + 1] = t[i]
  <2> SUFFICES ASSUME NEW i \in 1 .. n + m - 1 PROVE s[i + 1] = t[i] OBVIOUS
  <2>1. CASE i <= n - 1
    <3>1. i \in 1 .. n - 1 /\ i + 1 \in 1 .. n BY <1>1, <1>5, <2>1
    <3>. QED BY <1>4, <1>5, <1>6, <3>1
  <2>2. CASE ~(i <= n - 1)
    <3>1. i \in n .. n - 1 + m /\ i + 1 \in n + 1 .. n + m /\ (i + 1) - n = i - (n - 1) BY <1>1, <1>5, <2>2
    <3>. QED BY <1>5, <1>6, <3>1
  <2>. QED BY <2>1, <2>2
<1>12. Tail(s) = t
  <2>1. n + m - 1 = n - 1 + m BY <1>1, <1>5
  <2>. QED BY <1>6, <1>9, <1>10, <1>11, <2>1, SeqSame
<1>13. Head(s) = [job |-> "write", slot |-> k, name |-> table[k]]
  <2>1. k + 1 - 1 = k BY <1>1
  <2>2. Head(s) = e(1) BY <1>2, <1>5, <1>7, <1>10
  <2>. QED BY <2>1, <2>2 DEF e
<1>14. s # <<>> /\ Head(s) = [job |-> "write", slot |-> k, name |-> table[k]] /\ Tail(s) = v \o r
  BY <1>8, <1>12, <1>13 DEF t
<1>. QED BY <1>14 DEF s, w, v

(* The scripts that change the presets, job after job.                     *)
LEMMA ShortSeq ==
  ASSUME NEW a, NEW b, NEW c
  PROVE  /\ Ptz!IsSeq(<<a>>) /\ <<a>> # <<>> /\ Head(<<a>>) = a /\ Tail(<<a>>) = <<>>
         /\ Ptz!IsSeq(<<a, b>>) /\ <<a, b>> # <<>> /\ Head(<<a, b>>) = a /\ Tail(<<a, b>>) = <<b>>
         /\ Ptz!IsSeq(<<a, b, c>>) /\ <<a, b, c>> # <<>> /\ Head(<<a, b, c>>) = a /\ Tail(<<a, b, c>>) = <<b, c>>
<1>1. <<a>> \in Seq({a, b, c}) /\ <<a, b>> \in Seq({a, b, c}) /\ <<a, b, c>> \in Seq({a, b, c}) OBVIOUS
<1>2. Ptz!IsSeq(<<a>>) /\ Ptz!IsSeq(<<a, b>>) /\ Ptz!IsSeq(<<a, b, c>>) BY <1>1, SeqIs
<1>3. <<a>> # <<>> /\ Head(<<a>>) = a /\ Tail(<<a>>) = <<>> OBVIOUS
<1>4. <<a, b>> # <<>> /\ Head(<<a, b>>) = a /\ Tail(<<a, b>>) = <<b>> OBVIOUS
<1>5. <<a, b, c>> # <<>> /\ Head(<<a, b, c>>) = a /\ Tail(<<a, b, c>>) = <<b, c>> OBVIOUS
<1>. QED BY <1>2, <1>3, <1>4, <1>5

LEMMA Jobs ==
  /\ Ptz!Ask.job = "run" /\ RunP.job = "run" /\ RunH.job = "run" /\ \A num : RunR(num).job = "run"
  /\ Ptz!Ask.args = <<Ptz!Opt("g", "on")>> /\ RunP.args = <<Ptz!Opt("P", "name")>> /\ RunH.args = <<Ptz!Opt("H", "on")>>
  /\ \A num : RunR(num).args = <<Ptz!Opt("R", num)>>
  /\ \A kind, num, name : LET job == Ptz!Edit(kind, num, name)
                          IN job.job = "edit" /\ job.kind = kind /\ job.num = num /\ job.name = name
  BY DEF Ptz!Ask, RunP, RunH, RunR, Ptz!Run, Ptz!Edit, Ptz!Opt

LEMMA SparesTail ==
  ASSUME NEW s, Ptz!IsSeq(s), s # <<>>, Ptz!Spares(s)
  PROVE  /\ Ptz!Spares(Tail(s)) /\ Head(s).job = "run"
         /\ \/ Ptz!Refused(Head(s).args)
            \/ \A j \in DOMAIN Head(s).args : Head(s).args[j].opt \notin PresetOpts
  BY SeqTail DEF Ptz!Spares, PresetOpts

LEMMA StartsNone == Starts(<<>>)
  BY SeqNone DEF Starts, Ptz!Spares

LEMMA AwaitsNothing == ASSUME NEW F, NEW T, Awaits(<<>>, F, T) PROVE T = F
<1>1. \A num : <<>> # <<RunR(num)>> /\ <<>> # <<RunP>> /\ <<>> # <<RunH>> /\ <<>> # AfterDel
  BY ShortSeq DEF AfterDel
<1>. QED BY <1>1 DEF Awaits

EditForms(s, F, T) ==
  \/ \E name : Fit(name) /\ T = F /\ s = AfterAsk(name)
  \/ \E num : T = F /\ s = Ptz!DelPreset(num)
  \/ T = F /\ s = Ptz!SetHome
  \/ T = F \ {0} /\ s = AfterDel

RunForms(s, F, T) ==
  \/ /\ T = F /\ Starts(Tail(s))
     /\ \/ Ptz!Refused(Head(s).args)
        \/ \A j \in DOMAIN Head(s).args : Head(s).args[j].opt \notin PresetOpts
  \/ T = AfterAdd(F) /\ s = <<RunP>>
  \/ \E num : T = F \ Chosen(num) /\ s = <<RunR(num)>>
  \/ T = F \cup {0} /\ s = <<RunH>>

LEMMA AwaitsForms ==
  ASSUME NEW s, NEW F, NEW T, Ptz!IsSeq(s), s # <<>>, Awaits(s, F, T)
  PROVE  \/ Head(s).job = "edit" /\ EditForms(s, F, T)
         \/ Head(s).job = "run" /\ RunForms(s, F, T)
<1>1. CASE T = F /\ Ptz!Spares(s)
  <2>1. Starts(Tail(s)) BY <1>1, SparesTail DEF Starts
  <2>. QED BY <1>1, <2>1, SparesTail DEF RunForms
<1>2. ASSUME T = F, NEW name, Fit(name), s = Ptz!AddPreset(name) PROVE Head(s).job = "run" /\ RunForms(s, F, T)
  <2>1. s = <<Ptz!Ask, Ptz!Edit("add", 0, name), RunP>> BY <1>2 DEF Ptz!AddPreset, Ptz!Called, Ptz!NameGiven, Fit, RunP
  <2>2. Head(s) = Ptz!Ask /\ Tail(s) = AfterAsk(name) BY <2>1, ShortSeq DEF AfterAsk
  <2>3. Starts(Tail(s)) BY <1>2, <2>2 DEF Starts
  <2>4. Ptz!Opt("g", "on").opt \notin PresetOpts BY DEF Ptz!Opt, PresetOpts
  <2>5. \A j \in DOMAIN Head(s).args : Head(s).args[j].opt \notin PresetOpts BY <2>2, <2>4, Jobs, SeqOne
  <2>. QED BY <1>2, <2>2, <2>3, <2>5, Jobs DEF RunForms
<1>3. ASSUME T = F, NEW name, Fit(name), s = AfterAsk(name) PROVE Head(s).job = "edit" /\ EditForms(s, F, T)
  <2>1. Head(s) = Ptz!Edit("add", 0, name) BY <1>3, ShortSeq DEF AfterAsk
  <2>. QED BY <1>3, <2>1, Jobs DEF EditForms
<1>4. ASSUME T = F, NEW num, s = Ptz!DelPreset(num) PROVE Head(s).job = "edit" /\ EditForms(s, F, T)
  <2>1. Head(s) = Ptz!Edit("del", num, <<>>) BY <1>4, ShortSeq DEF Ptz!DelPreset
  <2>. QED BY <1>4, <2>1, Jobs DEF EditForms
<1>5. CASE T = F /\ s = Ptz!SetHome
  <2>1. Head(s) = Ptz!Edit("del", 0, <<>>) BY <1>5, ShortSeq DEF Ptz!SetHome
  <2>. QED BY <1>5, <2>1, Jobs DEF EditForms
<1>6. CASE T = AfterAdd(F) /\ s = <<RunP>>
  <2>1. Head(s) = RunP BY <1>6, ShortSeq
  <2>. QED BY <1>6, <2>1, Jobs DEF RunForms
<1>7. ASSUME NEW num, T = F \ Chosen(num), s = <<RunR(num)>> PROVE Head(s).job = "run" /\ RunForms(s, F, T)
  <2>1. Head(s) = RunR(num) BY <1>7, ShortSeq
  <2>. QED BY <1>7, <2>1, Jobs DEF RunForms
<1>8. CASE T = F \ {0} /\ s = AfterDel
  <2>1. Head(s) = Ptz!Edit("home", 0, <<"Home">>) BY <1>8, ShortSeq DEF AfterDel
  <2>. QED BY <1>8, <2>1, Jobs DEF EditForms
<1>9. CASE T = F \cup {0} /\ s = <<RunH>>
  <2>1. Head(s) = RunH BY <1>9, ShortSeq
  <2>. QED BY <1>9, <2>1, Jobs DEF RunForms
<1>. QED BY <1>1, <1>2, <1>3, <1>4, <1>5, <1>6, <1>7, <1>8, <1>9 DEF Awaits, Starts

-----------------------------------------------------------------------------
(* A file that is settled, that is about to be written, and is written.    *)
LEMMA SettledPending == ASSUME NEW f, NEW s, NEW F, Settled(f, s, F) PROVE Pending(f, s, F)
<1> DEFINE k == TopPreset + 1
<1>1. k \in 0 .. TopPreset + 1 BY Lines
<1>2. s = Writing(f, k) \o s BY WritingNone, CatNone DEF Settled
<1>3. \A i \in 0 .. k - 1 : f[i] = f[i] OBVIOUS
<1>. HIDE DEF k
<1>. QED BY <1>1, <1>2, <1>3 DEF Pending

LEMMA PendingWrites ==
  ASSUME NEW f, NEW table, NEW r, NEW F, Settled(table, r, F) PROVE Pending(f, Ptz!WriteJobs(table) \o r, F)
<1>1. 0 \in 0 .. TopPreset + 1 BY Lines
<1>2. \A i \in 0 .. 0 - 1 : f[i] = table[i] BY Lines
<1>3. Ptz!WriteJobs(table) \o r = Writing(table, 0) \o r BY WritingAll
<1>. QED BY <1>1, <1>2, <1>3 DEF Pending

LEMMA PendingSettled ==
  ASSUME NEW f, NEW s, NEW F, Pending(f, s, F), s = <<>> \/ Head(s).job # "write" PROVE Settled(f, s, F)
<1>1. PICK k \in 0 .. TopPreset + 1 : \E table, r :
         /\ s = Writing(table, k) \o r /\ \A i \in 0 .. k - 1 : f[i] = table[i]
         /\ Settled(table, r, F)
  BY DEF Pending
<1>2. PICK table, r : /\ s = Writing(table, k) \o r /\ \A i \in 0 .. k - 1 : f[i] = table[i]
                      /\ Settled(table, r, F)
  BY <1>1
<1>3. Ptz!IsSeq(r) BY <1>2 DEF Settled
<1>4. k = TopPreset + 1
  <2>1. ASSUME k \in 0 .. TopPreset PROVE FALSE
    <3>1. s # <<>> /\ Head(s) = [job |-> "write", slot |-> k, name |-> table[k]] BY <1>2, <1>3, <2>1, WritingStep
    <3>. QED BY <3>1
  <2>. QED BY <2>1, Lines
<1>5. s = r BY <1>2, <1>3, <1>4, WritingNone, CatNone
<1>6. \A i \in Ptz!Slot : f[i] = table[i]
  <2>1. Ptz!Slot = 0 .. k - 1 BY <1>4, Lines
  <2>. QED BY <1>2, <2>1
<1>7. Taken(f) = Taken(table) BY <1>6 DEF Taken
<1>8. Proper(f) BY <1>2, <1>6 DEF Settled, Proper
<1>. QED BY <1>2, <1>5, <1>7, <1>8 DEF Settled

LEMMA PendingWrite ==
  ASSUME NEW f, NEW s, NEW F, Pending(f, s, F), s # <<>>, NEW job, job = Head(s), job.job = "write",
         NEW g, g = [t \in Ptz!Slot |-> IF t = job.slot THEN job.name ELSE IF job.slot = 0 THEN <<"absent">> ELSE f[t]]
  PROVE  Pending(g, Tail(s), F)
<1>1. PICK k \in 0 .. TopPreset + 1 : \E table, r :
         /\ s = Writing(table, k) \o r /\ \A i \in 0 .. k - 1 : f[i] = table[i]
         /\ Settled(table, r, F)
  BY DEF Pending
<1>2. PICK table, r : /\ s = Writing(table, k) \o r /\ \A i \in 0 .. k - 1 : f[i] = table[i]
                      /\ Settled(table, r, F)
  BY <1>1
<1>3. Ptz!IsSeq(r) /\ Awaits(r, F, Taken(table)) BY <1>2 DEF Settled
<1>4. k # TopPreset + 1
  <2>1. ASSUME k = TopPreset + 1 PROVE FALSE
    <3>1. s = r BY <1>2, <1>3, <2>1, WritingNone, CatNone
    <3>. QED BY <1>3, <3>1, AwaitsForms
  <2>. QED BY <2>1
<1>5. k \in 0 .. TopPreset /\ k + 1 \in 0 .. TopPreset + 1 /\ k \in Ptz!Slot /\ (k + 1) - 1 = k BY <1>4, Lines
<1>6. job = [job |-> "write", slot |-> k, name |-> table[k]] /\ Tail(s) = Writing(table, k + 1) \o r
  BY <1>2, <1>3, <1>5, WritingStep
<1>7. job.slot = k /\ job.name = table[k] BY <1>6
<1>8. ASSUME NEW i \in 0 .. k PROVE g[i] = table[i]
  <2>1. i \in Ptz!Slot BY <1>5, Lines
  <2>2. CASE i = k BY <1>7, <2>1, <2>2
  <2>3. CASE i # k
    <3>1. i \in 0 .. k - 1 /\ k # 0 BY <1>5, <2>3
    <3>. QED BY <1>2, <1>7, <2>1, <2>3, <3>1
  <2>. QED BY <2>2, <2>3
<1>9. \A i \in 0 .. (k + 1) - 1 : g[i] = table[i] BY <1>5, <1>8
<1>. QED BY <1>2, <1>5, <1>6, <1>9 DEF Pending

-----------------------------------------------------------------------------
(* What an edit makes of a file that is settled.                           *)
LEMMA Names ==
  /\ <<>> # <<"absent">> /\ <<>> # <<"Home">> /\ <<"Home">> # <<"absent">>
  /\ \A s : <<"old", s>> # <<"absent">> /\ <<"old", s>> # <<"Home">> /\ <<"old", s>> # <<>>
  OBVIOUS

First(s) == s \in Ptz!FirstAvail /\ \A f \in Ptz!FirstAvail : s <= f

LEMMA EditedTable ==
  ASSUME Proper(p_file), NEW kind, NEW num, NEW name, NEW s \in Ptz!Slot
  PROVE  /\ kind = "del" => Ptz!Edited(kind, num, name)[s] = IF num \in {s, Ptz!All} THEN name ELSE p_file[s]
         /\ kind \in {"add", "home"} => Ptz!Edited(kind, num, name)[s] = IF First(s) THEN name ELSE p_file[s]
<1>1. Ptz!Kept(s) = p_file[s] BY DEF Ptz!Kept, Proper
<1>2. CASE kind = "del" BY <1>1, <1>2 DEF Ptz!Edited
<1>3. CASE kind \in {"add", "home"} BY <1>1, <1>3 DEF Ptz!Edited, First
<1>. QED BY <1>2, <1>3

LEMMA EditDel ==
  ASSUME Proper(p_file), NEW num
  PROVE  LET t == Ptz!Edited("del", num, <<>>) IN Proper(t) /\ Taken(t) = Taken(p_file) \ Chosen(num)
<1> DEFINE t == Ptz!Edited("del", num, <<>>)
<1>1. \A s \in Ptz!Slot : t[s] = IF num \in {s, Ptz!All} THEN <<>> ELSE p_file[s] BY EditedTable
<1>. HIDE DEF t
<1>2. Proper(t) BY <1>1, Names DEF Proper
<1>3. Taken(t) = Taken(p_file) \ Chosen(num) BY <1>1 DEF Taken, Chosen
<1>. QED BY <1>2, <1>3 DEF t

LEMMA EditAdd ==
  ASSUME Proper(p_file), NEW kind \in {"add", "home"}, NEW num, NEW name, name \notin {<<>>, <<"absent">>},
         name = <<"Home">> => \A s : First(s) => s = 0
  PROVE  LET t == Ptz!Edited(kind, num, name) IN Proper(t) /\ Taken(t) = AfterAdd(Taken(p_file))
<1> DEFINE t == Ptz!Edited(kind, num, name)
<1>1. \A s \in Ptz!Slot : t[s] = IF First(s) THEN name ELSE p_file[s] BY EditedTable
<1>. HIDE DEF t
<1>2. Proper(t) BY <1>1 DEF Proper
<1>3. Ptz!FirstAvail = Ptz!Slot \ Taken(p_file) BY DEF Ptz!FirstAvail, Taken
<1>4. Taken(t) = Taken(p_file) \cup {s \in Ptz!Slot : First(s)} BY <1>1 DEF Taken
<1>5. {s \in Ptz!Slot : First(s)} = {s \in Ptz!Slot \ Taken(p_file) : \A f \in Ptz!Slot \ Taken(p_file) : s <= f}
  BY <1>3 DEF First
<1>6. Taken(t) = AfterAdd(Taken(p_file)) BY <1>4, <1>5 DEF AfterAdd
<1>. QED BY <1>2, <1>6 DEF t

(* Slot 0 free is the first free one, and it is where Home goes.           *)
LEMMA ZeroFirst ==
  ASSUME 0 \notin Taken(p_file)
  PROVE  0 \in Ptz!FirstAvail /\ \A s : First(s) => s = 0
<1>1. 0 \in Ptz!Slot /\ \A s \in Ptz!Slot : s \in Int /\ 0 <= s BY Lines
<1>2. 0 \in Ptz!FirstAvail BY <1>1 DEF Ptz!FirstAvail, Taken
<1>3. ASSUME NEW s, First(s) PROVE s = 0
  <2>1. s \in Ptz!Slot /\ s <= 0 BY <1>2, <1>3 DEF First, Ptz!FirstAvail
  <2>. QED BY <1>1, <2>1
<1>. QED BY <1>2, <1>3

LEMMA ChosenZero == Chosen(0) = {0}
  BY Lines DEF Chosen, Ptz!All

LEMMA AddZero == ASSUME NEW F PROVE AfterAdd(F \ {0}) = F \cup {0}
<1>1. 0 \in Ptz!Slot /\ \A s \in Ptz!Slot : s \in Int /\ 0 <= s /\ (s <= 0 => s = 0) BY Lines
<1>. QED BY <1>1 DEF AfterAdd

AfterEdit(s) ==
  LET job == Head(s)
  IN IF ~Ptz!Rejected(job) THEN Ptz!WriteJobs(Ptz!Edited(job.kind, job.num, job.name)) \o Tail(s)
     ELSE IF job.kind = "home" THEN Tail(s) ELSE <<>>

LEMMA EditAwaits ==
  ASSUME NEW s, NEW F, Settled(p_file, s, F), s # <<>>, Head(s).job = "edit" PROVE Pending(p_file, AfterEdit(s), F)
<1> DEFINE T == Taken(p_file)
           job == Head(s)
<1>1. Proper(p_file) /\ Ptz!IsSeq(s) /\ Awaits(s, F, T) BY DEF Settled
<1>2. EditForms(s, F, T) BY <1>1, AwaitsForms
<1>3. ASSUME NEW kind, NEW num, NEW name, job = Ptz!Edit(kind, num, name), ~Ptz!Rejected(job),
             Ptz!IsSeq(Tail(s)), Proper(Ptz!Edited(kind, num, name)), Awaits(Tail(s), F, Taken(Ptz!Edited(kind, num, name)))
      PROVE  Pending(p_file, AfterEdit(s), F)
  <2>1. job.kind = kind /\ job.num = num /\ job.name = name BY <1>3, Jobs
  <2> DEFINE t == Ptz!Edited(kind, num, name)
  <2>2. AfterEdit(s) = Ptz!WriteJobs(t) \o Tail(s) BY <1>3, <2>1 DEF AfterEdit
  <2>3. Settled(t, Tail(s), F) BY <1>3 DEF Settled
  <2>. HIDE DEF t
  <2>. QED BY <2>2, <2>3, PendingWrites
<1>4. ASSUME NEW name, Fit(name), T = F, s = AfterAsk(name) PROVE Pending(p_file, AfterEdit(s), F)
  <2>1. Head(s) = Ptz!Edit("add", 0, name) /\ Tail(s) = <<RunP>> /\ Ptz!IsSeq(<<RunP>>) BY <1>4, ShortSeq DEF AfterAsk
  <2>2. CASE Ptz!Rejected(Head(s))
    <3>1. AfterEdit(s) = <<>> BY <2>1, <2>2, Jobs DEF AfterEdit
    <3>2. Awaits(<<>>, F, T) BY <1>4, StartsNone DEF Awaits
    <3>3. Settled(p_file, <<>>, F) BY <1>1, <3>2, SeqNone DEF Settled
    <3>. QED BY <3>1, <3>3, SettledPending
  <2>3. CASE ~Ptz!Rejected(Head(s))
    <3> DEFINE t == Ptz!Edited("add", 0, name)
    <3>1. Proper(t) /\ Taken(t) = AfterAdd(T) BY <1>1, <1>4, EditAdd DEF Fit
    <3>. HIDE DEF t
    <3>2. Awaits(<<RunP>>, F, Taken(t)) BY <1>4, <3>1 DEF Awaits
    <3>. QED BY <1>3, <2>1, <2>3, <3>1, <3>2 DEF t
  <2>. QED BY <2>2, <2>3
<1>5. ASSUME NEW num, NEW r, Ptz!IsSeq(r), s # <<>>, Head(s) = Ptz!Edit("del", num, <<>>), Tail(s) = r,
             Awaits(r, F, T \ Chosen(num))
      PROVE  Pending(p_file, AfterEdit(s), F)
  <2> DEFINE t == Ptz!Edited("del", num, <<>>)
  <2>1. Proper(t) /\ Taken(t) = T \ Chosen(num) BY <1>1, EditDel
  <2>. HIDE DEF t
  <2>2. ~Ptz!Rejected(Head(s))
    <3>1. Head(s).kind = "del" BY <1>5, Jobs
    <3>. QED BY <3>1 DEF Ptz!Rejected
  <2>. QED BY <1>3, <1>5, <2>1, <2>2 DEF t
<1>6. ASSUME NEW num, T = F, s = Ptz!DelPreset(num) PROVE Pending(p_file, AfterEdit(s), F)
  <2>1. Head(s) = Ptz!Edit("del", num, <<>>) /\ Tail(s) = <<RunR(num)>> /\ Ptz!IsSeq(<<RunR(num)>>)
    BY <1>6, ShortSeq DEF Ptz!DelPreset, RunR
  <2>2. Awaits(<<RunR(num)>>, F, T \ Chosen(num)) BY <1>6 DEF Awaits
  <2>. QED BY <1>5, <2>1, <2>2
<1>7. CASE T = F /\ s = Ptz!SetHome
  <2>1. Head(s) = Ptz!Edit("del", 0, <<>>) /\ Tail(s) = AfterDel /\ Ptz!IsSeq(AfterDel)
    <3> DEFINE a == Ptz!Edit("del", 0, <<>>)
               b == Ptz!Edit("home", 0, <<"Home">>)
    <3>1. s = <<a, b, RunH>> /\ AfterDel = <<b, RunH>> BY <1>7 DEF Ptz!SetHome, RunH, AfterDel
    <3>. HIDE DEF a, b
    <3>2. Head(<<a, b, RunH>>) = a /\ Tail(<<a, b, RunH>>) = <<b, RunH>> /\ Ptz!IsSeq(<<b, RunH>>)
      <4>1. \A c : Head(<<a, b, c>>) = a /\ Tail(<<a, b, c>>) = <<b, c>> OBVIOUS
      <4>2. \A c : Ptz!IsSeq(<<b, c>>) BY ShortSeq
      <4>. QED BY <4>1, <4>2
    <3>3. Head(s) = a /\ Tail(s) = AfterDel /\ Ptz!IsSeq(AfterDel) BY <3>1, <3>2, Zenon
    <3>. QED BY <3>3 DEF a
  <2>2. Awaits(AfterDel, F, T \ Chosen(0)) BY <1>7, ChosenZero DEF Awaits
  <2>. QED BY <1>5, <2>1, <2>2
<1>8. CASE T = F \ {0} /\ s = AfterDel
  <2> DEFINE home == <<"Home">>
             t == Ptz!Edited("home", 0, home)
  <2>1. Head(s) = Ptz!Edit("home", 0, home) /\ Tail(s) = <<RunH>> /\ Ptz!IsSeq(<<RunH>>) BY <1>8, ShortSeq DEF AfterDel
  <2>2. 0 \in Ptz!FirstAvail /\ \A q : First(q) => q = 0 BY <1>8, ZeroFirst
  <2>3. Proper(t) /\ Taken(t) = AfterAdd(T) BY <1>1, <2>2, EditAdd, Names
  <2>4. Taken(t) = F \cup {0} BY <1>8, <2>3, AddZero
  <2>5. ~Ptz!Rejected(Head(s))
    <3>1. Head(s).name = home BY <2>1, Jobs
    <3>2. 0 \in Ptz!Slot /\ p_file[0] = <<>> BY <2>2 DEF Ptz!FirstAvail
    <3>3. \A q \in Ptz!Slot : p_file[q] # home BY <1>1, <3>2, Names DEF Proper
    <3>. QED BY <2>2, <3>1, <3>3 DEF Ptz!Rejected
  <2>6. Awaits(<<RunH>>, F, Taken(t)) BY <2>4 DEF Awaits
  <2>. HIDE DEF t
  <2>. QED BY <1>3, <2>1, <2>3, <2>5, <2>6 DEF t
<1>. QED BY <1>2, <1>4, <1>6, <1>7, <1>8 DEF EditForms

-----------------------------------------------------------------------------
(* What the camera has stored and what the queue, the run and the script   *)
(* have yet to do give the table of the file.                              *)
Stored == {s \in Ptz!Slot : p_presets[s] # None}

Doing(f, r, s, G) ==
  IF r.on
  THEN \/ Mild(r.todo) /\ Pending(f, Tail(s), G)
       \/ NoFork(r.todo) /\ \E F : Steps(G, r.todo, F) /\ Pending(f, Tail(s), F)
  ELSE Pending(f, s, G)

Unrivalled(u) == \A w \in Caller : w # u => p_script[w] = <<>>
Busy(u, G) == Doing(p_file, p_run[Ptz!Fore(u)], p_script[u], G)
Table(G) ==
  \/ (\A w \in Caller : p_script[w] = <<>>) /\ Pending(p_file, <<>>, G)
  \/ \E u \in Caller : Unrivalled(u) /\ Busy(u, G)

MildTimers == \A u \in Caller : p_run[Ptz!Timer(u)].on => Mild(p_run[Ptz!Timer(u)].todo)
Agreeing == ~p_apart => MildTimers /\ \E G : Leads(Stored, p_queue, G) /\ Table(G)

LEMMA TableEmpty ==
  ASSUME Shape, NEW G, Table(G), \A w \in Caller : p_script[w] = <<>> PROVE Pending(p_file, <<>>, G)
<1>1. ASSUME NEW u \in Caller, Busy(u, G) PROVE Pending(p_file, <<>>, G)
  <2>1. ~p_run[Ptz!Fore(u)].on BY DEF Shape, RunsShape, ForeOk
  <2>. QED BY <1>1, <2>1 DEF Busy, Doing
<1>. QED BY <1>1 DEF Table

LEMMA TableOf ==
  ASSUME NEW G, Table(G), NEW u \in Caller, p_script[u] # <<>> PROVE Unrivalled(u) /\ Busy(u, G)
  BY DEF Table, Unrivalled

LEMMA SameTable ==
  ASSUME NEW G, Table(G), UNCHANGED <<p_script, p_file>>, \A w \in Caller : p_run'[Ptz!Fore(w)] = p_run[Ptz!Fore(w)]
  PROVE  Table(G)'
<1>1. CASE (\A w \in Caller : p_script[w] = <<>>) /\ Pending(p_file, <<>>, G) BY <1>1 DEF Table
<1>2. ASSUME NEW u \in Caller, Unrivalled(u), Busy(u, G) PROVE Table(G)'
  <2>1. Unrivalled(u)' BY <1>2 DEF Unrivalled
  <2>2. Busy(u, G)' BY <1>2 DEF Busy
  <2>. QED BY <2>1, <2>2 DEF Table
<1>. QED BY <1>1, <1>2 DEF Table

(* A step of the only caller at work.                                      *)
LEMMA AloneAgrees ==
  ASSUME NEW u \in Caller, Unrivalled(u), \A w \in Caller : w # u => p_script'[w] = p_script[w],
         MildTimers', NEW G, Leads(Stored', p_queue', G), Doing(p_file', p_run'[Ptz!Fore(u)], p_script'[u], G)
  PROVE  Agreeing'
<1>1. Unrivalled(u)' BY DEF Unrivalled
<1>2. Table(G)' BY <1>1 DEF Table, Busy
<1>. QED BY <1>2 DEF Agreeing

-----------------------------------------------------------------------------
(* A script begins.                                                        *)
LEMMA BeginStarts ==
  ASSUME NEW op \in Ops, op # Ptz!AddPreset(<<>>),
         ~\E i \in DOMAIN op : /\ op[i].job = "edit"
                               /\ \/ op[i].kind = "edit"
                                  \/ op[i].kind = "add" /\ op[i].name = <<"Home">>
  PROVE  Starts(op)
<1>1. Ptz!PresetScript(op) BY PresetsAssumption
<1>2. CASE Ptz!Spares(op) BY <1>2 DEF Starts
<1>3. CASE Len(op) = 2 /\ op[1].job = "edit" /\ op = Ptz!DelPreset(op[1].num) BY <1>3 DEF Starts
<1>4. CASE Len(op) = 3 /\ Ptz!Named(op[2]) /\ op = Ptz!AddPreset(op[2].name)
  <2> DEFINE name == op[2].name
             job == Ptz!Edit("add", 0, name)
  <2>1. op = <<Ptz!Ask, job, RunP>> BY <1>4 DEF Ptz!AddPreset, Ptz!Called, Ptz!NameGiven, RunP, Ptz!Named
  <2>. HIDE DEF name, job
  <2>2. 2 \in DOMAIN op /\ op[2] = job BY <2>1
  <2>3. op[2].job = "edit" /\ op[2].kind = "add" BY <2>2, Jobs DEF job
  <2>4. name # <<"Home">> BY <2>2, <2>3 DEF name
  <2>5. name \notin {<<>>, <<"absent">>} BY <1>4 DEF Ptz!Named, name
  <2>6. Fit(name) BY <2>4, <2>5 DEF Fit
  <2>. QED BY <1>4, <2>6 DEF Starts, name
<1>5. ASSUME NEW num, NEW name, op = Ptz!SetPreset(num, name) PROVE FALSE
  <2> DEFINE job == Ptz!Edit("edit", num, Ptz!Called(name))
             last == Ptz!Run(Ptz!NameGiven(name))
  <2>1. op = <<Ptz!Ask, job, last>> BY <1>5 DEF Ptz!SetPreset
  <2>. HIDE DEF job, last
  <2>2. 2 \in DOMAIN op /\ op[2] = job BY <2>1
  <2>3. op[2].job = "edit" /\ op[2].kind = "edit" BY <2>2, Jobs DEF job
  <2>. QED BY <2>2, <2>3
<1>6. CASE op = Ptz!SetHome BY <1>6 DEF Starts
<1>. QED BY <1>1, <1>2, <1>3, <1>4, <1>5, <1>6 DEF Ptz!PresetScript

LEMMA BeginAgrees ==
  ASSUME JumpInv, Agreeing, NEW u \in Caller, NEW op \in Ops, Ptz!Begin(u, op) PROVE Agreeing'
<1> SUFFICES ASSUME ~p_apart' PROVE Agreeing' BY DEF Agreeing
<1>1. /\ ~p_apart /\ (\A w \in Caller : p_script[w] = <<>>) /\ op # Ptz!AddPreset(<<>>)
      /\ ~\E i \in DOMAIN op : /\ op[i].job = "edit"
                               /\ \/ op[i].kind = "edit"
                                  \/ op[i].kind = "add" /\ op[i].name = <<"Home">>
      /\ p_script' = [p_script EXCEPT ![u] = op] /\ UNCHANGED <<p_run, p_queue, p_file, p_presets>>
  BY DEF Ptz!Begin, Ptz!camera
<1>2. Shape /\ MildTimers BY <1>1 DEF JumpInv, Agreeing
<1>3. PICK G : Leads(Stored, p_queue, G) /\ Table(G) BY <1>1 DEF Agreeing
<1>4. p_script'[u] = op /\ \A w \in Caller : w # u => p_script'[w] = p_script[w]
  BY <1>1, <1>2 DEF Shape, ScriptsShape
<1>5. ~p_run[Ptz!Fore(u)].on BY <1>1, <1>2 DEF Shape, RunsShape, ForeOk
<1>6. Pending(p_file, <<>>, G) BY <1>1, <1>2, <1>3, TableEmpty
<1>7. Settled(p_file, <<>>, G) BY <1>6, PendingSettled
<1>8. Taken(p_file) = G BY <1>7, AwaitsNothing DEF Settled
<1>9. Starts(op) BY <1>1, BeginStarts
<1>10. Ptz!IsSeq(op) BY ScriptsAssumption DEF Ptz!CallerConstants, Ptz!IsScript
<1>11. Settled(p_file, op, G) BY <1>7, <1>8, <1>9, <1>10 DEF Settled, Awaits
<1>12. Pending(p_file, op, G) BY <1>11, SettledPending
<1>13. Doing(p_file', p_run'[Ptz!Fore(u)], p_script'[u], G) BY <1>1, <1>4, <1>5, <1>12 DEF Doing
<1>14. Leads(Stored', p_queue', G) BY <1>1, <1>3 DEF Stored
<1>15. MildTimers' BY <1>1, <1>2 DEF MildTimers
<1>16. Unrivalled(u) BY <1>1 DEF Unrivalled
<1>. QED BY <1>4, <1>13, <1>14, <1>15, <1>16, AloneAgrees

(* The file is edited, and written.                                        *)
LEMMA EditAgrees == ASSUME JumpInv, Agreeing, NEW u \in Caller, Ptz!EditPreset(u) PROVE Agreeing'
<1> SUFFICES ASSUME ~p_apart' PROVE Agreeing' BY DEF Agreeing
<1> DEFINE s == p_script[u]
<1>1. /\ s # <<>> /\ Head(s).job = "edit" /\ ~p_apart
      /\ p_script' = [p_script EXCEPT ![u] = AfterEdit(s)] /\ UNCHANGED <<p_run, p_queue, p_file, p_presets>>
  BY DEF Ptz!EditPreset, AfterEdit, Ptz!camera
<1>2. Shape /\ MildTimers BY <1>1 DEF JumpInv, Agreeing
<1>3. PICK G : Leads(Stored, p_queue, G) /\ Table(G) BY <1>1 DEF Agreeing
<1>4. p_script'[u] = AfterEdit(s) /\ \A w \in Caller : w # u => p_script'[w] = p_script[w]
  BY <1>1, <1>2 DEF Shape, ScriptsShape
<1>5. ~p_run[Ptz!Fore(u)].on BY <1>1, <1>2 DEF Shape, RunsShape, ForeOk
<1>6. Unrivalled(u) /\ Pending(p_file, s, G) BY <1>1, <1>3, <1>5, TableOf DEF Busy, Doing
<1>. HIDE DEF s
<1>7. Settled(p_file, s, G) BY <1>1, <1>6, PendingSettled
<1>8. Pending(p_file, AfterEdit(s), G) BY <1>1, <1>7, EditAwaits
<1>9. Doing(p_file', p_run'[Ptz!Fore(u)], p_script'[u], G) BY <1>1, <1>4, <1>5, <1>8 DEF Doing
<1>10. Leads(Stored', p_queue', G) BY <1>1, <1>3 DEF Stored
<1>11. MildTimers' BY <1>1, <1>2 DEF MildTimers
<1>. QED BY <1>4, <1>6, <1>9, <1>10, <1>11, AloneAgrees

LEMMA WriteAgrees == ASSUME JumpInv, Agreeing, NEW u \in Caller, Ptz!WriteLine(u) PROVE Agreeing'
<1> SUFFICES ASSUME ~p_apart' PROVE Agreeing' BY DEF Agreeing
<1> DEFINE s == p_script[u]
           job == Head(s)
<1>1. /\ s # <<>> /\ job.job = "write" /\ ~p_apart
      /\ p_script' = [p_script EXCEPT ![u] = Tail(s)] /\ UNCHANGED <<p_run, p_queue, p_presets>>
      /\ p_file' = [t \in Ptz!Slot |-> IF t = job.slot THEN job.name ELSE IF job.slot = 0 THEN <<"absent">> ELSE p_file[t]]
  BY DEF Ptz!WriteLine, Ptz!camera
<1>2. Shape /\ MildTimers BY <1>1 DEF JumpInv, Agreeing
<1>3. PICK G : Leads(Stored, p_queue, G) /\ Table(G) BY <1>1 DEF Agreeing
<1>4. p_script'[u] = Tail(s) /\ \A w \in Caller : w # u => p_script'[w] = p_script[w]
  BY <1>1, <1>2 DEF Shape, ScriptsShape
<1>5. ~p_run[Ptz!Fore(u)].on BY <1>1, <1>2 DEF Shape, RunsShape, ForeOk
<1>6. Unrivalled(u) /\ Pending(p_file, s, G) BY <1>1, <1>3, <1>5, TableOf DEF Busy, Doing
<1>. HIDE DEF s
<1>7. Pending(p_file', Tail(s), G) BY <1>1, <1>6, PendingWrite
<1>8. Doing(p_file', p_run'[Ptz!Fore(u)], p_script'[u], G) BY <1>1, <1>4, <1>5, <1>7 DEF Doing
<1>9. Leads(Stored', p_queue', G) BY <1>1, <1>3 DEF Stored
<1>10. MildTimers' BY <1>1, <1>2 DEF MildTimers
<1>. QED BY <1>4, <1>6, <1>8, <1>9, <1>10, AloneAgrees

(* A command begins.                                                       *)
LEMMA PresetArgs ==
  /\ ~Ptz!Refused(RunP.args) /\ ~Ptz!Refused(RunH.args)
  /\ \A num : Ptz!Refused(RunR(num).args) <=> num \notin Ptz!Slot \cup {Ptz!All}
<1>1. Ptz!Takes("P", "name") /\ Ptz!Takes("H", "on") BY DEF Ptz!Takes, Ptz!SettingOptions
<1>2. \A num : Ptz!Takes("R", num) <=> num \in Ptz!Slot \cup {Ptz!All} BY DEF Ptz!Takes, Ptz!SettingOptions, Ptz!NumberTakes
<1>3. ASSUME NEW o, NEW w PROVE Ptz!Refused(<<Ptz!Opt(o, w)>>) <=> ~Ptz!Takes(o, w)
  <2> DEFINE a == Ptz!Opt(o, w)
  <2>1. a.opt = o /\ a.word = w BY DEF Ptz!Opt
  <2>. HIDE DEF a
  <2>2. Ptz!Refused(<<a>>) <=> ~Ptz!Takes(o, w) BY <2>1, SeqOne DEF Ptz!Refused
  <2>. QED BY <2>2 DEF a
<1>. QED BY <1>1, <1>2, <1>3, Jobs

(* What follows a run whose options are refused, and one that is begun.    *)
LEMMA RunAwaits ==
  ASSUME NEW f, NEW s, NEW G, Settled(f, s, G), s # <<>>, Head(s).job = "run", NEW args, args = Head(s).args
  PROVE  /\ Ptz!Refused(args) => Pending(f, Tail(s), G)
         /\ ~Ptz!Refused(args) => \/ Mild(Ptz!Plan(Ptz!Parse(args), p_model)) /\ Pending(f, Tail(s), G)
                              \/ /\ NoFork(Ptz!Plan(Ptz!Parse(args), p_model))
                                 /\ \E F : Steps(G, Ptz!Plan(Ptz!Parse(args), p_model), F) /\ Pending(f, Tail(s), F)
<1> DEFINE T == Taken(f)
           t == Ptz!Plan(Ptz!Parse(args), p_model)
<1>1. Proper(f) /\ Ptz!IsSeq(s) /\ Awaits(s, G, T) BY DEF Settled
<1>2. RunForms(s, G, T) BY <1>1, AwaitsForms
<1>3. Ptz!IsSeq(Tail(s)) BY <1>1, SeqTail
<1>4. CASE /\ T = G /\ Starts(Tail(s))
           /\ Ptz!Refused(args) \/ \A j \in DOMAIN args : args[j].opt \notin PresetOpts
  <2>1. Settled(f, Tail(s), G) BY <1>1, <1>3, <1>4 DEF Settled, Awaits
  <2>2. Pending(f, Tail(s), G) BY <2>1, SettledPending
  <2>3. ~Ptz!Refused(args) => Mild(t) BY <1>4, ParseMild
  <2>. QED BY <2>2, <2>3
<1>5. Pending(f, <<>>, T)
  <2>1. Settled(f, <<>>, T) BY <1>1, StartsNone, SeqNone DEF Settled, Awaits
  <2>. QED BY <2>1, SettledPending
<1>6. CASE T = AfterAdd(G) /\ s = <<RunP>>
  <2>1. args = <<Ptz!Opt("P", "name")>> /\ Tail(s) = <<>> BY <1>6, ShortSeq, Jobs
  <2>2. NoFork(t) /\ Steps(G, t, T) BY <1>6, <2>1, PresetRuns
  <2>3. ~Ptz!Refused(args) BY <1>6, ShortSeq, PresetArgs
  <2>. QED BY <1>5, <2>1, <2>2, <2>3
<1>7. CASE T = G \cup {0} /\ s = <<RunH>>
  <2>1. args = <<Ptz!Opt("H", "on")>> /\ Tail(s) = <<>> BY <1>7, ShortSeq, Jobs
  <2>2. NoFork(t) /\ Steps(G, t, T) BY <1>7, <2>1, PresetRuns
  <2>3. ~Ptz!Refused(args) BY <1>7, ShortSeq, PresetArgs
  <2>. QED BY <1>5, <2>1, <2>2, <2>3
<1>8. ASSUME NEW num, T = G \ Chosen(num), s = <<RunR(num)>>
      PROVE  /\ Ptz!Refused(args) => Pending(f, Tail(s), G)
             /\ ~Ptz!Refused(args) => NoFork(t) /\ Steps(G, t, T) /\ Pending(f, Tail(s), T)
  <2>1. args = <<Ptz!Opt("R", num)>> /\ Tail(s) = <<>> BY <1>8, ShortSeq, Jobs
  <2>2. Ptz!Refused(args) <=> num \notin Ptz!Slot \cup {Ptz!All} BY <1>8, ShortSeq, PresetArgs
  <2>3. Ptz!Refused(args) => T = G BY <1>8, <2>2 DEF Chosen
  <2>4. ASSUME ~Ptz!Refused(args) PROVE NoFork(t) /\ Steps(G, t, T)
    <3>1. num \in Ptz!Slot \cup {Ptz!All} BY <2>2, <2>4
    <3>2. t = Ptz!Plan(Ptz!Parse(<<Ptz!Opt("R", num)>>), p_model) BY <2>1
    <3>3. NoFork(Ptz!Plan(Ptz!Parse(<<Ptz!Opt("R", num)>>), p_model)) BY <3>1, PresetRuns
    <3>4. Steps(G, Ptz!Plan(Ptz!Parse(<<Ptz!Opt("R", num)>>), p_model), G \ Chosen(num)) BY <3>1, PresetRuns
    <3>. HIDE DEF t
    <3>. QED BY <1>8, <3>2, <3>3, <3>4
  <2>. QED BY <1>5, <2>1, <2>3, <2>4
<1>. QED BY <1>2, <1>4, <1>6, <1>7, <1>8 DEF RunForms

LEMMA OpenAgrees == ASSUME JumpInv, Agreeing, NEW u \in Caller, Ptz!Open(u) PROVE Agreeing'
<1> SUFFICES ASSUME ~p_apart' PROVE Agreeing' BY DEF Agreeing
<1> DEFINE s == p_script[u]
           args == Head(s).args
           r == [on |-> TRUE, v |-> Ptz!Parse(args), todo |-> Ptz!Plan(Ptz!Parse(args), p_model), cur |-> None]
<1>1. /\ s # <<>> /\ Head(s).job = "run" /\ ~p_run[Ptz!Fore(u)].on /\ UNCHANGED <<p_presets, p_file>>
      /\ \/ /\ Ptz!Refused(args) /\ p_script' = [p_script EXCEPT ![u] = Tail(s)] /\ UNCHANGED <<p_run, p_queue, p_apart>>
         \/ ~Ptz!Refused(args) /\ p_run' = [p_run EXCEPT ![Ptz!Fore(u)] = r] /\ UNCHANGED <<p_script, p_queue, p_apart>>
  BY DEF Ptz!Open, Ptz!Failed, Ptz!camera
<1>2. Shape /\ MildTimers /\ ~p_apart BY <1>1 DEF JumpInv, Agreeing
<1>3. PICK G : Leads(Stored, p_queue, G) /\ Table(G) BY <1>1, <1>2 DEF Agreeing
<1>4. Unrivalled(u) /\ Pending(p_file, s, G) BY <1>1, <1>3, TableOf DEF Busy, Doing
<1>5. Settled(p_file, s, G) BY <1>1, <1>4, PendingSettled
<1>6. Leads(Stored', p_queue', G) BY <1>1, <1>3 DEF Stored
<1>7. CASE Ptz!Refused(args) /\ p_script' = [p_script EXCEPT ![u] = Tail(s)] /\ UNCHANGED <<p_run, p_queue, p_apart>>
  <2>1. p_script'[u] = Tail(s) /\ \A w \in Caller : w # u => p_script'[w] = p_script[w]
    BY <1>2, <1>7 DEF Shape, ScriptsShape
  <2>2. Pending(p_file, Tail(s), G) BY <1>1, <1>5, <1>7, RunAwaits
  <2>3. Doing(p_file', p_run'[Ptz!Fore(u)], p_script'[u], G) BY <1>1, <1>7, <2>1, <2>2 DEF Doing
  <2>4. MildTimers' BY <1>2, <1>7 DEF MildTimers
  <2>. QED BY <1>4, <1>6, <2>1, <2>3, <2>4, AloneAgrees
<1>8. CASE ~Ptz!Refused(args) /\ p_run' = [p_run EXCEPT ![Ptz!Fore(u)] = r] /\ UNCHANGED <<p_script, p_queue, p_apart>>
  <2>1. \A w \in Caller : Ptz!Timer(w) \in Ptz!Proc /\ Ptz!Timer(w) # Ptz!Fore(u) /\ Ptz!Fore(u) \in Ptz!Proc BY Procs
  <2>2. p_run = [q \in Ptz!Proc |-> p_run[q]] BY <1>2 DEF Shape, RunsShape
  <2>3. p_run'[Ptz!Fore(u)] = r /\ \A w \in Caller : p_run'[Ptz!Timer(w)] = p_run[Ptz!Timer(w)] BY <1>8, <2>1, <2>2
  <2>4. r.on /\ r.todo = Ptz!Plan(Ptz!Parse(args), p_model) OBVIOUS
  <2>5. \/ Mild(Ptz!Plan(Ptz!Parse(args), p_model)) /\ Pending(p_file, Tail(s), G)
        \/ /\ NoFork(Ptz!Plan(Ptz!Parse(args), p_model))
           /\ \E F : Steps(G, Ptz!Plan(Ptz!Parse(args), p_model), F) /\ Pending(p_file, Tail(s), F)
    BY <1>1, <1>5, <1>8, RunAwaits
  <2>. HIDE DEF r
  <2>6. Doing(p_file', p_run'[Ptz!Fore(u)], p_script'[u], G) BY <1>1, <1>8, <2>3, <2>4, <2>5 DEF Doing
  <2>7. MildTimers' BY <1>2, <2>3 DEF MildTimers
  <2>. QED BY <1>4, <1>6, <1>8, <2>6, <2>7, AloneAgrees
<1>. QED BY <1>1, <1>7, <1>8

-----------------------------------------------------------------------------
(* A step of a command, that adds what it sends to the queue.              *)
LEMMA MildAfter ==
  ASSUME NEW t, Mild(t), t # <<>>, NEW F PROVE Mild(Tail(t)) /\ AfterStep(F, Head(t)) = F
<1>1. Mild(Tail(t)) /\ (Head(t).do = "send" => Head(t).msg.kind \notin Adding) BY MildTail
<1>. QED BY <1>1 DEF AfterStep, After, Adding

LEMMA AdvanceAgrees ==
  ASSUME JumpInv, Agreeing, NEW u \in Caller, NEW p \in {Ptz!Fore(u), Ptz!Timer(u)}, NEW c,
         p_run[p].on, NEW todo, todo = p_run[p].todo, todo # <<>>,
         p_run' = [p_run EXCEPT ![p] = Advanced(p, c)], UNCHANGED <<p_script, p_file, p_presets, p_apart>>,
         \A F, G : Leads(F, p_queue, G) => Leads(F, p_queue', AfterStep(G, Head(todo)))
  PROVE  Agreeing'
<1> SUFFICES ASSUME ~p_apart PROVE Agreeing' BY DEF Agreeing
<1>1. Shape /\ MildTimers BY DEF JumpInv, Agreeing
<1>2. PICK G : Leads(Stored, p_queue, G) /\ Table(G) BY DEF Agreeing
<1>3. /\ \A w \in Caller : /\ Ptz!Fore(w) \in Ptz!Proc /\ Ptz!Timer(w) \in Ptz!Proc
                          /\ w # u => Ptz!Fore(w) # p /\ Ptz!Timer(w) # p
      /\ p \in Ptz!Proc /\ Ptz!Fore(u) # Ptz!Timer(u)
  BY Procs
<1>4. p_run = [q \in Ptz!Proc |-> p_run[q]] /\ RunOk(p_run[p]) /\ ForeOk(u) BY <1>1, <1>3 DEF Shape, RunsShape
<1>5. p_run'[p] = Advanced(p, c) /\ \A q \in Ptz!Proc : q # p => p_run'[q] = p_run[q] BY <1>3, <1>4
<1>6. Advanced(p, c).on /\ Advanced(p, c).todo = Tail(todo) BY DEF Advanced
<1>7. Stored' = Stored BY DEF Stored
<1>8. CASE p = Ptz!Timer(u)
  <2>1. Mild(todo) BY <1>1, <1>8 DEF MildTimers
  <2>2. Mild(Tail(todo)) /\ AfterStep(G, Head(todo)) = G BY <2>1, MildAfter
  <2>3. Leads(Stored', p_queue', G) BY <1>2, <1>7, <2>2
  <2>4. Table(G)'
    <3>1. \A w \in Caller : Ptz!Fore(w) # p BY <1>8, Procs
    <3>2. \A w \in Caller : p_run'[Ptz!Fore(w)] = p_run[Ptz!Fore(w)] BY <1>3, <1>5, <3>1
    <3>. QED BY <1>2, <3>2, SameTable
  <2>5. MildTimers' BY <1>1, <1>3, <1>5, <1>6, <1>8, <2>2 DEF MildTimers
  <2>6. (Leads(Stored, p_queue, G))' BY <2>3
  <2>. QED BY <2>4, <2>5, <2>6 DEF Agreeing
<1>9. CASE p = Ptz!Fore(u)
  <2> DEFINE H == AfterStep(G, Head(todo))
  <2>1. Leads(Stored', p_queue', H) BY <1>2, <1>7
  <2>2. p_script[u] # <<>> BY <1>4, <1>9 DEF ForeOk
  <2>3. Unrivalled(u) /\ Busy(u, G) BY <1>2, <2>2, TableOf
  <2>4. MildTimers'
    <3>1. \A w \in Caller : Ptz!Timer(w) \in Ptz!Proc /\ Ptz!Timer(w) # p BY <1>9, Procs
    <3>2. \A w \in Caller : p_run'[Ptz!Timer(w)] = p_run[Ptz!Timer(w)] BY <1>5, <3>1
    <3>. QED BY <1>1, <3>2 DEF MildTimers
  <2>5. \/ Mild(todo) /\ Pending(p_file, Tail(p_script[u]), G)
        \/ NoFork(todo) /\ \E F : Steps(G, todo, F) /\ Pending(p_file, Tail(p_script[u]), F)
    BY <1>9, <2>3 DEF Busy, Doing
  <2>6. \/ Mild(Tail(todo)) /\ Pending(p_file, Tail(p_script[u]), H)
        \/ NoFork(Tail(todo)) /\ \E F : Steps(H, Tail(todo), F) /\ Pending(p_file, Tail(p_script[u]), F)
    <3>1. CASE Mild(todo) /\ Pending(p_file, Tail(p_script[u]), G) BY <3>1, MildAfter
    <3>2. ASSUME NoFork(todo), NEW F, Steps(G, todo, F), Pending(p_file, Tail(p_script[u]), F)
          PROVE  NoFork(Tail(todo)) /\ Steps(H, Tail(todo), F)
      <4>1. Ptz!IsSeq(todo) BY <3>2 DEF NoFork
      <4>2. NoFork(Tail(todo)) BY <3>2, <4>1, SeqTail DEF NoFork
      <4>. QED BY <3>2, <4>1, <4>2, StepsTail
    <3>. QED BY <2>5, <3>1, <3>2
  <2>. HIDE DEF H
  <2>7. Doing(p_file', p_run'[Ptz!Fore(u)], p_script'[u], H) BY <1>5, <1>6, <1>9, <2>6 DEF Doing
  <2>. QED BY <2>1, <2>3, <2>4, <2>7, AloneAgrees
<1>. QED BY <1>8, <1>9

LEMMA SendingAgrees ==
  ASSUME JumpInv, Agreeing, NEW p \in Ptz!Proc, Ptz!Sending(p), UNCHANGED <<p_file, p_presets>> PROVE Agreeing'
<1> DEFINE todo == p_run[p].todo
           head == Head(todo)
           c == p_run[p].cur
<1>1. Ptz!IsSeq(p_queue) BY DEF JumpInv, Shape, ScriptsShape
<1>2. PICK u \in Caller : p \in {Ptz!Fore(u), Ptz!Timer(u)} BY Procs
<1>3. ASSUME NEW m, Ptz!At(p, head.do), Ptz!Put(p, m), \A G : After(G, m) = AfterStep(G, head) PROVE Agreeing'
  <2>1. p_run[p].on /\ todo # <<>> BY <1>3 DEF Ptz!At
  <2>2. p_queue' = Append(p_queue, m) /\ p_script' = p_script /\ p_run' = [p_run EXCEPT ![p].todo = Tail(@)]
    BY <1>3 DEF Ptz!Put, Ptz!Done
  <2>3. p_run' = [p_run EXCEPT ![p] = Advanced(p, c)] BY <2>1, <2>2, OneStep
  <2>4. p_apart' = p_apart BY DEF Ptz!Sending
  <2>5. ASSUME NEW F, NEW G, Leads(F, p_queue, G) PROVE Leads(F, p_queue', AfterStep(G, head))
    <3>1. Leads(F, Append(p_queue, m), After(G, m)) BY <1>1, <2>5, LeadsAppend
    <3>. QED BY <1>3, <2>2, <3>1
  <2>. HIDE DEF c
  <2>. QED BY <1>2, <2>1, <2>2, <2>3, <2>4, <2>5, AdvanceAgrees
<1>4. ASSUME NEW m, m.kind \notin Adding, head.do # "send", NEW G PROVE After(G, m) = AfterStep(G, head)
  BY <1>4 DEF After, AfterStep, Adding
<1>5. CASE Ptz!At(p, "send") /\ Ptz!Put(p, head.msg)
  <2>1. head.do = "send" BY <1>5 DEF Ptz!At
  <2>2. \A G : After(G, head.msg) = AfterStep(G, head) BY <2>1 DEF AfterStep
  <2>. QED BY <1>3, <1>5, <2>1, <2>2
<1>6. CASE Ptz!At(p, "jump by") /\ Ptz!Put(p, [kind |-> "jump", arg |-> Ptz!JumpBy(p_model, p_run[p].v)])
  <2>1. head.do = "jump by" BY <1>6 DEF Ptz!At
  <2>2. [kind |-> "jump", arg |-> Ptz!JumpBy(p_model, p_run[p].v)].kind \notin Adding BY DEF Adding
  <2>. QED BY <1>3, <1>4, <1>6, <2>1, <2>2
<1>7. CASE Ptz!At(p, "file") /\ Ptz!Put(p, [kind |-> "file", arg |-> "content"])
  <2>1. head.do = "file" BY <1>7 DEF Ptz!At
  <2>2. [kind |-> "file", arg |-> "content"].kind \notin Adding BY DEF Adding
  <2>. QED BY <1>3, <1>4, <1>7, <2>1, <2>2
<1>8. CASE Ptz!At(p, "jump to") /\ Ptz!Put(p, [kind |-> "jump", arg |-> Ptz!JumpTo(p_model, p_run[p].v["xy"], p_run[p].cur)])
  <2>1. head.do = "jump to" BY <1>8 DEF Ptz!At
  <2>2. [kind |-> "jump", arg |-> Ptz!JumpTo(p_model, p_run[p].v["xy"], p_run[p].cur)].kind \notin Adding BY DEF Adding
  <2>. QED BY <1>3, <1>4, <1>8, <2>1, <2>2
<1>. QED BY <1>5, <1>6, <1>7, <1>8 DEF Ptz!Sending

(* A step that sends nothing.                                              *)
LEMMA SilentAgrees ==
  ASSUME JumpInv, Agreeing, NEW p \in Ptz!Proc, p_run[p].on, p_run[p].todo # <<>>, Head(p_run[p].todo).do # "send",
         NEW c, p_run' = [p_run EXCEPT ![p] = Advanced(p, c)], UNCHANGED <<p_script, p_queue, p_file, p_presets, p_apart>>
  PROVE  Agreeing'
<1>1. PICK u \in Caller : p \in {Ptz!Fore(u), Ptz!Timer(u)} BY Procs
<1>2. \A F, G : Leads(F, p_queue, G) => Leads(F, p_queue', AfterStep(G, Head(p_run[p].todo))) BY DEF AfterStep
<1>. QED BY <1>1, <1>2, AdvanceAgrees

LEMMA ExitAgrees ==
  ASSUME JumpInv, Agreeing, NEW p \in Ptz!Proc, Ptz!Exit(p), UNCHANGED <<p_file, p_presets>> PROVE Agreeing'
<1> SUFFICES ASSUME ~p_apart PROVE Agreeing' BY DEF Agreeing, Ptz!Exit
<1>1. /\ p_run[p].on /\ p_run[p].todo = <<>> /\ p_run' = [p_run EXCEPT ![p] = Ptz!Idle] /\ Ptz!Leave(p, Tail(p_script[p[1]]))
      /\ UNCHANGED <<p_queue, p_apart>>
  BY DEF Ptz!Exit
<1>2. PICK u \in Caller : p = Ptz!Fore(u) \/ p = Ptz!Timer(u) BY Procs
<1>3. Shape /\ MildTimers BY DEF JumpInv, Agreeing
<1>4. PICK G : Leads(Stored, p_queue, G) /\ Table(G) BY DEF Agreeing
<1>5. /\ p_run = [q \in Ptz!Proc |-> p_run[q]] /\ p_script = [w \in Caller |-> p_script[w]] /\ ForeOk(u)
  BY <1>3 DEF Shape, ScriptsShape, RunsShape
<1>6. p_run'[p] = Ptz!Idle /\ \A q \in Ptz!Proc : q # p => p_run'[q] = p_run[q] BY <1>1, <1>5
<1>7. MildTimers'
  <2>1. \A w \in Caller : Ptz!Timer(w) \in Ptz!Proc BY Procs
  <2>2. \A w \in Caller : p_run'[Ptz!Timer(w)].on => p_run'[Ptz!Timer(w)] = p_run[Ptz!Timer(w)] BY <1>6, <2>1, IdleRun
  <2>. QED BY <1>3, <2>2 DEF MildTimers
<1>8. Stored' = Stored BY DEF Stored
<1>9. CASE p = Ptz!Timer(u)
  <2>1. p[1] = u /\ p[2] = "timer" BY <1>9, Procs
  <2>2. p_script' = [p_script EXCEPT ![u] = @] BY <1>1, <2>1 DEF Ptz!Leave
  <2>3. p_script' = p_script BY <1>5, <2>2
  <2>4. \A w \in Caller : Ptz!Fore(w) \in Ptz!Proc /\ Ptz!Fore(w) # p BY <1>9, Procs
  <2>5. \A w \in Caller : p_run'[Ptz!Fore(w)] = p_run[Ptz!Fore(w)] BY <1>6, <2>4
  <2>6. Table(G)' BY <1>4, <2>3, <2>5, SameTable
  <2>7. (Leads(Stored, p_queue, G))' BY <1>1, <1>4, <1>8
  <2>. QED BY <1>7, <2>6, <2>7 DEF Agreeing
<1>10. CASE p = Ptz!Fore(u)
  <2>1. p[1] = u /\ p[2] # "timer" BY <1>10, Procs
  <2>2. p_script' = [p_script EXCEPT ![u] = Tail(p_script[u])] BY <1>1, <2>1 DEF Ptz!Leave
  <2>3. p_script'[u] = Tail(p_script[u]) /\ \A w \in Caller : w # u => p_script'[w] = p_script[w] BY <1>5, <2>2
  <2>4. p_script[u] # <<>> BY <1>1, <1>5, <1>10 DEF ForeOk
  <2>5. Unrivalled(u) /\ Busy(u, G) BY <1>4, <2>4, TableOf
  <2>6. Pending(p_file, Tail(p_script[u]), G)
    <3>1. ASSUME NEW F, Steps(G, <<>>, F), Pending(p_file, Tail(p_script[u]), F) PROVE Pending(p_file, Tail(p_script[u]), G)
      BY <3>1, StepsNone
    <3>. QED BY <1>1, <1>10, <2>5, <3>1 DEF Busy, Doing
  <2>7. ~p_run'[Ptz!Fore(u)].on BY <1>6, <1>10, IdleRun
  <2>8. Doing(p_file', p_run'[Ptz!Fore(u)], p_script'[u], G) BY <2>3, <2>6, <2>7 DEF Doing
  <2>9. Leads(Stored', p_queue', G) BY <1>1, <1>4, <1>8
  <2>. QED BY <1>7, <2>3, <2>5, <2>8, <2>9, AloneAgrees
<1>. QED BY <1>2, <1>9, <1>10

(* Only a command that leaves the presets alone leaves a timer behind.     *)
LEMMA ForkAgrees ==
  ASSUME JumpInv, Agreeing, NEW p \in Ptz!Proc, Ptz!Fork(p), UNCHANGED <<p_file, p_presets>> PROVE Agreeing'
<1> SUFFICES ASSUME ~p_apart' PROVE Agreeing' BY DEF Agreeing
<1> DEFINE r == [p_run[p] EXCEPT !.todo = Tail(@)]
           todo == p_run[p].todo
<1>1. /\ p_run[p].on /\ todo # <<>> /\ Head(todo).do = "fork" /\ ~p_run[Ptz!Timer(p[1])].on
      /\ p_run' = [p_run EXCEPT ![p] = Ptz!Idle, ![Ptz!Timer(p[1])] = r] /\ Ptz!Leave(p, Tail(p_script[p[1]]))
      /\ UNCHANGED <<p_queue, p_apart>>
  BY DEF Ptz!Fork, Ptz!Failed, Ptz!At
<1>2. PICK u \in Caller : p = Ptz!Fore(u) \/ p = Ptz!Timer(u) BY Procs
<1>3. p = Ptz!Fore(u) /\ p[1] = u /\ p[2] # "timer" BY <1>1, <1>2, Procs
<1>4. Shape /\ MildTimers /\ ~p_apart BY <1>1 DEF JumpInv, Agreeing
<1>5. PICK G : Leads(Stored, p_queue, G) /\ Table(G) BY <1>4 DEF Agreeing
<1>6. /\ p_run = [q \in Ptz!Proc |-> p_run[q]] /\ p_script = [w \in Caller |-> p_script[w]] /\ ForeOk(u) /\ RunOk(p_run[p])
  BY <1>4 DEF Shape, ScriptsShape, RunsShape
<1>7. p_script[u] # <<>> BY <1>1, <1>3, <1>6 DEF ForeOk
<1>8. Unrivalled(u) /\ Busy(u, G) BY <1>5, <1>7, TableOf
<1>9. ~NoFork(todo)
  <2>1. ASSUME NoFork(todo) PROVE FALSE
    <3>1. Ptz!IsSeq(todo) BY <2>1 DEF NoFork
    <3>2. 1 \in DOMAIN todo /\ Head(todo) = todo[1] BY <1>1, <3>1, SeqTail
    <3>. QED BY <1>1, <2>1, <3>2 DEF NoFork
  <2>. QED BY <2>1
<1>10. Mild(todo) /\ Pending(p_file, Tail(p_script[u]), G) BY <1>1, <1>3, <1>8, <1>9 DEF Busy, Doing
<1>11. Mild(Tail(todo)) BY <1>1, <1>10, MildTail
<1>12. r.todo = Tail(todo)
  <2>1. p_run[p] = RunOf(p_run[p].on, p_run[p].v, todo, p_run[p].cur) BY <1>6 DEF RunOk, RunOf
  <2>2. r = RunOf(p_run[p].on, p_run[p].v, Tail(todo), p_run[p].cur) BY <2>1, RunSteps
  <2>. HIDE DEF r
  <2>. QED BY <2>2 DEF RunOf
<1>. HIDE DEF r
<1>13. /\ \A w \in Caller : Ptz!Timer(w) \in Ptz!Proc /\ Ptz!Timer(w) # Ptz!Fore(u) /\ (w # u => Ptz!Timer(w) # Ptz!Timer(u))
       /\ Ptz!Fore(u) \in Ptz!Proc
  BY Procs
<1>14. p_run' = [p_run EXCEPT ![Ptz!Fore(u)] = Ptz!Idle, ![Ptz!Timer(u)] = r] BY <1>1, <1>3
<1>15. /\ p_run'[Ptz!Fore(u)] = Ptz!Idle /\ p_run'[Ptz!Timer(u)] = r
       /\ \A w \in Caller : w # u => p_run'[Ptz!Timer(w)] = p_run[Ptz!Timer(w)]
  BY <1>6, <1>13, <1>14
<1>16. p_script' = [p_script EXCEPT ![u] = Tail(p_script[u])] BY <1>1, <1>3 DEF Ptz!Leave
<1>17. p_script'[u] = Tail(p_script[u]) /\ \A w \in Caller : w # u => p_script'[w] = p_script[w] BY <1>6, <1>16
<1>18. MildTimers' BY <1>4, <1>11, <1>12, <1>15 DEF MildTimers
<1>19. Doing(p_file', p_run'[Ptz!Fore(u)], p_script'[u], G) BY <1>10, <1>15, <1>17, IdleRun DEF Doing
<1>20. Leads(Stored', p_queue', G) BY <1>1, <1>5 DEF Stored
<1>. QED BY <1>8, <1>17, <1>18, <1>19, <1>20, AloneAgrees

LEMMA CommandAgrees == ASSUME JumpInv, Agreeing, NEW p \in Ptz!Proc, Ptz!Command(p) PROVE Agreeing'
<1>1. UNCHANGED <<p_file, p_presets>> BY DEF Ptz!Command, Ptz!camera
<1>2. CASE Ptz!Sending(p) BY <1>1, <1>2, SendingAgrees
<1>3. CASE Ptz!Sleep(p) \/ Ptz!Worker(p)
  <2> DEFINE c == p_run[p].cur
  <2>1. /\ p_run[p].on /\ p_run[p].todo # <<>> /\ Head(p_run[p].todo).do \in {"sleep", "worker"}
        /\ p_run' = [p_run EXCEPT ![p].todo = Tail(@)] /\ UNCHANGED <<p_script, p_queue, p_apart>>
    BY <1>3 DEF Ptz!Sleep, Ptz!Worker, Ptz!At, Ptz!Done
  <2>2. p_run' = [p_run EXCEPT ![p] = Advanced(p, c)] BY <2>1, OneStep
  <2>3. Head(p_run[p].todo).do # "send" BY <2>1
  <2>. HIDE DEF c
  <2>. QED BY <1>1, <2>1, <2>2, <2>3, SilentAgrees
<1>4. CASE Ptz!Read(p)
  <2>1. CASE Ptz!Failed(p) BY <2>1 DEF Ptz!Failed, Agreeing
  <2>2. CASE p_run' = [p_run EXCEPT ![p].cur = p_pos, ![p].todo = Tail(@)] /\ UNCHANGED <<p_script, p_queue, p_apart>>
    <3>1. p_run[p].on /\ p_run[p].todo # <<>> /\ Head(p_run[p].todo).do = "read" BY <1>4 DEF Ptz!Read, Ptz!At
    <3>2. p_run' = [p_run EXCEPT ![p] = Advanced(p, p_pos)] BY <2>2, <3>1, OneStep
    <3>3. Head(p_run[p].todo).do # "send" BY <3>1
    <3>. QED BY <1>1, <2>2, <3>1, <3>2, <3>3, SilentAgrees
  <2>. QED BY <1>4, <2>1, <2>2 DEF Ptz!Read
<1>5. CASE Ptz!NoFile(p) BY <1>5 DEF Ptz!NoFile, Ptz!Failed, Agreeing
<1>6. CASE Ptz!Fork(p) BY <1>1, <1>6, ForkAgrees
<1>7. CASE Ptz!Exit(p) BY <1>1, <1>7, ExitAgrees
<1>. QED BY <1>2, <1>3, <1>4, <1>5, <1>6, <1>7 DEF Ptz!Command

-----------------------------------------------------------------------------
(* The camera takes a message.                                             *)
LEMMA StoredAfter == ASSUME Somewhere, Ptz!Dispatch PROVE Stored' = After(Stored, Head(p_queue))
<1> DEFINE m == Head(p_queue)
<1>1. p_pos # None
  <2>1. None \notin Place
    BY ScriptsAssumption DEF Ptz!CallerConstants, Place, Columns, Rows, Ptz!MAX_PTZ_X, Ptz!MAX_PTZ_Y
  <2>. QED BY <2>1 DEF Somewhere
<1>2. \A s \in Ptz!Slot : p_presets'[s] =
             IF m.kind = "add" /\ s \in Ptz!Free /\ \A f \in Ptz!Free : s <= f THEN p_pos
             ELSE IF m.kind = "remove" /\ m.arg = s THEN None ELSE p_presets[s]
  BY DEF Ptz!Dispatch
<1>. HIDE DEF m
<1>3. Ptz!Free = Ptz!Slot \ Stored BY DEF Ptz!Free, Stored
<1>4. CASE m.kind = "add"
  <2>1. \A s \in Ptz!Slot : p_presets'[s] = IF s \in Ptz!Free /\ \A f \in Ptz!Free : s <= f THEN p_pos ELSE p_presets[s]
    BY <1>2, <1>4
  <2>2. Stored' = Stored \cup {s \in Ptz!Slot \ Stored : \A f \in Ptz!Slot \ Stored : s <= f}
    BY <1>1, <1>3, <2>1 DEF Stored
  <2>. QED BY <1>4, <2>2 DEF After, AfterAdd, m
<1>5. CASE m.kind = "remove"
  <2>1. \A s \in Ptz!Slot : p_presets'[s] = IF m.arg = s THEN None ELSE p_presets[s] BY <1>2, <1>5
  <2>2. Stored' = Stored \ {m.arg} BY <2>1 DEF Stored
  <2>. QED BY <1>5, <2>2 DEF After, m
<1>6. CASE m.kind \notin {"add", "remove"}
  <2>1. \A s \in Ptz!Slot : p_presets'[s] = p_presets[s] BY <1>2, <1>6
  <2>2. Stored' = Stored BY <2>1 DEF Stored
  <2>. QED BY <1>6, <2>2 DEF After, m
<1>. QED BY <1>4, <1>5, <1>6

LEMMA DispatchAgrees == ASSUME JumpInv, Agreeing, Ptz!Dispatch PROVE Agreeing'
<1> SUFFICES ASSUME ~p_apart' PROVE Agreeing' BY DEF Agreeing
<1>1. p_queue # <<>> /\ p_queue' = Tail(p_queue) /\ UNCHANGED <<p_script, p_run, p_file, p_apart>> BY DEF Ptz!Dispatch
<1>2. Shape /\ MildTimers BY <1>1 DEF JumpInv, Agreeing
<1>3. PICK G : Leads(Stored, p_queue, G) /\ Table(G) BY <1>1 DEF Agreeing
<1>4. Ptz!IsSeq(p_queue) BY <1>2 DEF Shape, ScriptsShape
<1>5. Leads(After(Stored, Head(p_queue)), Tail(p_queue), G) BY <1>1, <1>3, <1>4, LeadsTail
<1>6. Stored' = After(Stored, Head(p_queue)) BY <1>2, StoredAfter DEF Shape
<1>7. (Leads(Stored, p_queue, G))' BY <1>1, <1>5, <1>6
<1>8. Table(G)' BY <1>1, <1>3, SameTable
<1>9. MildTimers' BY <1>1, <1>2 DEF MildTimers
<1>. QED BY <1>7, <1>8, <1>9 DEF Agreeing

-----------------------------------------------------------------------------
LEMMA AgreesInit == Ptz!Init => Agreeing
<1> SUFFICES ASSUME Ptz!Init PROVE Agreeing OBVIOUS
<1>1. /\ p_script = [u \in Caller |-> <<>>] /\ p_run = [p \in Ptz!Proc |-> Ptz!Idle] /\ p_queue = <<>> /\ p_pos \in Spots
      /\ \E taken \in SUBSET Ptz!Slot :
           /\ p_file = [s \in Ptz!Slot |-> IF s \in taken THEN <<"old", s>> ELSE <<>>]
           /\ p_presets = [s \in Ptz!Slot |-> IF s \in taken THEN p_pos ELSE None]
  BY DEF Ptz!Init
<1>2. PICK taken \in SUBSET Ptz!Slot :
         /\ p_file = [s \in Ptz!Slot |-> IF s \in taken THEN <<"old", s>> ELSE <<>>]
         /\ p_presets = [s \in Ptz!Slot |-> IF s \in taken THEN p_pos ELSE None]
  BY <1>1
<1>3. p_pos # None BY <1>1, ScriptsAssumption DEF Ptz!CallerConstants
<1>4. \A s \in Ptz!Slot : /\ p_file[s] = IF s \in taken THEN <<"old", s>> ELSE <<>>
                      /\ p_presets[s] = IF s \in taken THEN p_pos ELSE None
  BY <1>2
<1>5. Stored = taken BY <1>3, <1>4 DEF Stored
<1>6. Taken(p_file) = taken BY <1>4, Names DEF Taken
<1>7. Proper(p_file) BY <1>4, Names DEF Proper
<1>8. Settled(p_file, <<>>, taken) BY <1>6, <1>7, SeqNone, StartsNone DEF Settled, Awaits
<1>9. Pending(p_file, <<>>, taken) BY <1>8, SettledPending
<1>10. Table(taken) BY <1>1, <1>9 DEF Table
<1>11. Leads(Stored, p_queue, taken) BY <1>1, <1>5, LeadsNone
<1>12. MildTimers
  <2>1. \A u \in Caller : p_run[Ptz!Timer(u)] = Ptz!Idle BY <1>1, Procs
  <2>. QED BY <2>1, IdleRun DEF MildTimers
<1>. QED BY <1>10, <1>11, <1>12 DEF Agreeing

LEMMA AgreesNext == JumpInv /\ Agreeing /\ [Ptz!Next]_Ptz!vars => Agreeing'
<1> SUFFICES ASSUME JumpInv, Agreeing, [Ptz!Next]_Ptz!vars PROVE Agreeing' OBVIOUS
<1>1. ASSUME NEW u \in Caller, NEW op \in Ops, Ptz!Begin(u, op) PROVE Agreeing' BY <1>1, BeginAgrees
<1>2. ASSUME NEW u \in Caller, Ptz!EditPreset(u) PROVE Agreeing' BY <1>2, EditAgrees
<1>3. ASSUME NEW u \in Caller, Ptz!WriteLine(u) PROVE Agreeing' BY <1>3, WriteAgrees
<1>4. ASSUME NEW u \in Caller, Ptz!Open(u) PROVE Agreeing' BY <1>4, OpenAgrees
<1>5. ASSUME NEW p \in Ptz!Proc, Ptz!Command(p) PROVE Agreeing' BY <1>5, CommandAgrees
<1>6. CASE Ptz!Dispatch BY <1>6, DispatchAgrees
<1>7. CASE UNCHANGED Ptz!vars
  <2>1. UNCHANGED <<p_script, p_run, p_queue, p_file, p_presets, p_apart>> BY <1>7 DEF Ptz!vars, Ptz!camera
  <2>2. Stored' = Stored /\ (MildTimers => MildTimers') BY <2>1 DEF Stored, MildTimers
  <2>3. ASSUME NEW G, Table(G) PROVE Table(G)' BY <2>1, <2>3, SameTable
  <2>4. ASSUME NEW G, Leads(Stored, p_queue, G) PROVE (Leads(Stored, p_queue, G))' BY <2>1, <2>2, <2>4
  <2>. QED BY <2>1, <2>2, <2>3, <2>4 DEF Agreeing
<1>. QED BY <1>1, <1>2, <1>3, <1>4, <1>5, <1>6, <1>7 DEF Ptz!Next

(* With nothing left to do, what the camera has stored is what the file    *)
(* says.                                                                   *)
LEMMA AgreeWhenQuiet == JumpInv /\ Agreeing => Ptz!TablesAgree
<1> SUFFICES ASSUME JumpInv, Agreeing, Ptz!Quiet, ~p_apart
             PROVE  \A s \in Ptz!Slot : (p_file[s] = <<>>) = (p_presets[s] = None)
  BY DEF Ptz!TablesAgree
<1>1. p_queue = <<>> /\ \A u \in Caller : p_script[u] = <<>> BY DEF Ptz!Quiet
<1>2. PICK G : Leads(Stored, p_queue, G) /\ Table(G) BY DEF Agreeing
<1>3. Stored = G BY <1>1, <1>2, LeadsNone
<1>4. Pending(p_file, <<>>, G) BY <1>1, <1>2, TableEmpty DEF JumpInv
<1>5. Taken(p_file) = G BY <1>4, PendingSettled, AwaitsNothing DEF Settled
<1>. QED BY <1>3, <1>5 DEF Stored, Taken

(* The two tables of presets agree when everything has been carried out    *)
(* and no command has failed, for any number of presets, any length of the *)
(* queue, and any scripts that leave the presets to ptz_presets.sh.        *)
THEOREM TablesAgreeAlways == ControlSpec => []TablesAgree
<1>1. ControlInit => JumpInv /\ Agreeing BY JumpInit, AgreesInit DEF ControlInit
<1>2. JumpInv /\ Agreeing /\ [ControlNext]_allVars => (JumpInv /\ Agreeing)'
  <2>1. [ControlNext]_allVars => [Ptz!Next]_Ptz!vars
    BY DEF ControlNext, Other, allVars, ptzVars, Ptz!vars, Ptz!camera
  <2>. QED BY <2>1, JumpNext, AgreesNext
<1>3. JumpInv /\ Agreeing => TablesAgree BY AgreeWhenQuiet DEF TablesAgree
<1>. QED BY <1>1, <1>2, <1>3, PTL DEF ControlSpec
=============================================================================
