------------------------- MODULE RuntimeLockProofs -------------------------
(***************************************************************************)
(* Proofs about RuntimeLock for every set of shells, every retry bound and *)
(* every set of crash points.  The inductive invariant IInv says what a    *)
(* shell knows at each program point unless it was robbed.                 *)
(***************************************************************************)
EXTENDS RuntimeLock, TLAPS

(* A shell inside the recovery section made $path.recover, alone. *)
RecoverInv ==
  /\ \A p \in Proc : pc[p] \in RecoverPC => recdir
  /\ RecoverySerialized

(* What a recoverer is about to evict was found dead, and stays dead. *)
SampleInv == \A p \in Proc :
  /\ pc[p] \in {"kill0", "rmpid", "rmlock"} => owner[p] \in Proc
  /\ pc[p] \in {"rmpid", "rmlock"} => ~Alive(owner[p])

(* A holder that was not robbed made the directory that is there now. *)
HoldInv ==
  /\ \A p \in Proc \ robbed : pc[p] \in HoldPC => lockdir /\ maker = p
  /\ \A p \in Proc : pc[p] = "undo" => p \in robbed
  /\ maker = None \/ Alive(maker)

(* A live shell whose pid is in the file is between publishing it and      *)
(* removing it.                                                            *)
PidInv == \A p \in Proc :
  pidfile = p /\ Alive(p) => pc[p] \in {"critical", "release", "relpid"}

IInv == TypeOK /\ RecoverInv /\ SampleInv /\ HoldInv /\ PidInv

-----------------------------------------------------------------------------
(* lock_acquire and lock_release keep every variable in its type: the      *)
(* retry count never goes below zero.                                      *)
THEOREM Typing == Spec => []TypeOK
<1> USE LockConstants DEF LockConstants, TypeOK, LivePC, RecoverPC, HoldPC, AcquirePC
<1>1. Init => TypeOK
  BY DEF Init
<1>2. TypeOK /\ [Next]_vars => TypeOK'
  <2> SUFFICES ASSUME TypeOK, [Next]_vars PROVE TypeOK'
    OBVIOUS
  <2> USE DEF Goto, Exit, lockdir, recdir
  <2>1. ASSUME NEW p \in Proc, Begin(p) PROVE TypeOK'
    BY <2>1 DEF Begin
  <2>2. ASSUME NEW p \in Proc, lock_acquire(p) PROVE TypeOK'
    <3>1. CASE AcquireMkdir(p)
      <4>1. pc' \in [Proc -> LivePC \cup {"gone"}]
        BY <3>1 DEF AcquireMkdir
      <4>2. dirs' \subseteq {"lock", "recover"} /\ maker' \in Proc \cup {None}
        BY <3>1 DEF AcquireMkdir
      <4>3. QED
        BY <3>1, <4>1, <4>2 DEF AcquireMkdir
    <3>2. CASE RecoverMkdir(p)
      BY <3>2 DEF RecoverMkdir
    <3>3. CASE RecoverCat(p)
      BY <3>3 DEF RecoverCat
    <3>4. CASE RecoverProbe(p) \/ RecoverRmPid(p) \/ RecoverRmdir(p)
      BY <3>4 DEF RecoverProbe, RecoverRmPid, RecoverRmdir, LosesPid, LosesDir
    <3>5. CASE RecoverDone(p) \/ Publish(p) \/ PublishUndo(p)
      BY <3>5 DEF RecoverDone, Publish, PublishUndo, LosesDir
    <3>6. CASE Retry(p)
      BY <3>6 DEF Retry
    <3> QED BY <2>2, <3>1, <3>2, <3>3, <3>4, <3>5, <3>6 DEF lock_acquire
  <2>3. ASSUME NEW p \in Proc, Finish(p) PROVE TypeOK'
    BY <2>3 DEF Finish
  <2>4. ASSUME NEW p \in Proc, lock_release(p) PROVE TypeOK'
    BY <2>4 DEF lock_release, ReleaseCat, ReleaseRmPid, ReleaseRmdir, LosesPid, LosesDir
  <2>5. ASSUME NEW p \in Proc, Crash(p) PROVE TypeOK'
    BY <2>5 DEF Crash
  <2>6. CASE UNCHANGED vars
    BY <2>6 DEF vars
  <2> QED BY <2>1, <2>2, <2>3, <2>4, <2>5, <2>6 DEF Next
<1>3. QED BY <1>1, <1>2, PTL DEF Spec

(* Each part of the inductive invariant is preserved by every step. *)
LEMMA RecoverStep == IInv /\ [Next]_vars => RecoverInv'
<1> SUFFICES ASSUME IInv, [Next]_vars PROVE RecoverInv'
  OBVIOUS
<1> USE DEF IInv, TypeOK, RecoverInv, RecoverySerialized, RecoverPC, Goto, Exit, lockdir, recdir
<1>1. ASSUME NEW p \in Proc, Begin(p) \/ Finish(p) PROVE RecoverInv'
  BY <1>1 DEF Begin, Finish
<1>2. ASSUME NEW p \in Proc, lock_acquire(p) PROVE RecoverInv'
  <2>1. CASE AcquireMkdir(p)
    BY <2>1 DEF AcquireMkdir
  <2>2. CASE RecoverMkdir(p)
    BY <2>2 DEF RecoverMkdir
  <2>3. CASE RecoverCat(p) \/ RecoverProbe(p) \/ RecoverRmPid(p)
    BY <2>3 DEF RecoverCat, RecoverProbe, RecoverRmPid
  <2>4. CASE RecoverRmdir(p) \/ PublishUndo(p)
    BY <2>4 DEF RecoverRmdir, PublishUndo, Rmdirs
  <2>5. CASE RecoverDone(p)
    BY <2>5 DEF RecoverDone
  <2>6. CASE Retry(p) \/ Publish(p)
    BY <2>6 DEF Retry, Publish
  <2> QED BY <1>2, <2>1, <2>2, <2>3, <2>4, <2>5, <2>6 DEF lock_acquire
<1>3. ASSUME NEW p \in Proc, lock_release(p) PROVE RecoverInv'
  BY <1>3 DEF lock_release, ReleaseCat, ReleaseRmPid, ReleaseRmdir, Rmdirs
<1>4. ASSUME NEW p \in Proc, Crash(p) PROVE RecoverInv'
  BY <1>4 DEF Crash
<1>5. CASE UNCHANGED vars
  BY <1>5 DEF vars
<1> QED BY <1>1, <1>2, <1>3, <1>4, <1>5 DEF Next

LEMMA SampleStep == IInv /\ [Next]_vars => SampleInv'
<1> SUFFICES ASSUME IInv, [Next]_vars PROVE SampleInv'
  OBVIOUS
<1> USE LockConstants DEF LockConstants, IInv, TypeOK, SampleInv, Alive, Goto, Exit
<1>1. ASSUME NEW p \in Proc, Begin(p) PROVE SampleInv'
  BY <1>1 DEF Begin, Unreferenced
<1>2. ASSUME NEW p \in Proc, lock_acquire(p) PROVE SampleInv'
  <2>1. CASE AcquireMkdir(p) \/ RecoverMkdir(p)
    BY <2>1 DEF AcquireMkdir, RecoverMkdir
  <2>2. CASE RecoverCat(p) \/ RecoverProbe(p) \/ RecoverDone(p)
    BY <2>2 DEF RecoverCat, RecoverProbe, RecoverDone
  <2>3. CASE RecoverRmPid(p) \/ RecoverRmdir(p)
    BY <2>3 DEF RecoverRmPid, RecoverRmdir
  <2>4. CASE Retry(p) \/ Publish(p) \/ PublishUndo(p)
    BY <2>4 DEF Retry, Publish, PublishUndo
  <2> QED BY <1>2, <2>1, <2>2, <2>3, <2>4 DEF lock_acquire
<1>3. ASSUME NEW p \in Proc, lock_release(p) \/ Finish(p) PROVE SampleInv'
  BY <1>3 DEF lock_release, ReleaseCat, ReleaseRmPid, ReleaseRmdir, Finish
<1>4. ASSUME NEW p \in Proc, Crash(p) PROVE SampleInv'
  BY <1>4 DEF Crash
<1>5. CASE UNCHANGED vars
  BY <1>5 DEF vars
<1> QED BY <1>1, <1>2, <1>3, <1>4, <1>5 DEF Next

LEMMA HoldStep == IInv /\ [Next]_vars => HoldInv'
<1> SUFFICES ASSUME IInv, [Next]_vars PROVE HoldInv'
  OBVIOUS
<1> USE LockConstants
    DEF LockConstants, IInv, TypeOK, HoldInv, HoldPC, Alive, Goto, Exit, lockdir, recdir
<1>1. ASSUME NEW p \in Proc, Begin(p) \/ Finish(p) PROVE HoldInv'
  BY <1>1 DEF Begin, Finish
<1>2. ASSUME NEW p \in Proc, lock_acquire(p) PROVE HoldInv'
  <2>1. CASE AcquireMkdir(p)
    BY <2>1 DEF AcquireMkdir
  <2>2. CASE RecoverMkdir(p) \/ RecoverCat(p) \/ RecoverProbe(p)
    BY <2>2 DEF RecoverMkdir, RecoverCat, RecoverProbe
  <2>3. CASE RecoverRmPid(p)
    BY <2>3 DEF RecoverRmPid
  <2>4. CASE RecoverRmdir(p)
    BY <2>4 DEF RecoverRmdir, Rmdirs, LosesDir
  <2>5. CASE RecoverDone(p) \/ Retry(p)
    BY <2>5 DEF RecoverDone, Retry
  <2>6. CASE Publish(p)
    <3>1. CASE lockdir
      BY <2>6, <3>1 DEF Publish
    <3>2. CASE ~lockdir
      <4>1. p \in robbed
        BY <2>6, <3>2 DEF Publish
      <4> QED BY <2>6, <3>2, <4>1 DEF Publish
    <3> QED BY <3>1, <3>2
  <2>7. CASE PublishUndo(p)
    BY <2>7 DEF PublishUndo, Rmdirs, LosesDir
  <2> QED BY <1>2, <2>1, <2>2, <2>3, <2>4, <2>5, <2>6, <2>7 DEF lock_acquire
<1>3. ASSUME NEW p \in Proc, ReleaseCat(p) \/ ReleaseRmPid(p) PROVE HoldInv'
  BY <1>3 DEF ReleaseCat, ReleaseRmPid
<1>4. ASSUME NEW p \in Proc, ReleaseRmdir(p) PROVE HoldInv'
  BY <1>4 DEF ReleaseRmdir, Rmdirs, LosesDir
<1>5. ASSUME NEW p \in Proc, Crash(p) PROVE HoldInv'
  BY <1>5 DEF Crash
<1>6. CASE UNCHANGED vars
  BY <1>6 DEF vars
<1> QED BY <1>1, <1>2, <1>3, <1>4, <1>5, <1>6 DEF Next, lock_release

LEMMA PidStep == IInv /\ [Next]_vars => PidInv'
<1> SUFFICES ASSUME IInv, [Next]_vars PROVE PidInv'
  OBVIOUS
<1> USE LockConstants DEF LockConstants, IInv, TypeOK, PidInv, Alive, Goto, Exit
<1>1. ASSUME NEW p \in Proc, Begin(p) \/ Finish(p) PROVE PidInv'
  BY <1>1 DEF Begin, Finish, Unreferenced
<1>2. ASSUME NEW p \in Proc, lock_acquire(p) PROVE PidInv'
  BY <1>2 DEF lock_acquire, AcquireMkdir, RecoverMkdir, RecoverCat, RecoverProbe,
     RecoverRmPid, RecoverRmdir, RecoverDone, Retry, Publish, PublishUndo
<1>3. ASSUME NEW p \in Proc, lock_release(p) \/ Crash(p) PROVE PidInv'
  BY <1>3 DEF lock_release, ReleaseCat, ReleaseRmPid, ReleaseRmdir, Crash
<1>4. CASE UNCHANGED vars
  BY <1>4 DEF vars
<1> QED BY <1>1, <1>2, <1>3, <1>4 DEF Next

LEMMA Invariance == Spec => []IInv
<1>1. Init => IInv
  BY LockConstants DEF LockConstants, Init, IInv, TypeOK, RecoverInv, RecoverySerialized,
     SampleInv, HoldInv, PidInv, RecoverPC, HoldPC, AcquirePC, LivePC, Alive
<1>2. IInv /\ TypeOK' /\ [Next]_vars => IInv'
  BY RecoverStep, SampleStep, HoldStep, PidStep DEF IInv
<1>3. QED BY <1>1, <1>2, Typing, PTL DEF Spec

-----------------------------------------------------------------------------
(* runtime.sh:34, for any number of shells and any crashes: $path.recover  *)
(* admits one recoverer at a time.                                         *)
THEOREM RecoveryIsSerialized == Spec => []RecoverySerialized
<1>1. IInv => RecoverySerialized
  BY DEF IInv, RecoverInv
<1>2. QED BY <1>1, Invariance, PTL

(* mkdir excludes every other shell until a third one removes the holder's *)
(* directory or pid file.                                                  *)
THEOREM MutexUntilRobbed == Spec => []MutexUnlessRobbed
<1>1. IInv => MutexUnlessRobbed
  BY DEF IInv, HoldInv, MutexUnlessRobbed
<1>2. QED BY <1>1, Invariance, PTL

(* Whoever loses its lock loses it to a recoverer with a stale sample of   *)
(* another, dead, owner, or to a shell that was itself robbed.             *)
THEOREM RobbedByStaleSample == Spec => OnlyStaleSampleRobs
<1> DEFINE Robs(v) == \E a \in Proc \ {v} :
       /\ pc'[a] # pc[a]
       /\ \/ a \in robbed
          \/ pc[a] \in {"rmpid", "rmlock"} /\ owner[a] # v /\ ~Alive(owner[a])
<1>1. ASSUME IInv, [Next]_vars, NEW v \in robbed' \ robbed PROVE Robs(v)
  <2> USE LockConstants, <1>1 DEF LockConstants, IInv, TypeOK, Alive, Goto, Exit
  <2>1. ASSUME NEW p \in Proc, RecoverRmPid(p) \/ RecoverRmdir(p) PROVE Robs(v)
    BY <2>1 DEF RecoverRmPid, RecoverRmdir, SampleInv, HoldInv, LosesPid, LosesDir
  <2>2. ASSUME NEW p \in Proc, ReleaseRmPid(p) PROVE Robs(v)
    BY <2>2 DEF ReleaseRmPid, HoldInv, PidInv, LosesPid, HoldPC
  <2>3. ASSUME NEW p \in Proc, ReleaseRmdir(p) \/ PublishUndo(p) PROVE Robs(v)
    BY <2>3 DEF ReleaseRmdir, PublishUndo, HoldInv, LosesDir, HoldPC
  <2>4. PICK p \in Proc : RecoverRmPid(p) \/ RecoverRmdir(p) \/ ReleaseRmPid(p)
                            \/ ReleaseRmdir(p) \/ PublishUndo(p)
    <3>1. ASSUME NEW p \in Proc,
                 \/ Begin(p) \/ AcquireMkdir(p) \/ RecoverMkdir(p) \/ RecoverCat(p)
                 \/ RecoverProbe(p) \/ RecoverDone(p) \/ Retry(p) \/ Publish(p)
                 \/ Finish(p) \/ ReleaseCat(p) \/ Crash(p)
          PROVE FALSE
      BY <3>1 DEF Begin, AcquireMkdir, RecoverMkdir, RecoverCat, RecoverProbe, RecoverDone,
         Retry, Publish, Finish, ReleaseCat, Crash
    <3>2. ~UNCHANGED vars
      BY DEF vars
    <3> QED BY <3>1, <3>2 DEF Next, lock_acquire, lock_release
  <2> QED BY <2>1, <2>2, <2>3, <2>4
<1>2. IInv /\ [Next]_vars => [\A v \in robbed' \ robbed : Robs(v)]_vars
  BY <1>1
<1>3. QED BY <1>2, Invariance, PTL DEF Spec, OnlyStaleSampleRobs
=============================================================================
