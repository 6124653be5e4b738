--------------------------- MODULE SnapshotProofs ---------------------------
(* Proofs about Snapshot, for any number of callers, any recordings and    *)
(* pictures of any size.                                                   *)
EXTENDS Snapshot, SequenceTheorems, FiniteSetTheorems, TLAPS

(* Of two live processes one was not alive when the other looked for it, so*)
(* they cannot have missed each other; who works has looked at everybody.  *)
Looked == \A p \in Proc : Busy(p) => seen[p] = Proc
NotBothMissed ==
  \A p, q \in Proc : p # q /\ Alive(p) /\ Alive(q) => q \notin seen[p] \/ p \notin seen[q]

PC == {"off", "markers", "peers", "map", "copy", "open", "scan"}
Typed == pc \in [Proc -> PC] /\ seen \in [Proc -> SUBSET Proc]
IInv == Typed /\ Looked /\ NotBothMissed

-----------------------------------------------------------------------------
(* What a step does to the places and to the views.                        *)
Started(p) ==
  /\ ~Alive(p) /\ pc' = [pc EXCEPT ![p] = "markers"] /\ seen' = [seen EXCEPT ![p] = {p}]
Ended(p) == pc' = [pc EXCEPT ![p] = "off"] /\ seen' = [seen EXCEPT ![p] = {}]
MovedTo(p, l) ==
  /\ l \in PC /\ pc' = [pc EXCEPT ![p] = l]
  /\ l \in {"map", "copy", "open", "scan"} => Busy(p) \/ seen[p] = Proc
Moved(p) == Alive(p) /\ seen' = seen /\ \E l \in PC : MovedTo(p, l)
Saw(p) ==
  /\ pc' = pc
  /\ \E q \in Proc : ~Alive(q) /\ seen' = [seen EXCEPT ![p] = @ \cup {q}]

LEMMA WorkingSteps ==
  ASSUME NEW p \in Proc, Working(p)
  PROVE  UNCHANGED <<pc, seen>> \/ Ended(p) \/ Moved(p) \/ Saw(p)
<1>1. CASE CopyPoint(p)
  BY <1>1 DEF CopyPoint
<1>2. CASE Markers(p)
  BY <1>2 DEF Markers, Exit, Goto, Ended, Moved, MovedTo, Alive, PC
<1>3. CASE Look(p)
  BY <1>3 DEF Look, Exit, Ended, Saw
<1>4. CASE Begin(p)
  BY <1>4 DEF Begin, Goto, Moved, MovedTo, Alive, PC
<1>5. CASE Compare(p)
  BY <1>5 DEF Compare, Exit, Ended
<1>6. CASE Map(p)
  BY <1>6 DEF Map, Exit, Goto, Ended, Moved, MovedTo, Alive, Busy, PC
<1>7. CASE p = Thumb /\ OpenVideo
  BY <1>7 DEF OpenVideo, Exit, Goto, Ended, Moved, MovedTo, Alive, Busy, PC
<1>8. CASE p = Thumb /\ Scan
  BY <1>8 DEF Scan
<1>9. CASE p = Thumb /\ Decode
  BY <1>9 DEF Decode, Exit, Ended
<1>10. QED
  BY <1>1, <1>2, <1>3, <1>4, <1>5, <1>6, <1>7, <1>8, <1>9 DEF Working, Grab

LEMMA Steps ==
  ASSUME [Next]_vars
  PROVE  UNCHANGED <<pc, seen>> \/ \E p \in Proc : Started(p) \/ Ended(p) \/ Moved(p) \/ Saw(p)
<1>1. CASE UNCHANGED vars
  BY <1>1 DEF vars
<1>2. CASE StorePoint \/ Privacy
  BY <1>2 DEF StorePoint, Privacy
<1>3. CASE List \/ Demux \/ Wait
  BY <1>3 DEF List, Demux, Wait, Keep
<1>4. CASE Run
  BY <1>4 DEF Run, Start, Started, Alive, Proc
<1>5. ASSUME NEW v \in Viewer, Request(v)
      PROVE  \E p \in Proc : Started(p)
  BY <1>5 DEF Request, Start, Started, Alive, Proc
<1>6. ASSUME NEW p \in Proc, Working(p)
      PROVE  UNCHANGED <<pc, seen>> \/ Ended(p) \/ Moved(p) \/ Saw(p)
  BY <1>6, WorkingSteps
<1>7. QED
  BY <1>1, <1>2, <1>3, <1>4, <1>5, <1>6 DEF Next, Script

-----------------------------------------------------------------------------
LEMMA Initially == Init => IInv
BY DEF Init, IInv, Typed, Looked, NotBothMissed, Busy, Alive, Proc, PC

LEMMA Inductive == IInv /\ [Next]_vars => IInv'
<1> SUFFICES ASSUME IInv, [Next]_vars PROVE IInv'
  OBVIOUS
<1> USE DEF IInv, Typed, Looked, NotBothMissed, Busy, Alive, PC
<1>1. CASE UNCHANGED <<pc, seen>>
  BY <1>1
<1>2. ASSUME NEW p \in Proc, Started(p)
      PROVE  IInv'
  <2>1. Typed' /\ Looked'
    BY <1>2 DEF Started
  <2>2. NotBothMissed'
    BY <1>2 DEF Started
  <2>3. QED
    BY <2>1, <2>2
<1>3. ASSUME NEW p \in Proc, Ended(p)
      PROVE  IInv'
  BY <1>3 DEF Ended
<1>4. ASSUME NEW p \in Proc, Moved(p)
      PROVE  IInv'
  <2>1. PICK l \in PC : MovedTo(p, l)
    BY <1>4 DEF Moved
  <2> HIDE DEF PC
  <2>2. \A q \in Proc : Alive(q)' => Alive(q)
    <3>1. \A q \in Proc : q # p => pc'[q] = pc[q]
      BY <2>1 DEF MovedTo
    <3>2. QED
      BY <3>1, <1>4 DEF Moved
  <2>3. seen' = seen
    BY <1>4 DEF Moved
  <2>4. Typed'
    BY <2>1, <2>3 DEF MovedTo
  <2>5. ASSUME NEW q \in Proc, Busy(q)'
        PROVE  seen[q] = Proc
    <3>1. CASE q = p
      BY <2>1, <2>5, <3>1 DEF MovedTo
    <3>2. CASE q # p
      BY <2>1, <2>5, <3>2 DEF MovedTo
    <3>3. QED
      BY <3>1, <3>2
  <2>6. Looked'
    BY <2>3, <2>5
  <2>7. NotBothMissed'
    BY <2>2, <2>3
  <2>8. QED
    BY <2>4, <2>6, <2>7
<1>5. ASSUME NEW p \in Proc, Saw(p)
      PROVE  IInv'
  <2>1. PICK q \in Proc : ~Alive(q) /\ seen' = [seen EXCEPT ![p] = @ \cup {q}]
    BY <1>5 DEF Saw
  <2>2. Typed' /\ Looked'
    BY <1>5, <2>1 DEF Saw
  <2>3. NotBothMissed'
    BY <1>5, <2>1 DEF Saw
  <2>4. QED
    BY <2>2, <2>3
<1>6. QED
  BY Steps, <1>1, <1>2, <1>3, <1>4, <1>5

(* Whatever the number of callers and the order in which they are started  *)
(* and look into /proc, at most one imggrabber works at a time.            *)
THEOREM OneCaptureAlways == Spec => []OneCapture
<1>1. IInv => OneCapture
  BY DEF IInv, Looked, NotBothMissed, OneCapture, Busy, Alive
<1>2. QED
  BY Initially, Inductive, <1>1, PTL DEF Spec

-----------------------------------------------------------------------------
(* SnapshotCoherent.  The camera stores the points in order, so that the   *)
(* buffer is one picture up to `at' and the one before from there on.      *)
CameraOrder ==
  /\ at \in 2 .. Cells + 1 /\ picture \in Nat /\ idle \in 0 .. Cells
  /\ mem \in [Cell -> Nat]
  /\ mem = [c \in Cell |-> IF c < at THEN picture ELSE picture - 1]

CopyTypes ==
  /\ copied \in [Proc -> Seq(Int)] /\ check1 \in [Proc -> [Sampled -> Int]]
  /\ DOMAIN pc = Proc /\ DOMAIN out = Proc
  /\ \A p \in Proc : Len(copied[p]) <= Cells

(* A copy is never ahead of the buffer, nor the copy before of this one.   *)
Behind ==
  \A p \in Proc :
    /\ \A i \in 1 .. Len(copied[p]) : copied[p][i] <= mem[i]
    /\ \A i \in Telling : check1[p][i] <= mem[i]

(* What is copied in front of a telling point is at least as new as that   *)
(* point in the copy before.                                               *)
Newer ==
  \A p \in Proc : \A i \in Telling : \A c \in 1 .. Len(copied[p]) :
    c <= i => copied[p][c] >= check1[p][i]

(* The telling point stored last.                                          *)
Latest(t) == t \in Telling /\ t < at /\ \A i \in Telling : i < at => i <= t

(* If a copy has it, the copy was made after it was stored, and the camera *)
(* has stored no telling point since.                                      *)
UpToDate(p) == \A i \in Telling : i <= Len(copied[p]) => copied[p][i] = mem[i]
FreshCopy ==
  \A p \in Proc : \A t \in Telling :
    Owing /\ Latest(t) /\ t <= Len(copied[p]) /\ UpToDate(p) => idle >= Len(copied[p]) - t + 1

Same(s) == \A i, j \in Telling : s[i] = s[j]

(* The copy before: it will differ from this one, or it is one picture, or *)
(* the camera has been idle since it copied the last point stored.         *)
Differs(p) ==
  \E i \in Telling : \/ i > Len(copied[p]) /\ check1[p][i] < mem[i]
                     \/ i <= Len(copied[p]) /\ check1[p][i] < copied[p][i]
Paused(p) ==
  /\ Owing /\ \A i \in Telling : check1[p][i] = mem[i]
  /\ \E t \in Telling : Latest(t) /\ idle >= Cells - t + 1 + Len(copied[p])

CopyBefore == \A p \in Proc : Differs(p) \/ Same(check1[p]) \/ Paused(p)

PInv ==
  /\ CameraOrder /\ CopyTypes /\ Behind /\ Newer /\ FreshCopy /\ CopyBefore
  /\ SnapshotCoherent

-----------------------------------------------------------------------------
LEMMA SampledPoints ==
  /\ Cells \in Nat \ {0} /\ Thumb \notin Viewer
  /\ Telling \subseteq Sampled /\ Sampled \subseteq Cell /\ Cell \subseteq Int
BY SnapshotAssumption DEF Cell

LEMMA InCell == \A i \in Telling : i \in Sampled /\ i \in Cell /\ i \in Int /\ i >= 1 /\ i <= Cells
BY SampledPoints DEF Cell

LEMMA AllZero == Zeros \in [Sampled -> Int] /\ \A i \in Telling : Zeros[i] = 0
BY InCell DEF Zeros

(* What fillCheck tells of a whole copy. *)
LEMMA Samples ==
  ASSUME NEW s \in Seq(Int), Len(s) = Cells
  PROVE  /\ fillCheck(s) \in [Sampled -> Int]
         /\ \A i \in Telling : fillCheck(s)[i] = s[i] /\ s[i] \in Int
<1>1. \A i \in Cell : s[i] \in Int
  BY DEF Cell
<1>2. \A i \in Sampled : Shade(i, s[i]) \in Int
  BY <1>1, SampledPoints DEF Shade
<1>3. QED
  BY <1>1, <1>2, InCell DEF fillCheck, Shade

(* A greatest point is reached by induction through the smallest number.   *)
LEMMA LeastNumber ==
  ASSUME NEW T \in SUBSET Nat, T # {}
  PROVE  \E n \in T : \A m \in T : n <= m
<1> DEFINE R == StrictSubsetOrdering(Nat)
           S == FiniteSubsetsOf(Nat)
           U == {0 .. n : n \in T}
<1>1. IsWellFoundedOn(R, S)
  BY FS_StrictSubsetOrderingWellFounded
<1>2. U \subseteq S
  <2>1. ASSUME NEW n \in T PROVE 0 .. n \in S
    <3>1. IsFiniteSet(0 .. n)
      BY FS_Interval
    <3>2. 0 .. n \subseteq Nat
      OBVIOUS
    <3>3. QED
      BY <3>1, <3>2 DEF FiniteSubsetsOf
  <2>2. QED
    BY <2>1
<1>3. U # {}
  OBVIOUS
<1> HIDE DEF R, S, U
<1>4. \E x \in U : \A y \in U : <<y, x>> \notin R
  BY <1>1, <1>2, <1>3, WFMin
<1>5. PICK x \in U : \A y \in U : <<y, x>> \notin R
  BY <1>4
<1>6. PICK n \in T : x = 0 .. n
  BY DEF U
<1>7. ASSUME NEW m \in T, m < n PROVE FALSE
  <2>1. 0 .. m \in U
    BY DEF U
  <2>2. 0 .. m \subseteq 0 .. n /\ n \in 0 .. n /\ n \notin 0 .. m
    BY <1>7
  <2>3. <<0 .. m, 0 .. n>> \in R
    BY <2>2 DEF R, StrictSubsetOrdering
  <2>4. QED
    BY <1>5, <1>6, <2>1, <2>3
<1>8. QED
  BY <1>7

LEMMA LatestExists ==
  ASSUME CameraOrder, NEW i \in Telling, i < at
  PROVE  \E t \in Telling : Latest(t)
<1> DEFINE T == {n \in Nat : Cells - n \in Telling /\ Cells - n < at}
<1>1. at \in Int /\ Cells \in Nat
  BY SampledPoints DEF CameraOrder
<1>2. Cells - i \in T
  BY <1>1, InCell
<1>3. PICK n \in T : \A m \in T : n <= m
  BY <1>2, LeastNumber
<1>4. ASSUME NEW j \in Telling, j < at PROVE j <= Cells - n
  <2>1. Cells - j \in T
    BY <1>1, <1>4, InCell
  <2>2. n <= Cells - j
    BY <2>1, <1>3
  <2>3. QED
    BY <2>2, <1>1, <1>3, InCell
<1>5. QED
  BY <1>3, <1>4 DEF Latest

LEMMA InitiallyP == Init => PInv
<1> SUFFICES ASSUME Init PROVE PInv
  OBVIOUS
<1> USE SampledPoints, AllZero DEF Init
<1>1. CameraOrder
  BY DEF CameraOrder, Cell
<1>2. CopyTypes
  BY DEF CopyTypes
<1>3. Behind /\ Newer /\ FreshCopy
  <2>1. \A p \in Proc : copied[p] = <<>> /\ Len(copied[p]) = 0
    OBVIOUS
  <2>2. ~Owing
    BY InCell DEF Owing
  <2>3. QED
    BY <2>1, <2>2, InCell DEF Behind, Newer, FreshCopy
<1>4. CopyBefore
  BY DEF CopyBefore, Same
<1>5. SnapshotCoherent
  BY DEF SnapshotCoherent, Proc
<1>6. QED
  BY <1>1, <1>2, <1>3, <1>4, <1>5 DEF PInv

(* The camera stores one point. *)
LEMMA PStore == ASSUME PInv, StorePoint PROVE PInv'
<1> USE SampledPoints
<1> DEFINE p == IF Storing THEN picture ELSE picture + 1
           c == IF Storing THEN at ELSE 1
<1>1. /\ mem' = [mem EXCEPT ![c] = p] /\ picture' = p /\ at' = c + 1
      /\ idle' = IF c \in Telling THEN 0 ELSE idle
      /\ UNCHANGED <<pc, copied, check1, out>>
  BY DEF StorePoint
<1>2. CameraOrder /\ CopyTypes
  BY DEF PInv
<1>3. c \in Cell /\ mem[c] < p /\ p \in Nat
  BY <1>2 DEF CameraOrder, Storing, Cell
<1>4. /\ mem \in [Cell -> Nat] /\ mem' \in [Cell -> Nat]
      /\ \A i \in Cell : mem'[i] = IF i = c THEN p ELSE mem[i]
  BY <1>1, <1>2, <1>3 DEF CameraOrder
<1>0. /\ at \in Int /\ picture \in Int /\ Cells \in Int /\ (at <= Cells <=> Storing)
      /\ \A i \in Cell : i \in Int /\ i >= 1 /\ i <= Cells
      /\ \A i \in Cell : mem[i] = IF i < at THEN picture ELSE picture - 1
  BY <1>2 DEF CameraOrder, Cell, Storing
<1>5. /\ Storing => at' = at + 1 /\ picture' = picture /\ c = at /\ p = picture
      /\ ~Storing => at' = 2 /\ picture' = picture + 1 /\ c = 1 /\ p = picture + 1
  BY <1>1 DEF p, c
<1> HIDE DEF p, c
<1>6. CameraOrder'
  <2>1. \A i \in Cell : mem'[i] = IF i < at' THEN picture' ELSE picture' - 1
    <3>1. CASE Storing
      BY <1>0, <3>1, <1>4, <1>5
    <3>2. CASE ~Storing
      <4>1. ASSUME NEW i \in Cell PROVE mem[i] = picture
        BY <1>0, <3>2
      <4>2. QED
        BY <1>0, <3>2, <4>1, <1>4, <1>5
    <3>3. QED
      BY <3>1, <3>2
  <2>2. at' \in 2 .. Cells + 1 /\ picture' \in Nat
    BY <1>0, <1>2, <1>5 DEF CameraOrder
  <2>3. mem' = [i \in Cell |-> IF i < at' THEN picture' ELSE picture' - 1]
    BY <2>1, <1>4
  <2>4. idle' \in 0 .. Cells
    BY <1>1, <1>2 DEF CameraOrder
  <2>5. QED
    BY <1>4, <2>2, <2>3, <2>4 DEF CameraOrder
<1>7. CopyTypes'
  BY <1>1, <1>2 DEF CopyTypes
<1>8. \A q \in Proc : /\ Len(copied[q]) \in Nat /\ 1 .. Len(copied[q]) \subseteq Cell
                      /\ \A i \in 1 .. Len(copied[q]) : copied[q][i] \in Int
                      /\ \A i \in Telling : check1[q][i] \in Int
  BY <1>2 DEF CopyTypes, Cell
<1>9. \A i \in Cell : mem[i] \in Int /\ mem'[i] \in Int /\ mem[i] <= mem'[i]
  BY <1>3, <1>4
<1>10. Behind'
  <2>1. ASSUME NEW q \in Proc, NEW i \in 1 .. Len(copied[q]) PROVE copied[q][i] <= mem'[i]
    <3>1. i \in Cell /\ copied[q][i] <= mem[i] /\ copied[q][i] \in Int
      BY <1>8 DEF PInv, Behind
    <3>2. QED
      BY <3>1, <1>9
  <2>2. ASSUME NEW q \in Proc, NEW i \in Telling PROVE check1[q][i] <= mem'[i]
    <3>1. i \in Cell /\ check1[q][i] <= mem[i] /\ check1[q][i] \in Int
      BY <1>8 DEF PInv, Behind
    <3>2. QED
      BY <3>1, <1>9
  <2>3. QED
    BY <2>1, <2>2, <1>1 DEF Behind
<1>11. Newer'
  BY <1>1 DEF PInv, Newer
(* A point that tells nothing leaves what the invariant counts alone. *)
<1>12. c \notin Telling => \A i \in Telling : mem'[i] = mem[i]
  BY <1>4, InCell
<1>13. ASSUME c \notin Telling, Storing PROVE (Owing <=> Owing') /\ \A t \in Telling : Latest(t) <=> Latest(t)'
  <2>1. \A i \in Telling : i # at /\ (i < at <=> i < at') /\ (i >= at <=> i >= at')
    BY <1>13, <1>5, <1>0, InCell
  <2>2. Owing <=> Owing'
    BY <2>1 DEF Owing
  <2>3. \A t \in Telling : Latest(t) <=> Latest(t)'
    BY <2>1 DEF Latest
  <2>4. QED
    BY <2>2, <2>3
<1>14. Owing => Storing
  BY <1>0, InCell DEF Owing
<1>15. ASSUME c \notin Telling, ~Storing PROVE \A t \in Telling : ~Latest(t)'
  <2>1. c = 1 /\ at' = 2
    BY <1>15, <1>5
  <2>2. ASSUME NEW t \in Telling, t < at' PROVE FALSE
    <3>1. t = 1
      BY <2>1, <2>2, InCell
    <3>2. QED
      BY <3>1, <2>1, <1>15
  <2>3. QED
    BY <2>2 DEF Latest
<1>16. FreshCopy'
  <2>1. SUFFICES ASSUME NEW q \in Proc, NEW t \in Telling, Owing', Latest(t)',
                        t <= Len(copied[q]), UpToDate(q)'
                 PROVE  idle' >= Len(copied[q]) - t + 1
    BY <1>1 DEF FreshCopy
  <2>2. CASE c \in Telling
    <3>1. c <= t
      <4>1. c < at'
        BY <1>1, <1>3, <1>0
      <4>2. QED
        BY <4>1, <2>1, <2>2 DEF Latest
    <3>2. c <= Len(copied[q])
      BY <3>1, <2>1, <2>2, <1>8, InCell
    <3>3. copied[q][c] = mem'[c]
      BY <3>2, <2>1, <2>2, <1>1 DEF UpToDate
    <3>4. c \in 1 .. Len(copied[q])
      BY <3>2, <2>2, <1>8, InCell
    <3>5. copied[q][c] <= mem[c]
      BY <3>4 DEF PInv, Behind
    <3>6. QED
      BY <3>3, <3>5, <1>3, <1>4
  <2>3. CASE c \notin Telling
    <3>1. Storing
      BY <2>1, <2>3, <1>15
    <3>2. Owing /\ Latest(t) /\ UpToDate(q)
      BY <3>1, <2>1, <2>3, <1>1, <1>12, <1>13 DEF UpToDate
    <3>3. idle >= Len(copied[q]) - t + 1
      BY <3>2, <2>1 DEF PInv, FreshCopy
    <3>4. QED
      BY <3>3, <2>3, <1>1
  <2>4. QED
    BY <2>2, <2>3
<1>17. CopyBefore'
  <2>1. SUFFICES ASSUME NEW q \in Proc
                 PROVE  Differs(q)' \/ Same(check1[q]) \/ Paused(q)'
    BY <1>1 DEF CopyBefore, Same
  <2>2. CASE Same(check1[q])
    BY <2>2
  <2>3. CASE Differs(q)
    <3>1. PICK i \in Telling : \/ i > Len(copied[q]) /\ check1[q][i] < mem[i]
                               \/ i <= Len(copied[q]) /\ check1[q][i] < copied[q][i]
      BY <2>3 DEF Differs
    <3>2. check1[q][i] < mem[i] => check1[q][i] < mem'[i]
      BY <1>8, <1>9, InCell
    <3>3. QED
      BY <3>1, <3>2, <1>1 DEF Differs
  <2>4. CASE Paused(q) /\ c \notin Telling
    BY <2>4, <1>1, <1>12, <1>13, <1>14 DEF Paused
  <2>5. CASE Paused(q) /\ c \in Telling
    <3>1. PICK t \in Telling : Latest(t) /\ idle >= Cells - t + 1 + Len(copied[q])
      BY <2>5 DEF Paused
    <3>2. t < at /\ c = at
      BY <3>1, <2>5, <1>5, <1>14 DEF Latest, Paused
    <3>3. Len(copied[q]) < c
      <4> DEFINE l == Len(copied[q])
      <4>1. l \in Int /\ idle \in Int /\ idle <= Cells /\ idle >= Cells - t + 1 + l /\ t \in Int
        BY <3>1, <1>2, <1>8, InCell DEF CameraOrder
      <4> HIDE DEF l
      <4>2. l < c
        BY <4>1, <3>2, <1>0
      <4>3. QED
        BY <4>2 DEF l
    <3>4. check1[q][c] < mem'[c]
      <4>1. check1[q][c] = mem[c]
        BY <2>5 DEF Paused
      <4>2. QED
        BY <4>1, <1>3, <1>4
    <3>5. QED
      BY <3>3, <3>4, <2>5, <1>1, <1>8, InCell DEF Differs
  <2>6. QED
    BY <2>1, <2>2, <2>3, <2>4, <2>5 DEF PInv, CopyBefore
<1>18. SnapshotCoherent'
  BY <1>1 DEF PInv, SnapshotCoherent
<1>19. QED
  BY <1>6, <1>7, <1>10, <1>11, <1>16, <1>17, <1>18 DEF PInv

(* A step that leaves the camera and the copies alone. *)
LEMMA PStill ==
  ASSUME PInv, UNCHANGED <<mem, at, picture, idle, copied, check1>>,
         DOMAIN pc' = Proc, DOMAIN out' = Proc,
         \A p \in Proc : out'[p] \in {out[p], None}
  PROVE  PInv'
<1>1. CopyTypes'
  BY DEF PInv, CopyTypes
<1>2. CameraOrder' /\ Behind' /\ Newer' /\ FreshCopy'
  BY DEF PInv, CameraOrder, Behind, Newer, FreshCopy, UpToDate, Owing, Latest
<1>3. CopyBefore'
  BY DEF PInv, CopyBefore, Differs, Paused, Same, Owing, Latest
<1>4. SnapshotCoherent'
  BY DEF PInv, SnapshotCoherent, Proc
<1>5. QED
  BY <1>1, <1>2, <1>3, <1>4 DEF PInv

(* A copy without torn samples, and with nothing old in front of them. *)
Coherent(s) ==
  \A i \in Telling : /\ \A j \in Telling : s[i] = s[j]
                     /\ \A c \in 1 .. i : s[c] >= s[i]

(* A run ends; what it wrote, if anything, is coherent. *)
LEMMA PExit ==
  ASSUME PInv, NEW p \in Proc, NEW n, NEW o, Exit(p, n, o),
         UNCHANGED <<mem, at, picture, idle>>,
         p \in Viewer /\ o # None => Coherent(o.from)
  PROVE  PInv'
<1> USE SampledPoints
<1>1. CopyTypes
  BY DEF PInv
<1>2. /\ pc' = [pc EXCEPT ![p] = "off"] /\ out' = [out EXCEPT ![p] = o]
      /\ copied' = [copied EXCEPT ![p] = <<>>] /\ check1' = [check1 EXCEPT ![p] = Zeros]
  BY DEF Exit
<1>3. /\ copied'[p] = <<>> /\ check1'[p] = Zeros /\ Len(<<>>) = 0
      /\ \A q \in Proc \ {p} : copied'[q] = copied[q] /\ check1'[q] = check1[q]
  BY <1>1, <1>2 DEF CopyTypes
<1>4. CopyTypes'
  BY <1>1, <1>2, AllZero DEF CopyTypes
<1>5. CameraOrder'
  BY DEF PInv, CameraOrder
<1>6. Behind'
  <2>1. \A i \in Telling : Zeros[i] <= mem[i]
    BY AllZero, InCell DEF PInv, CameraOrder
  <2>2. \A i \in Telling : check1'[p][i] <= mem[i]
    BY <2>1, <1>3
  <2>3. QED
    BY <2>2, <1>3 DEF PInv, Behind
<1>7. Newer'
  BY <1>3 DEF PInv, Newer
<1>8. FreshCopy'
  <2>1. ASSUME NEW q \in Proc, NEW t \in Telling, t <= Len(copied'[q]) PROVE q # p
    BY <2>1, <1>3, InCell
  <2>2. ASSUME NEW q \in Proc, NEW t \in Telling, Owing, Latest(t), t <= Len(copied'[q]), UpToDate(q)'
        PROVE  idle >= Len(copied'[q]) - t + 1
    BY <2>1, <2>2, <1>3 DEF PInv, FreshCopy, UpToDate
  <2>3. QED
    BY <2>2 DEF FreshCopy, Owing, Latest
<1>9. CopyBefore'
  <2>1. Same(check1'[p])
    BY <1>3, AllZero DEF Same
  <2>2. ASSUME NEW q \in Proc, q # p PROVE Differs(q)' \/ Same(check1'[q]) \/ Paused(q)'
    <3>1. copied'[q] = copied[q] /\ check1'[q] = check1[q]
      BY <2>2, <1>3
    <3>2. QED
      BY <3>1 DEF PInv, CopyBefore, Differs, Paused, Same, Owing, Latest
  <2>3. QED
    BY <2>1, <2>2 DEF CopyBefore, Same
<1>10. SnapshotCoherent'
  BY <1>1, <1>2 DEF PInv, SnapshotCoherent, Coherent, CopyTypes, Proc
<1>11. QED
  BY <1>4, <1>5, <1>6, <1>7, <1>8, <1>9, <1>10 DEF PInv

(* One point is copied. *)
LEMMA PCopy ==
  ASSUME PInv, NEW p \in Proc, CopyPoint(p), UNCHANGED <<mem, at, picture>>
  PROVE  PInv'
<1> USE SampledPoints
<1> DEFINE n == Len(copied[p])
           s == Append(copied[p], mem[n + 1])
<1>1. CopyTypes /\ CameraOrder
  BY DEF PInv
<1>2. /\ pc[p] = "copy" /\ n < Cells /\ (Owing => idle < Cells)
      /\ copied' = [copied EXCEPT ![p] = s]
      /\ idle' = IF Owing THEN idle + 1 ELSE 0
      /\ UNCHANGED <<pc, out, check1>>
  BY <1>1 DEF CopyPoint, CopyTypes
<1>3. n \in Nat /\ n + 1 \in Cell /\ mem \in [Cell -> Int] /\ copied[p] \in Seq(Int)
  BY <1>1, <1>2, LenProperties DEF CopyTypes, CameraOrder, Cell
<1>4. /\ s \in Seq(Int) /\ Len(s) = n + 1 /\ s[n + 1] = mem[n + 1]
      /\ \A i \in 1 .. n : s[i] = copied[p][i]
  BY <1>3, AppendProperties
<1> HIDE DEF s
<1>5. copied'[p] = s /\ \A q \in Proc \ {p} : copied'[q] = copied[q]
  BY <1>1, <1>2 DEF CopyTypes
<1>6. CopyTypes'
  BY <1>1, <1>2, <1>3, <1>4 DEF CopyTypes
<1>7. CameraOrder'
  BY <1>1, <1>2 DEF CameraOrder
<1>8. \A i \in 1 .. n + 1 : i = n + 1 \/ i \in 1 .. n
  BY <1>3
<1>9. Behind'
  <2>1. \A i \in 1 .. n + 1 : s[i] <= mem[i]
    <3>1. ASSUME NEW i \in 1 .. n + 1 PROVE s[i] <= mem[i]
      <4>1. CASE i = n + 1
        BY <4>1, <1>3, <1>4
      <4>2. CASE i \in 1 .. n
        BY <4>2, <1>4 DEF PInv, Behind
      <4>3. QED
        BY <4>1, <4>2, <1>8
    <3>2. QED
      BY <3>1
  <2>2. QED
    BY <2>1, <1>2, <1>4, <1>5 DEF PInv, Behind
<1>10. Newer'
  <2>1. ASSUME NEW i \in Telling, NEW c \in 1 .. n + 1, c <= i PROVE s[c] >= check1[p][i]
    <3>1. CASE c = n + 1
      <4>1. mem[c] >= mem[i] /\ mem[c] \in Int /\ mem[i] \in Int
        BY <1>1, <1>3, <2>1, <3>1, InCell DEF CameraOrder, Cell
      <4>2. check1[p][i] <= mem[i] /\ check1[p][i] \in Int
        BY <1>1, InCell DEF PInv, Behind, CopyTypes
      <4>3. s[c] = mem[c]
        BY <3>1, <1>4
      <4>4. QED
        BY <4>1, <4>2, <4>3
    <3>2. CASE c \in 1 .. n
      BY <3>2, <2>1, <1>4 DEF PInv, Newer
    <3>3. QED
      BY <3>1, <3>2, <1>8
  <2>2. QED
    BY <2>1, <1>2, <1>4, <1>5 DEF PInv, Newer
<1>11. Owing' = Owing /\ \A t \in Telling : Latest(t)' <=> Latest(t)
  BY DEF Owing, Latest
<1>12. FreshCopy'
  <2>1. ASSUME NEW t \in Telling, Owing, Latest(t), t <= n + 1, UpToDate(p)'
        PROVE  idle + 1 >= (n + 1) - t + 1
    <3>1. idle \in Nat /\ t \in Int
      BY <1>1, InCell DEF CameraOrder
    <3>2. CASE t <= n
      <4>1. \A i \in Telling : i <= n => i \in 1 .. n /\ i <= n + 1
        BY <1>3, InCell
      <4>2. UpToDate(p)
        BY <4>1, <2>1, <1>4, <1>5 DEF UpToDate
      <4>3. idle >= n - t + 1
        BY <2>1, <3>2, <4>2 DEF PInv, FreshCopy
      <4>4. QED
        BY <4>3, <3>1, <1>3
    <3>3. CASE t = n + 1
      BY <3>1, <3>3, <1>3
    <3>4. QED
      BY <2>1, <3>1, <3>2, <3>3, <1>3
  <2>2. ASSUME NEW q \in Proc, q # p, NEW t \in Telling, Owing, Latest(t), t <= Len(copied[q]),
               UpToDate(q)'
        PROVE  idle + 1 >= Len(copied[q]) - t + 1
    <3>1. UpToDate(q)
      BY <2>2, <1>5 DEF UpToDate
    <3>2. idle >= Len(copied[q]) - t + 1
      BY <2>2, <3>1 DEF PInv, FreshCopy
    <3>3. idle \in Nat /\ Len(copied[q]) \in Nat /\ t \in Int
      BY <1>1, InCell DEF CameraOrder, CopyTypes
    <3>4. QED
      BY <3>2, <3>3
  <2>3. ASSUME NEW q \in Proc, NEW t \in Telling, Owing', Latest(t)', t <= Len(copied'[q]), UpToDate(q)'
        PROVE  idle' >= Len(copied'[q]) - t + 1
    <3>1. Owing /\ Latest(t) /\ idle' = idle + 1
      BY <2>3, <1>2, <1>11
    <3>2. CASE q = p
      BY <3>1, <3>2, <2>1, <2>3, <1>4, <1>5
    <3>3. CASE q # p
      BY <3>1, <3>3, <2>2, <2>3, <1>5
    <3>4. QED
      BY <3>2, <3>3
  <2>4. QED
    BY <2>3 DEF FreshCopy
<1>13. CopyBefore'
  <2>1. SUFFICES ASSUME NEW q \in Proc
                 PROVE  Differs(q)' \/ Same(check1[q]) \/ Paused(q)'
    BY <1>2 DEF CopyBefore, Same
  <2>2. CASE Same(check1[q])
    BY <2>2
  <2>3. CASE Differs(q)
    <3>1. CASE q # p
      BY <2>3, <3>1, <1>2, <1>5 DEF Differs
    <3>2. CASE q = p
      <4>1. PICK i \in Telling : \/ i > n /\ check1[q][i] < mem[i]
                                 \/ i <= n /\ check1[q][i] < copied[q][i]
        BY <2>3, <3>2 DEF Differs
      <4>2. i \in Int /\ i >= 1
        BY InCell
      <4>3. CASE i > n + 1
        BY <4>1, <4>2, <4>3, <3>2, <1>2, <1>3, <1>4, <1>5 DEF Differs
      <4>4. CASE i = n + 1
        <5>1. check1[q][i] < s[i]
          BY <4>1, <4>4, <1>3, <1>4
        <5>2. QED
          BY <5>1, <4>2, <4>4, <3>2, <1>2, <1>3, <1>4, <1>5 DEF Differs
      <4>5. CASE i <= n
        <5>1. check1[q][i] < s[i] /\ i <= n + 1
          <6>1. i \in 1 .. n /\ ~(i > n)
            BY <4>2, <4>5, <1>3
          <6>2. s[i] = copied[q][i] /\ check1[q][i] < copied[q][i]
            BY <6>1, <4>1, <3>2, <1>4
          <6>3. QED
            BY <6>1, <6>2, <1>3
        <5>2. QED
          BY <5>1, <4>2, <3>2, <1>2, <1>4, <1>5 DEF Differs
      <4>6. QED
        BY <4>2, <4>3, <4>4, <4>5, <1>3
    <3>3. QED
      BY <3>1, <3>2
  <2>4. CASE Paused(q)
    <3>1. PICK t \in Telling : Latest(t) /\ idle >= Cells - t + 1 + Len(copied[q])
      BY <2>4 DEF Paused
    <3>2. idle' = idle + 1 /\ Len(copied'[q]) <= Len(copied[q]) + 1
      BY <2>4, <1>2, <1>4, <1>5, <1>1 DEF Paused, CopyTypes
    <3>3. idle' >= Cells - t + 1 + Len(copied'[q])
      <4> DEFINE l == Len(copied[q])
                 m == Len(copied'[q])
      <4>1. t \in Int /\ idle \in Int /\ l \in Int /\ m \in Int /\ Cells \in Int
        BY <1>1, <1>6, InCell DEF CameraOrder, CopyTypes
      <4>2. idle' = idle + 1 /\ m <= l + 1
        BY <3>2
      <4>3. idle >= Cells - t + 1 + l
        BY <3>1
      <4> HIDE DEF l, m
      <4>4. idle' >= Cells - t + 1 + m
        BY <4>1, <4>2, <4>3
      <4>5. QED
        BY <4>4 DEF m
    <3>4. QED
      BY <2>4, <3>1, <3>3, <1>2, <1>11 DEF Paused
  <2>5. QED
    BY <2>1, <2>2, <2>3, <2>4 DEF PInv, CopyBefore
<1>14. SnapshotCoherent'
  BY <1>2 DEF PInv, SnapshotCoherent
<1>15. QED
  BY <1>6, <1>7, <1>9, <1>10, <1>12, <1>13, <1>14 DEF PInv

(* Two copies in a row agree on the samples only when these are of one     *)
(* picture, and nothing older is copied in front of them.                  *)
LEMMA EqualCopiesAreCoherent ==
  ASSUME PInv, NEW p \in Proc, Len(copied[p]) = Cells, check1[p] = fillCheck(copied[p])
  PROVE  Coherent(copied[p])
<1> USE SampledPoints
<1>1. CopyTypes /\ CameraOrder /\ copied[p] \in Seq(Int)
  BY DEF PInv, CopyTypes
<1>2. \A i \in Telling : check1[p][i] = copied[p][i] /\ copied[p][i] \in Int
  BY <1>1, Samples
<1>3. ~Differs(p)
  BY <1>2, InCell DEF Differs
<1>4. ~Paused(p)
  BY <1>1, InCell DEF Paused, CameraOrder
<1>5. Same(check1[p])
  BY <1>3, <1>4 DEF PInv, CopyBefore
<1>6. ASSUME NEW i \in Telling, NEW c \in 1 .. i PROVE copied[p][c] >= copied[p][i]
  <2>1. c \in 1 .. Len(copied[p]) /\ c <= i
    BY InCell
  <2>2. QED
    BY <2>1, <1>2 DEF PInv, Newer
<1>7. QED
  BY <1>2, <1>5, <1>6 DEF Coherent, Same

LEMMA PCompare ==
  ASSUME PInv, NEW p \in Proc, Compare(p), UNCHANGED <<mem, at, picture, idle>>
  PROVE  PInv'
<1> USE SampledPoints
<1>1. CopyTypes /\ CameraOrder /\ Len(copied[p]) = Cells /\ copied[p] \in Seq(Int) /\ pc[p] = "copy"
  BY DEF PInv, Compare, CopyTypes
<1>2. CASE check1[p] # fillCheck(copied[p])
  <2> DEFINE f == fillCheck(copied[p])
  <2>0. f \in [Sampled -> Int] /\ \A i \in Telling : f[i] = copied[p][i] /\ f[i] \in Int
    BY <1>1, Samples
  <2>1. /\ check1' = [check1 EXCEPT ![p] = f]
        /\ copied' = [copied EXCEPT ![p] = <<>>]
        /\ UNCHANGED <<pc, out>>
    BY <1>2 DEF Compare
  <2> HIDE DEF f
  <2>2. /\ copied'[p] = <<>> /\ check1'[p] = f /\ Len(<<>>) = 0
        /\ \A q \in Proc \ {p} : copied'[q] = copied[q] /\ check1'[q] = check1[q]
    BY <1>1, <2>1 DEF CopyTypes
  <2>3. CopyTypes'
    BY <1>1, <2>0, <2>1 DEF CopyTypes
  <2>4. CameraOrder' /\ SnapshotCoherent'
    BY <2>1 DEF PInv, CameraOrder, SnapshotCoherent
  <2>5. \A i \in Telling : f[i] <= mem[i] /\ mem[i] \in Int
    BY <2>0, <1>1, InCell DEF PInv, Behind, CameraOrder
  <2>6. Behind' /\ Newer'
    BY <2>2, <2>5 DEF PInv, Behind, Newer
  <2>7. FreshCopy'
    <3>1. ASSUME NEW q \in Proc, NEW t \in Telling, t <= Len(copied'[q]) PROVE q # p
      BY <3>1, <2>2, InCell
    <3>2. ASSUME NEW q \in Proc, NEW t \in Telling, Owing, Latest(t), t <= Len(copied'[q]), UpToDate(q)'
          PROVE  idle >= Len(copied'[q]) - t + 1
      BY <3>1, <3>2, <2>2 DEF PInv, FreshCopy, UpToDate
    <3>3. QED
      BY <3>2 DEF FreshCopy, Owing, Latest
  <2>8. ASSUME NEW q \in Proc, q # p
        PROVE  Differs(q)' \/ Same(check1'[q]) \/ Paused(q)'
    <3>1. copied'[q] = copied[q] /\ check1'[q] = check1[q]
      BY <2>2, <2>8
    <3>2. QED
      BY <3>1 DEF PInv, CopyBefore, Differs, Paused, Same, Owing, Latest
  <2>9. Differs(p)' \/ Same(check1'[p]) \/ Paused(p)'
    <3>1. CASE \E i \in Telling : f[i] # mem[i]
      <4>1. PICK i \in Telling : f[i] # mem[i]
        BY <3>1
      <4>2. f[i] < mem[i]
        BY <4>1, <2>0, <2>5
      <4>3. QED
        BY <4>2, <2>2, InCell DEF Differs
    <3>2. CASE \A i \in Telling : f[i] = mem[i]
      <4>1. CASE ~Owing
        <5>1. \A i \in Telling : mem[i] = picture
          BY <4>1, <1>1, InCell DEF CameraOrder, Owing
        <5>2. QED
          BY <5>1, <3>2, <2>2 DEF Same
      <4>2. CASE Owing /\ \E t \in Telling : Latest(t)
        <5>1. PICK t \in Telling : Latest(t)
          BY <4>2
        <5>2. UpToDate(p) /\ t <= Len(copied[p])
          BY <3>2, <2>0, <1>1, InCell DEF UpToDate
        <5>3. idle >= Cells - t + 1
          BY <5>1, <5>2, <4>2, <1>1 DEF PInv, FreshCopy
        <5>4. idle >= Cells - t + 1 + 0
          BY <5>3, <1>1, InCell DEF CameraOrder
        <5>5. QED
          BY <5>1, <5>4, <4>2, <3>2, <2>2 DEF Paused, Owing, Latest
      <4>3. CASE \A t \in Telling : ~Latest(t)
        <5>1. ASSUME NEW i \in Telling, i < at PROVE FALSE
          BY <4>3, <5>1, <1>1, LatestExists
        <5>2. \A i \in Telling : mem[i] = picture - 1
          BY <5>1, <1>1, InCell DEF CameraOrder
        <5>3. QED
          BY <5>2, <3>2, <2>2 DEF Same
      <4>4. QED
        BY <4>1, <4>2, <4>3
    <3>3. QED
      BY <3>1, <3>2
  <2>10. CopyBefore'
    BY <2>8, <2>9 DEF CopyBefore, Same
  <2>11. QED
    BY <2>3, <2>4, <2>6, <2>7, <2>10 DEF PInv
<1>3. CASE check1[p] = fillCheck(copied[p])
  <2> DEFINE o == [layout |-> Layout(p), from |-> copied[p]]
  <2>1. Exit(p, 0, o)
    BY <1>3 DEF Compare
  <2>2. Coherent(o.from)
    BY <1>1, <1>3, EqualCopiesAreCoherent
  <2> HIDE DEF o
  <2>3. QED
    BY <2>1, <2>2, PExit
<1>4. QED
  BY <1>2, <1>3

(* Steps of one imggrabber. *)
LEMMA PWorking == ASSUME PInv, NEW p \in Proc, Working(p) PROVE PInv'
<1> USE SampledPoints
<1>1. UNCHANGED <<mem, at, picture>>
  BY DEF Working, camera
<1>2. DOMAIN pc = Proc /\ DOMAIN out = Proc
  BY DEF PInv, CopyTypes
<1>3. ASSUME NEW l, Goto(p, l), UNCHANGED <<copied, check1, idle>> PROVE PInv'
  BY <1>1, <1>2, <1>3, PStill DEF Goto
<1>4. ASSUME NEW n, Exit(p, n, None), UNCHANGED idle PROVE PInv'
  BY <1>1, <1>4, PExit
<1>5. CASE CopyPoint(p)
  BY <1>1, <1>5, PCopy
<1>6. CASE Markers(p) /\ UNCHANGED idle
  BY <1>3, <1>4, <1>6 DEF Markers
<1>7. CASE Look(p) /\ UNCHANGED idle
  <2>1. CASE Exit(p, 0, None)
    BY <1>4, <1>7, <2>1
  <2>2. CASE UNCHANGED <<pc, out, copied, check1>>
    BY <1>1, <1>2, <1>7, <2>2, PStill
  <2>3. QED
    BY <1>7, <2>1, <2>2 DEF Look
<1>8. CASE Begin(p) /\ UNCHANGED idle
  BY <1>3, <1>8 DEF Begin
<1>9. CASE Map(p) /\ UNCHANGED idle
  BY <1>3, <1>4, <1>9 DEF Map
<1>10. CASE Compare(p) /\ UNCHANGED idle
  BY <1>1, <1>10, PCompare
<1>11. CASE p = Thumb /\ OpenVideo /\ UNCHANGED idle
  BY <1>3, <1>4, <1>11 DEF OpenVideo
<1>12. CASE p = Thumb /\ Scan /\ UNCHANGED idle
  BY <1>1, <1>2, <1>12, PStill DEF Scan
<1>13. CASE p = Thumb /\ Decode /\ UNCHANGED idle
  <2>1. PICK n, o : Exit(p, n, o)
    BY <1>13 DEF Decode
  <2>2. QED
    BY <1>1, <1>13, <2>1, PExit
<1>14. QED
  BY <1>5, <1>6, <1>7, <1>8, <1>9, <1>10, <1>11, <1>12, <1>13 DEF Working, Grab

LEMMA PInductive == PInv /\ [Next]_vars => PInv'
<1> SUFFICES ASSUME PInv, [Next]_vars PROVE PInv'
  OBVIOUS
<1>1. DOMAIN pc = Proc /\ DOMAIN out = Proc
  BY DEF PInv, CopyTypes
<1>2. ASSUME UNCHANGED <<camera, idle, copied, check1, pc, out>> PROVE PInv'
  BY <1>1, <1>2, PStill DEF camera
<1>3. ASSUME NEW p \in Proc, NEW r, Start(p, r) PROVE PInv'
  BY <1>1, <1>3, PStill DEF Start, camera
<1>4. CASE UNCHANGED vars
  BY <1>2, <1>4 DEF vars, thumb, camera
<1>5. CASE StorePoint
  BY <1>5, PStore
<1>6. CASE Privacy
  BY <1>2, <1>6 DEF Privacy
<1>7. CASE Script
  BY <1>2, <1>3, <1>7 DEF Script, List, Demux, Run, Wait, Keep, Proc
<1>8. ASSUME NEW v \in Viewer, Request(v) PROVE PInv'
  BY <1>3, <1>8 DEF Request, Proc
<1>9. ASSUME NEW p \in Proc, Working(p) PROVE PInv'
  BY <1>9, PWorking
<1>10. QED
  BY <1>4, <1>5, <1>6, <1>7, <1>8, <1>9 DEF Next

(* However the copying of any number of callers and the storing of the     *)
(* camera interleave, however many points the picture has and whichever of *)
(* them are compared or differ: when two copies in a row agree on the      *)
(* samples, those are of one picture, and nothing in front of the last     *)
(* telling one is older.                                                   *)
THEOREM CoherentPictures == Spec => []SnapshotCoherent
<1>1. PInv => SnapshotCoherent
  BY DEF PInv
<1>2. QED
  BY InitiallyP, PInductive, <1>1, PTL DEF Spec

-----------------------------------------------------------------------------
(* KeyPicture.                                                             *)
(* What the search for a NAL unit returns. *)
LEMMA FirstAtIs ==
  ASSUME NEW v \in Seq(Nal), NEW from \in Nat, NEW kinds, NEW n \in from .. Len(v),
         v[n] \in kinds, \A m \in from .. n - 1 : v[m] \notin kinds
  PROVE  FirstAt(v, from, kinds) = n
<1> DEFINE First(k) == v[k] \in kinds /\ \A m \in from .. k - 1 : v[m] \notin kinds
<1>1. \E k \in from .. Len(v) : v[k] \in kinds
  OBVIOUS
<1>2. \E k \in from .. Len(v) : First(k)
  OBVIOUS
<1>3. PICK c \in from .. Len(v) : c = FirstAt(v, from, kinds) /\ First(c)
  BY <1>1, <1>2 DEF FirstAt
<1>4. Len(v) \in Nat
  BY LenProperties
<1>5. ~(c < n) /\ ~(n < c)
  BY <1>3, <1>4
<1>6. QED
  BY <1>3, <1>4, <1>5

LEMMA FirstAtNone ==
  ASSUME NEW v \in Seq(Nal), NEW from \in Nat, NEW kinds,
         \A n \in from .. Len(v) : v[n] \notin kinds
  PROVE  FirstAt(v, from, kinds) = Len(v) + 1
BY DEF FirstAt

LEMMA FirstAtSome ==
  ASSUME NEW v \in Seq(Nal), NEW from \in Nat, NEW kinds,
         \E n \in from .. Len(v) : v[n] \in kinds
  PROVE  /\ FirstAt(v, from, kinds) \in from .. Len(v)
         /\ v[FirstAt(v, from, kinds)] \in kinds
         /\ \A m \in from .. FirstAt(v, from, kinds) - 1 : v[m] \notin kinds
<1> DEFINE T == {n \in from .. Len(v) : v[n] \in kinds}
<1>1. Len(v) \in Nat
  BY LenProperties
<1>2. T \subseteq Nat /\ T # {}
  BY <1>1
<1>3. PICK n \in T : \A m \in T : n <= m
  BY <1>2, LeastNumber
<1>4. \A m \in from .. n - 1 : v[m] \notin kinds
  BY <1>1, <1>3
<1>5. FirstAt(v, from, kinds) = n
  BY <1>3, <1>4, FirstAtIs
<1>6. QED
  BY <1>3, <1>4, <1>5

-----------------------------------------------------------------------------
(* A recording of whole groups: each begins with its parameter sets and    *)
(* its key picture, and another one or the end follows.                    *)
Follows(v, from, rest) ==
  \/ \A n \in from .. Len(v) : v[n] \in rest
  \/ \E g \in Heads(v) : g >= from /\ \A n \in from .. g - 1 : v[n] \in rest

LEMMA GroupOf ==
  ASSUME NEW v \in Seq(Nal), WholeGroups(v), NEW h \in Heads(v)
  PROVE  \E e \in 0 .. Len(v) :
           /\ Group(v, h, e)
           /\ e = Len(v) \/ (e + 1 \in Heads(v) /\ e >= h)
<1> DEFINE next == FirstAt(v, h + 1, {v[1]})
<1>1. Len(v) \in Nat /\ DOMAIN v = 1 .. Len(v) /\ h \in 1 .. Len(v) /\ v[h] = v[1]
  BY LenProperties DEF Heads
<1>2. CASE \E g \in Heads(v) : g > h
  <2>1. PICK g \in Heads(v) : g > h
    BY <1>2
  <2>2. g \in h + 1 .. Len(v) /\ v[g] \in {v[1]}
    BY <1>1, <2>1 DEF Heads
  <2>3. h + 1 \in Nat /\ \E n \in h + 1 .. Len(v) : v[n] \in {v[1]}
    BY <1>1, <2>2
  <2>4. next \in h + 1 .. Len(v) /\ v[next] \in {v[1]}
    BY <2>3, FirstAtSome
  <2>5. Group(v, h, next - 1)
    BY <1>2 DEF WholeGroups
  <2> HIDE DEF next
  <2>6. next \in Heads(v) /\ next - 1 \in 0 .. Len(v) /\ (next - 1) + 1 = next /\ next - 1 >= h
    BY <1>1, <2>4 DEF Heads
  <2>7. QED
    BY <2>5, <2>6
<1>3. CASE ~\E g \in Heads(v) : g > h
  <2>1. Group(v, h, Len(v))
    BY <1>3 DEF WholeGroups
  <2>2. Len(v) \in 0 .. Len(v)
    BY <1>1
  <2>3. QED
    BY <2>1, <2>2
<1>4. QED
  BY <1>2, <1>3

Head264(v, h) == v[h] = "sps" /\ v[h + 1] = "pps" /\ v[h + 2] = "idr"
Head265(v, h) == v[h] = "vps" /\ v[h + 1] = "sps5" /\ v[h + 2] = "pps" /\ v[h + 3] = "idr"

LEMMA HeadOf ==
  ASSUME NEW v \in Seq(Nal), NEW h \in 1 .. Len(v), NEW head, NEW k \in Nat \ {0},
         h + k - 1 <= Len(v), SubSeq(v, h, h + k - 1) = head
  PROVE  \A i \in 1 .. k : v[h + i - 1] = head[i]
<1> DEFINE e == h + k - 1
<1>1. Len(v) \in Nat /\ e \in Int /\ h \in Int /\ e - h + 1 = k /\ e <= Len(v)
  BY LenProperties
<1>2. \A i \in h .. e : v[i] \in Nal
  BY <1>1, ElementOfSeq
<1>3. SubSeq(v, h, e) = head
  OBVIOUS
<1> HIDE DEF e
<1>4. \A i \in 1 .. e - h + 1 : SubSeq(v, h, e)[i] = v[h + i - 1]
  BY <1>1, <1>2, SubSeqProperties
<1>5. QED
  BY <1>1, <1>3, <1>4

LEMMA GroupShape ==
  ASSUME NEW v \in Seq(Nal), NEW h \in 1 .. Len(v), NEW e \in 0 .. Len(v), Group(v, h, e)
  PROVE  \/ Head264(v, h) /\ h + 2 <= e /\ \A n \in h + 3 .. e : v[n] \in {"p41", "other"}
         \/ Head265(v, h) /\ h + 3 <= e /\ \A n \in h + 4 .. e : v[n] \in {"other"}
<1> DEFINE a == <<"sps", "pps", "idr">>
           b == <<"vps", "sps5", "pps", "idr">>
<1>1. Len(a) = 3 /\ a[1] = "sps" /\ a[2] = "pps" /\ a[3] = "idr"
  OBVIOUS
<1>2. Len(b) = 4 /\ b[1] = "vps" /\ b[2] = "sps5" /\ b[3] = "pps" /\ b[4] = "idr"
  OBVIOUS
<1> HIDE DEF a, b
<1>3. Len(v) \in Nat
  BY LenProperties
<1>4. \/ /\ h + Len(a) - 1 <= e /\ SubSeq(v, h, h + Len(a) - 1) = a
         /\ \A n \in h + Len(a) .. e : v[n] \in {"p41", "other"}
      \/ /\ h + Len(b) - 1 <= e /\ SubSeq(v, h, h + Len(b) - 1) = b
         /\ \A n \in h + Len(b) .. e : v[n] \in {"other"}
  BY DEF Group, a, b
<1>5. CASE /\ h + Len(a) - 1 <= e /\ SubSeq(v, h, h + Len(a) - 1) = a
           /\ \A n \in h + Len(a) .. e : v[n] \in {"p41", "other"}
  <2>1. h + 3 - 1 <= Len(v) /\ SubSeq(v, h, h + 3 - 1) = a /\ 3 \in Nat \ {0}
    BY <1>1, <1>3, <1>5
  <2>2. \A i \in 1 .. 3 : v[h + i - 1] = a[i]
    BY <2>1, HeadOf
  <2>3. v[h + 1 - 1] = a[1] /\ v[h + 2 - 1] = a[2] /\ v[h + 3 - 1] = a[3]
    BY <2>2
  <2>4. h + 1 - 1 = h /\ h + 2 - 1 = h + 1 /\ h + 3 - 1 = h + 2
    OBVIOUS
  <2>5. Head264(v, h)
    BY <1>1, <2>3, <2>4 DEF Head264
  <2>6. QED
    BY <1>1, <1>5, <2>4, <2>5
<1>6. CASE /\ h + Len(b) - 1 <= e /\ SubSeq(v, h, h + Len(b) - 1) = b
           /\ \A n \in h + Len(b) .. e : v[n] \in {"other"}
  <2>1. h + 4 - 1 <= Len(v) /\ SubSeq(v, h, h + 4 - 1) = b /\ 4 \in Nat \ {0}
    BY <1>2, <1>3, <1>6
  <2>2. \A i \in 1 .. 4 : v[h + i - 1] = b[i]
    BY <2>1, HeadOf
  <2>3. v[h + 1 - 1] = b[1] /\ v[h + 2 - 1] = b[2] /\ v[h + 3 - 1] = b[3] /\ v[h + 4 - 1] = b[4]
    BY <2>2
  <2>4. h + 1 - 1 = h /\ h + 2 - 1 = h + 1 /\ h + 3 - 1 = h + 2 /\ h + 4 - 1 = h + 3
    OBVIOUS
  <2>5. Head265(v, h)
    BY <1>2, <2>3, <2>4 DEF Head265
  <2>6. QED
    BY <1>2, <1>6, <2>4, <2>5
<1>7. QED
  BY <1>4, <1>5, <1>6

LEMMA Group264 ==
  ASSUME NEW v \in Seq(Nal), WholeGroups(v), v[1] = "sps", NEW h \in Heads(v)
  PROVE  /\ h \in 1 .. Len(v) /\ h + 2 <= Len(v) /\ Head264(v, h)
         /\ Follows(v, h + 3, {"p41", "other"})
<1>1. PICK e \in 0 .. Len(v) : Group(v, h, e) /\ (e = Len(v) \/ (e + 1 \in Heads(v) /\ e >= h))
  BY GroupOf
<1>2. Len(v) \in Nat /\ h \in 1 .. Len(v) /\ v[h] = "sps"
  BY LenProperties DEF Heads
<1>3. Head264(v, h) /\ h + 2 <= e /\ \A n \in h + 3 .. e : v[n] \in {"p41", "other"}
  BY <1>1, <1>2, GroupShape DEF Head265
<1>4. CASE e = Len(v)
  BY <1>2, <1>3, <1>4 DEF Follows
<1>5. CASE e + 1 \in Heads(v)
  <2>1. e + 1 >= h + 3 /\ \A n \in h + 3 .. (e + 1) - 1 : v[n] \in {"p41", "other"}
    BY <1>2, <1>3
  <2>2. Follows(v, h + 3, {"p41", "other"})
    BY <1>5, <2>1 DEF Follows
  <2>3. QED
    BY <1>2, <1>3, <2>2
<1>6. QED
  BY <1>1, <1>4, <1>5

LEMMA Group265 ==
  ASSUME NEW v \in Seq(Nal), WholeGroups(v), v[1] = "vps", NEW h \in Heads(v)
  PROVE  /\ h \in 1 .. Len(v) /\ h + 3 <= Len(v) /\ Head265(v, h)
         /\ Follows(v, h + 4, {"other"})
<1>1. PICK e \in 0 .. Len(v) : Group(v, h, e) /\ (e = Len(v) \/ (e + 1 \in Heads(v) /\ e >= h))
  BY GroupOf
<1>2. Len(v) \in Nat /\ h \in 1 .. Len(v) /\ v[h] = "vps"
  BY LenProperties DEF Heads
<1>3. Head265(v, h) /\ h + 3 <= e /\ \A n \in h + 4 .. e : v[n] \in {"other"}
  BY <1>1, <1>2, GroupShape DEF Head264
<1>4. CASE e = Len(v)
  BY <1>2, <1>3, <1>4 DEF Follows
<1>5. CASE e + 1 \in Heads(v)
  <2>1. e + 1 >= h + 4 /\ \A n \in h + 4 .. (e + 1) - 1 : v[n] \in {"other"}
    BY <1>2, <1>3
  <2>2. Follows(v, h + 4, {"other"})
    BY <1>5, <2>1 DEF Follows
  <2>3. QED
    BY <1>2, <1>3, <2>2
<1>6. QED
  BY <1>1, <1>4, <1>5

-----------------------------------------------------------------------------
(* One step of the search, which always begins at a NAL unit it looks for. *)
LEMMA ScanFinds ==
  ASSUME NEW v \in Seq(Nal), NEW s, NEW i \in 1 .. Len(v), NEW j, s.f = i, v[i] # "other",
         j = FirstAt(v, i + 1, {"sps5", "pps", "idr"}), NEW t, t = ScanOnce(v, s)
  PROVE  /\ t.f = j
         /\ t.vs = IF v[i] \in {"vps", "p41"} THEN i ELSE s.vs
         /\ t.ss = IF v[i] \in {"sps", "sps5"} THEN i ELSE s.ss
         /\ t.ps = IF v[i] = "pps" THEN i ELSE s.ps
         /\ t.is = IF v[i] = "idr" THEN i ELSE s.is
         /\ t.ve = IF j <= Len(v) /\ v[j] = "sps5" THEN j ELSE s.ve
         /\ t.se = IF j <= Len(v) /\ v[j] = "pps" THEN j ELSE s.se
         /\ t.pe = IF j <= Len(v) /\ v[j] = "idr" THEN j ELSE s.pe
<1>1. /\ v[i] \in Nal \ {"other"} /\ i \in Nat /\ i \in i .. Len(v) /\ i <= Len(v)
      /\ \A m \in i .. i - 1 : v[m] \notin Nal \ {"other"}
  BY ElementOfSeq, LenProperties
<1>2. FirstAt(v, s.f, Nal \ {"other"}) = i
  BY <1>1, FirstAtIs
<1>3. t =
        [f  |-> j,
         vs |-> IF v[i] \in {"vps", "p41"} THEN i ELSE s.vs,
         ss |-> IF v[i] \in {"sps", "sps5"} THEN i ELSE s.ss,
         ps |-> IF v[i] \in {"pps"} THEN i ELSE s.ps,
         is |-> IF v[i] \in {"idr"} THEN i ELSE s.is,
         ve |-> IF j <= Len(v) /\ v[j] \in {"sps5"} THEN j ELSE s.ve,
         se |-> IF j <= Len(v) /\ v[j] \in {"pps"} THEN j ELSE s.se,
         pe |-> IF j <= Len(v) /\ v[j] \in {"idr"} THEN j ELSE s.pe]
  BY <1>1, <1>2 DEF ScanOnce, NextStep
<1>4. QED
  BY <1>3

Second == {"sps5", "pps", "idr"}

(* A unit of the second search right behind the first one ends it. *)
LEMMA SecondNext ==
  ASSUME NEW v \in Seq(Nal), NEW i \in 1 .. Len(v), i + 1 <= Len(v), v[i + 1] \in Second
  PROVE  FirstAt(v, i + 1, {"sps5", "pps", "idr"}) = i + 1
<1>1. /\ i + 1 \in Nat /\ i + 1 \in i + 1 .. Len(v)
      /\ \A m \in i + 1 .. (i + 1) - 1 : v[m] \notin {"sps5", "pps", "idr"}
  BY LenProperties
<1>2. QED
  BY <1>1, FirstAtIs DEF Second

(* Behind a key picture it goes on to the next group, or to the end.       *)
LEMMA SecondFar ==
  ASSUME NEW v \in Seq(Nal), NEW i \in 1 .. Len(v), NEW rest, rest \cap Second = {},
         v[1] \notin Second, Follows(v, i + 1, rest),
         \A g \in Heads(v) : g \in 1 .. Len(v) /\ g + 1 <= Len(v) /\ v[g + 1] \in Second
  PROVE  LET j == FirstAt(v, i + 1, {"sps5", "pps", "idr"})
         IN \/ j = Len(v) + 1 /\ \A n \in i + 1 .. Len(v) : v[n] # "idr"
            \/ \E g \in Heads(v) : j = g + 1
<1>1. i + 1 \in Nat /\ Len(v) \in Nat
  BY LenProperties
<1>2. CASE \A n \in i + 1 .. Len(v) : v[n] \in rest
  <2>1. \A n \in i + 1 .. Len(v) : v[n] \notin {"sps5", "pps", "idr"}
    BY <1>2 DEF Second
  <2>2. FirstAt(v, i + 1, {"sps5", "pps", "idr"}) = Len(v) + 1
    BY <1>1, <2>1, FirstAtNone
  <2>3. QED
    BY <2>1, <2>2
<1>3. ASSUME NEW g \in Heads(v), g >= i + 1, \A n \in i + 1 .. g - 1 : v[n] \in rest
      PROVE  FirstAt(v, i + 1, {"sps5", "pps", "idr"}) = g + 1
  <2>1. g \in 1 .. Len(v) /\ v[g] \notin Second /\ g + 1 \in i + 1 .. Len(v) /\ v[g + 1] \in Second
    BY <1>1, <1>3 DEF Heads
  <2>2. \A m \in i + 1 .. (g + 1) - 1 : v[m] \notin Second
    BY <1>1, <1>3, <2>1
  <2>3. QED
    BY <1>1, <2>1, <2>2, FirstAtIs DEF Second
<1>4. QED
  BY <1>2, <1>3 DEF Follows

-----------------------------------------------------------------------------
(* How far the search has got: in the group of head h.                     *)
KeyIsLast(v, n) == \A m \in n + 1 .. Len(v) : v[m] # "idr"

Progress264(v, s) ==
  \/ s = NotFound
  \/ /\ s.vs = 0 /\ s.ss = 1
     /\ \E h \in Heads(v) :
          \/ s.f = h + 1 /\ s.se = h + 1
          \/ s.f = h + 2 /\ s.se = h + 1 /\ s.ps = h + 1 /\ s.pe = h + 2
          \/ /\ s.f = Len(v) + 1 /\ s.se = h + 1 /\ s.ps = h + 1 /\ s.pe = h + 2
             /\ s.is = h + 2 /\ KeyIsLast(v, h + 2)

Progress265(v, s) ==
  \/ s = NotFound
  \/ /\ s.vs = 1
     /\ \E h \in Heads(v) :
          \/ s.f = h + 1 /\ s.ve = h + 1
          \/ s.f = h + 2 /\ s.ve = h + 1 /\ s.ss = h + 1 /\ s.se = h + 2
          \/ /\ s.f = h + 3 /\ s.ve = h + 1 /\ s.ss = h + 1 /\ s.se = h + 2
             /\ s.ps = h + 2 /\ s.pe = h + 3
          \/ /\ s.f = Len(v) + 1 /\ s.ve = h + 1 /\ s.ss = h + 1 /\ s.se = h + 2
             /\ s.ps = h + 2 /\ s.pe = h + 3 /\ s.is = h + 3 /\ KeyIsLast(v, h + 3)

LEMMA FirstHead == ASSUME NEW v \in Seq(Nal), v # <<>> PROVE 1 \in Heads(v) /\ Len(v) >= 1
<1>1. DOMAIN v = 1 .. Len(v) /\ Len(v) \in Nat /\ Len(v) # 0
  BY LenProperties, EmptySeq
<1>2. QED
  BY <1>1 DEF Heads

LEMMA Disjoint ==
  /\ {"p41", "other"} \cap Second = {} /\ {"other"} \cap Second = {}
  /\ "sps" \notin Second /\ "vps" \notin Second /\ "pps" \in Second /\ "sps5" \in Second
BY DEF Second

LEMMA Scan264 ==
  ASSUME NEW v \in Seq(Nal), v # <<>>, WholeGroups(v), v[1] = "sps",
         NEW s, Progress264(v, s), s.f <= Len(v)
  PROVE  Progress264(v, ScanOnce(v, s))
<1> DEFINE t == ScanOnce(v, s)
           J(i) == FirstAt(v, i + 1, {"sps5", "pps", "idr"})
<1> HIDE DEF t, J
<1> SUFFICES Progress264(v, t)
  BY DEF t
<1>1. 1 \in Heads(v) /\ Len(v) \in Nat /\ Len(v) >= 1
  BY FirstHead, LenProperties
<1>2. \A h \in Heads(v) : /\ h \in 1 .. Len(v) /\ h + 2 <= Len(v) /\ Head264(v, h)
                          /\ Follows(v, h + 3, {"p41", "other"})
  BY Group264
<1>3. CASE s = NotFound
  <2>1. s.f = 1 /\ s.vs = 0
    BY <1>3 DEF NotFound
  <2>2. 1 \in 1 .. Len(v) /\ 1 + 1 <= Len(v) /\ v[1 + 1] = "pps"
    BY <1>1, <1>2 DEF Head264
  <2>3. J(1) = 1 + 1
    BY <2>2, SecondNext DEF Second, J
  <2>4. t.f = 1 + 1 /\ t.vs = 0 /\ t.ss = 1 /\ t.se = 1 + 1
    BY <2>1, <2>2, <2>3, ScanFinds DEF t, J
  <2>5. QED
    BY <1>1, <2>4 DEF Progress264
<1>4. ASSUME NEW h \in Heads(v), s.vs = 0, s.ss = 1, s.f = h + 1, s.se = h + 1
      PROVE  Progress264(v, t)
  <2>0. h \in 1 .. Len(v) /\ h + 2 <= Len(v) /\ Head264(v, h)
    BY <1>2
  <2>1. /\ h + 1 \in 1 .. Len(v) /\ (h + 1) + 1 = h + 2 /\ h + 2 <= Len(v)
        /\ v[h + 1] = "pps" /\ v[h + 2] = "idr"
    BY <1>1, <2>0 DEF Head264
  <2>2. J(h + 1) = h + 2
    BY <2>1, SecondNext DEF Second, J
  <2>3. t.f = h + 2 /\ t.vs = 0 /\ t.ss = 1 /\ t.se = h + 1 /\ t.ps = h + 1 /\ t.pe = h + 2
    <3> DEFINE i == h + 1
               j == h + 2
    <3>1. /\ i \in 1 .. Len(v) /\ s.f = i /\ v[i] = "pps" /\ j <= Len(v) /\ v[j] = "idr"
          /\ j = FirstAt(v, i + 1, {"sps5", "pps", "idr"}) /\ s.vs = 0 /\ s.ss = 1 /\ s.se = i
      BY <1>4, <2>1, <2>2 DEF J
    <3> HIDE DEF i, j
    <3>2. t.f = j /\ t.vs = 0 /\ t.ss = 1 /\ t.se = i /\ t.ps = i /\ t.pe = j
      BY <3>1, ScanFinds DEF t
    <3>3. QED
      BY <3>2 DEF i, j
  <2>4. QED
    BY <2>3 DEF Progress264
<1>5. ASSUME NEW h \in Heads(v), s.vs = 0, s.ss = 1,
             s.f = h + 2, s.se = h + 1, s.ps = h + 1, s.pe = h + 2
      PROVE  Progress264(v, t)
  <2>0. h \in 1 .. Len(v) /\ h + 2 <= Len(v) /\ Head264(v, h)
    BY <1>2
  <2>1. h + 2 \in 1 .. Len(v) /\ (h + 2) + 1 = h + 3 /\ v[h + 2] = "idr"
    BY <1>1, <2>0 DEF Head264
  <2>2. ASSUME NEW g \in Heads(v)
        PROVE  g \in 1 .. Len(v) /\ g + 1 <= Len(v) /\ v[g + 1] = "pps"
    <3>1. g \in 1 .. Len(v) /\ g + 2 <= Len(v) /\ Head264(v, g)
      BY <1>2
    <3>2. QED
      BY <1>1, <3>1 DEF Head264
  <2>3. Follows(v, (h + 2) + 1, {"p41", "other"})
    BY <1>2, <2>1
  <2>4. \/ J(h + 2) = Len(v) + 1 /\ \A n \in (h + 2) + 1 .. Len(v) : v[n] # "idr"
        \/ \E g \in Heads(v) : J(h + 2) = g + 1
    BY <2>1, <2>2, <2>3, SecondFar, Disjoint DEF J
  <2>5. /\ t.f = J(h + 2) /\ t.vs = 0 /\ t.ss = 1 /\ t.ps = h + 1 /\ t.is = h + 2
        /\ J(h + 2) <= Len(v) => t.se = IF v[J(h + 2)] = "pps" THEN J(h + 2) ELSE s.se
        /\ ~(J(h + 2) <= Len(v)) => t.se = h + 1 /\ t.pe = h + 2
    BY <1>5, <2>1, ScanFinds DEF t, J
  <2>6. CASE J(h + 2) = Len(v) + 1 /\ \A n \in (h + 2) + 1 .. Len(v) : v[n] # "idr"
    <3>1. t.f = Len(v) + 1 /\ t.se = h + 1 /\ t.pe = h + 2 /\ KeyIsLast(v, h + 2)
      BY <1>1, <2>5, <2>6 DEF KeyIsLast
    <3>2. QED
      BY <2>5, <3>1 DEF Progress264
  <2>7. ASSUME NEW g \in Heads(v), J(h + 2) = g + 1 PROVE Progress264(v, t)
    <3>1. t.f = g + 1 /\ t.se = g + 1
      BY <2>2, <2>5, <2>7
    <3>2. QED
      BY <2>5, <3>1 DEF Progress264
  <2>8. QED
    BY <2>4, <2>6, <2>7
<1>6. QED
  BY <1>1, <1>3, <1>4, <1>5 DEF Progress264

LEMMA Scan265 ==
  ASSUME NEW v \in Seq(Nal), v # <<>>, WholeGroups(v), v[1] = "vps",
         NEW s, Progress265(v, s), s.f <= Len(v)
  PROVE  Progress265(v, ScanOnce(v, s))
<1> DEFINE t == ScanOnce(v, s)
           J(i) == FirstAt(v, i + 1, {"sps5", "pps", "idr"})
<1> HIDE DEF t, J
<1> SUFFICES Progress265(v, t)
  BY DEF t
<1>1. 1 \in Heads(v) /\ Len(v) \in Nat /\ Len(v) >= 1
  BY FirstHead, LenProperties
<1>2. \A h \in Heads(v) : /\ h \in 1 .. Len(v) /\ h + 3 <= Len(v) /\ Head265(v, h)
                          /\ Follows(v, h + 4, {"other"})
  BY Group265
<1>3. CASE s = NotFound
  <2>1. s.f = 1
    BY <1>3 DEF NotFound
  <2>2. 1 \in 1 .. Len(v) /\ 1 + 1 <= Len(v) /\ v[1 + 1] = "sps5"
    BY <1>1, <1>2 DEF Head265
  <2>3. J(1) = 1 + 1
    BY <2>2, SecondNext DEF Second, J
  <2>4. t.f = 1 + 1 /\ t.vs = 1 /\ t.ve = 1 + 1
    BY <2>1, <2>2, <2>3, ScanFinds DEF t, J
  <2>5. QED
    BY <1>1, <2>4 DEF Progress265
<1>4. ASSUME NEW h \in Heads(v), s.vs = 1, s.f = h + 1, s.ve = h + 1
      PROVE  Progress265(v, t)
  <2>0. h \in 1 .. Len(v) /\ h + 3 <= Len(v) /\ Head265(v, h)
    BY <1>2
  <2>1. /\ h + 1 \in 1 .. Len(v) /\ (h + 1) + 1 = h + 2 /\ h + 2 <= Len(v)
        /\ v[h + 1] = "sps5" /\ v[h + 2] = "pps"
    BY <1>1, <2>0 DEF Head265
  <2>2. J(h + 1) = h + 2
    BY <2>1, SecondNext DEF Second, J
  <2>3. t.f = h + 2 /\ t.vs = 1 /\ t.ve = h + 1 /\ t.ss = h + 1 /\ t.se = h + 2
    <3> DEFINE i == h + 1
               j == h + 2
    <3>1. /\ i \in 1 .. Len(v) /\ s.f = i /\ v[i] = "sps5" /\ j <= Len(v) /\ v[j] = "pps"
          /\ j = FirstAt(v, i + 1, {"sps5", "pps", "idr"}) /\ s.vs = 1 /\ s.ve = i
      BY <1>4, <2>1, <2>2 DEF J
    <3> HIDE DEF i, j
    <3>2. t.f = j /\ t.vs = 1 /\ t.ve = i /\ t.ss = i /\ t.se = j
      BY <3>1, ScanFinds DEF t
    <3>3. QED
      BY <3>2 DEF i, j
  <2>4. QED
    BY <2>3 DEF Progress265
<1>5. ASSUME NEW h \in Heads(v), s.vs = 1, s.f = h + 2, s.ve = h + 1, s.ss = h + 1, s.se = h + 2
      PROVE  Progress265(v, t)
  <2>0. h \in 1 .. Len(v) /\ h + 3 <= Len(v) /\ Head265(v, h)
    BY <1>2
  <2>1. /\ h + 2 \in 1 .. Len(v) /\ (h + 2) + 1 = h + 3 /\ h + 3 <= Len(v)
        /\ v[h + 2] = "pps" /\ v[h + 3] = "idr"
    BY <1>1, <2>0 DEF Head265
  <2>2. J(h + 2) = h + 3
    BY <2>1, SecondNext DEF Second, J
  <2>3. /\ t.f = h + 3 /\ t.vs = 1 /\ t.ve = h + 1 /\ t.ss = h + 1 /\ t.se = h + 2
        /\ t.ps = h + 2 /\ t.pe = h + 3
    BY <1>5, <2>1, <2>2, ScanFinds DEF t, J
  <2>4. QED
    BY <2>3 DEF Progress265
<1>6. ASSUME NEW h \in Heads(v), s.vs = 1, s.f = h + 3, s.ve = h + 1, s.ss = h + 1, s.se = h + 2,
             s.ps = h + 2, s.pe = h + 3
      PROVE  Progress265(v, t)
  <2>0. h \in 1 .. Len(v) /\ h + 3 <= Len(v) /\ Head265(v, h)
    BY <1>2
  <2>1. h + 3 \in 1 .. Len(v) /\ (h + 3) + 1 = h + 4 /\ v[h + 3] = "idr"
    BY <1>1, <2>0 DEF Head265
  <2>2. ASSUME NEW g \in Heads(v)
        PROVE  g \in 1 .. Len(v) /\ g + 1 <= Len(v) /\ v[g + 1] = "sps5"
    <3>1. g \in 1 .. Len(v) /\ g + 3 <= Len(v) /\ Head265(v, g)
      BY <1>2
    <3>2. QED
      BY <1>1, <3>1 DEF Head265
  <2>3. Follows(v, (h + 3) + 1, {"other"})
    BY <1>2, <2>1
  <2>4. \/ J(h + 3) = Len(v) + 1 /\ \A n \in (h + 3) + 1 .. Len(v) : v[n] # "idr"
        \/ \E g \in Heads(v) : J(h + 3) = g + 1
    BY <2>1, <2>2, <2>3, SecondFar, Disjoint DEF J
  <2>5. /\ t.f = J(h + 3) /\ t.vs = 1 /\ t.ss = h + 1 /\ t.ps = h + 2 /\ t.is = h + 3
        /\ J(h + 3) <= Len(v) => t.ve = IF v[J(h + 3)] = "sps5" THEN J(h + 3) ELSE s.ve
        /\ ~(J(h + 3) <= Len(v)) => t.ve = h + 1 /\ t.se = h + 2 /\ t.pe = h + 3
    <3> DEFINE i == h + 3
               j == J(i)
    <3>1. /\ i \in 1 .. Len(v) /\ s.f = i /\ v[i] = "idr"
          /\ j = FirstAt(v, i + 1, {"sps5", "pps", "idr"})
      BY <1>6, <2>1 DEF J
    <3> HIDE DEF i, j
    <3>2. /\ t.f = j /\ t.vs = s.vs /\ t.ss = s.ss /\ t.ps = s.ps /\ t.is = i
          /\ j <= Len(v) => t.ve = IF v[j] = "sps5" THEN j ELSE s.ve
          /\ ~(j <= Len(v)) => t.ve = s.ve /\ t.se = s.se /\ t.pe = s.pe
      BY <3>1, ScanFinds DEF t
    <3>3. QED
      BY <1>6, <3>2 DEF i, j
  <2>6. CASE J(h + 3) = Len(v) + 1 /\ \A n \in (h + 3) + 1 .. Len(v) : v[n] # "idr"
    <3>1. /\ t.f = Len(v) + 1 /\ t.ve = h + 1 /\ t.se = h + 2 /\ t.pe = h + 3
          /\ KeyIsLast(v, h + 3)
      BY <1>1, <2>5, <2>6 DEF KeyIsLast
    <3>2. QED
      BY <2>5, <3>1 DEF Progress265
  <2>7. ASSUME NEW g \in Heads(v), J(h + 3) = g + 1 PROVE Progress265(v, t)
    <3>1. t.f = g + 1 /\ t.ve = g + 1
      BY <2>2, <2>5, <2>7
    <3>2. QED
      BY <2>5, <3>1 DEF Progress265
  <2>8. QED
    BY <2>4, <2>6, <2>7
<1>7. QED
  BY <1>1, <1>3, <1>4, <1>5, <1>6 DEF Progress265

-----------------------------------------------------------------------------
(* At the end of the search the decoder's packet is the whole recording.   *)
LEMMA Reversed ==
  ASSUME NEW v \in Seq(Nal), NEW n \in 1 .. Len(v)
  PROVE  IsSuffix(SubSeq(v, n, Len(v)), v)
<1> DEFINE L == Len(v)
           u == SubSeq(v, n, L)
           k == L - n + 1
           ru == Reverse(u)
           rv == Reverse(v)
<1>1. L \in Nat /\ n \in Nat /\ k \in 1 .. L /\ n \in 1 .. L
  BY LenProperties
<1>2. Len(u) = k /\ \A i \in 1 .. k : u[i] = v[n + i - 1]
  <2>1. \A i \in n .. L : v[i] \in Nal
    BY <1>1, ElementOfSeq
  <2>2. n \in Int /\ L \in Int /\ n <= L
    BY <1>1
  <2> HIDE DEF L
  <2>3. QED
    BY <2>1, <2>2, SubSeqProperties
<1>3. ru = [i \in 1 .. k |-> u[k - i + 1]] /\ rv = [i \in 1 .. L |-> v[L - i + 1]]
  BY <1>2 DEF Reverse
<1>4. ru \in Seq(Nal) /\ rv \in Seq(Nal) /\ Len(ru) = k /\ Len(rv) = L
  <2>1. \A i \in 1 .. L : v[i] \in Nal
    BY ElementOfSeq
  <2> HIDE DEF L, k, u, ru, rv
  <2>2. \A i \in 1 .. k : k - i + 1 \in 1 .. k /\ n + (k - i + 1) - 1 \in 1 .. L
    BY <1>1 DEF k
  <2>3. \A i \in 1 .. k : u[k - i + 1] \in Nal
    BY <1>2, <2>1, <2>2
  <2>4. \A i \in 1 .. L : v[L - i + 1] \in Nal
    BY <1>1, <2>1
  <2>5. ru \in Seq(Nal) /\ Len(ru) = k
    BY <1>1, <1>3, <2>3
  <2>6. rv \in Seq(Nal) /\ Len(rv) = L
    BY <1>1, <1>3, <2>4
  <2>7. QED
    BY <2>5, <2>6
<1>5. \A i \in 1 .. k : ru[i] = rv[i]
  <2>1. ASSUME NEW i \in 1 .. k PROVE ru[i] = rv[i]
    <3>1. k - i + 1 \in 1 .. k /\ n + (k - i + 1) - 1 = L - i + 1 /\ i \in 1 .. L
      BY <1>1
    <3>2. ru[i] = u[k - i + 1] /\ rv[i] = v[L - i + 1]
      <4> HIDE DEF L, k, u, ru, rv
      <4>1. QED
        BY <1>3, <3>1
    <3>3. u[k - i + 1] = v[n + (k - i + 1) - 1]
      <4> HIDE DEF L, k, u
      <4>1. QED
        BY <1>2, <3>1
    <3>4. QED
      <4> HIDE DEF L, k, u, ru, rv
      <4>1. QED
        BY <3>1, <3>2, <3>3
  <2>2. QED
    BY <2>1
<1> HIDE DEF L, k, u, ru, rv
<1>6. SubSeq(ru, 1, k) = ru
  BY <1>4, SubSeqFull
<1>7. SubSeq(rv, 1, k) = ru
  <2> DEFINE w == SubSeq(rv, 1, k)
  <2>1. \A i \in 1 .. k : rv[i] \in Nal
    BY <1>1, <1>4, ElementOfSeq
  <2>2. 1 \in Int /\ k \in Int /\ 1 <= k /\ k - 1 + 1 = k
    BY <1>1
  <2>3. w \in Seq(Nal) /\ Len(w) = k /\ \A i \in 1 .. k : w[i] = rv[1 + i - 1]
    BY <2>1, <2>2, SubSeqProperties
  <2> HIDE DEF w
  <2>4. \A i \in 1 .. Len(w) : w[i] = ru[i]
    BY <1>5, <2>2, <2>3
  <2>5. w = ru
    BY <1>4, <2>3, <2>4, SeqEqual
  <2>6. QED
    BY <2>5 DEF w
<1>8. Len(ru) <= Len(rv) /\ SubSeq(ru, 1, Len(ru)) = SubSeq(rv, 1, Len(ru))
  BY <1>1, <1>4, <1>6, <1>7
<1>9. QED
  BY <1>8 DEF IsSuffix, IsPrefix, ru, rv, u, L

LEMMA Joined ==
  ASSUME NEW v \in Seq(Nal), NEW a \in 0 .. Len(v), NEW b \in a .. Len(v)
  PROVE  SubSeq(v, 1, a) \o SubSeq(v, a + 1, b) = SubSeq(v, 1, b)
<1>1. 1 \in 1 .. Len(v) + 1 /\ a \in 1 - 1 .. Len(v)
  BY LenProperties
<1>2. QED
  BY <1>1, ConcatAdjacentSubSeq

LEMMA Packet264 ==
  ASSUME NEW v \in Seq(Nal), NEW s, NEW h \in 1 .. Len(v), h + 2 <= Len(v), s.vs = 0, s.ss = 1,
         s.se = h + 1, s.ps = h + 1, s.pe = h + 2, s.is = h + 2
  PROVE  Packet(v, s) = v /\ ~Hevc(s)
<1>1. ~Hevc(s)
  BY DEF Hevc
<1>2. s.se - 1 = h /\ s.pe - 1 = h + 1 /\ (h + 1) + 1 = h + 2 /\ Len(v) \in Nat
  BY LenProperties
<1>3. /\ h \in 0 .. Len(v) /\ h + 1 \in h .. Len(v) /\ h + 1 \in 0 .. Len(v)
      /\ Len(v) \in h + 1 .. Len(v)
  BY <1>2
<1> DEFINE one == SubSeq(v, 1, h)
           two == SubSeq(v, h + 1, h + 1)
           three == SubSeq(v, h + 2, Len(v))
<1>4. one \in Seq(Nal)
  <2>1. \A i \in 1 .. h : v[i] \in Nal
    BY <1>2, ElementOfSeq
  <2>2. 1 \in Int /\ h \in Int
    OBVIOUS
  <2>3. QED
    BY <2>1, <2>2, SubSeqProperties
<1>5. Packet(v, s) = ((<<>> \o one) \o two) \o three
  BY <1>1, <1>2 DEF Packet
<1>6. one \o two = SubSeq(v, 1, h + 1)
  BY <1>3, Joined
<1>7. SubSeq(v, 1, h + 1) \o three = SubSeq(v, 1, Len(v))
  BY <1>2, <1>3, Joined
<1> HIDE DEF one, two, three
<1>8. <<>> \o one = one
  BY <1>4, ConcatEmptySeq
<1>9. QED
  BY <1>1, <1>5, <1>6, <1>7, <1>8, SubSeqFull

LEMMA Packet265 ==
  ASSUME NEW v \in Seq(Nal), NEW s, NEW h \in 1 .. Len(v), h + 3 <= Len(v), s.vs = 1, s.ve = h + 1,
         s.ss = h + 1, s.se = h + 2, s.ps = h + 2, s.pe = h + 3, s.is = h + 3
  PROVE  Packet(v, s) = v /\ Hevc(s)
<1>1. Hevc(s)
  BY DEF Hevc
<1>2. /\ s.ve - 1 = h /\ s.se - 1 = h + 1 /\ s.pe - 1 = h + 2
      /\ (h + 1) + 1 = h + 2 /\ (h + 2) + 1 = h + 3 /\ Len(v) \in Nat
  BY LenProperties
<1>3. /\ h \in 0 .. Len(v) /\ h + 1 \in h .. Len(v) /\ h + 1 \in 0 .. Len(v)
      /\ h + 2 \in h + 1 .. Len(v) /\ h + 2 \in 0 .. Len(v) /\ Len(v) \in h + 2 .. Len(v)
  BY <1>2
<1> DEFINE one == SubSeq(v, 1, h)
           two == SubSeq(v, h + 1, h + 1)
           three == SubSeq(v, h + 2, h + 2)
           four == SubSeq(v, h + 3, Len(v))
<1>4. Packet(v, s) = ((one \o two) \o three) \o four
  BY <1>1, <1>2 DEF Packet
<1>5. one \o two = SubSeq(v, 1, h + 1)
  BY <1>3, Joined
<1>6. SubSeq(v, 1, h + 1) \o three = SubSeq(v, 1, h + 2)
  BY <1>2, <1>3, Joined
<1>7. SubSeq(v, 1, h + 2) \o four = SubSeq(v, 1, Len(v))
  BY <1>2, <1>3, Joined
<1> HIDE DEF one, two, three, four
<1>8. QED
  BY <1>1, <1>4, <1>5, <1>6, <1>7, SubSeqFull

LEMMA LastKeyIs ==
  ASSUME NEW v \in Seq(Nal), NEW n \in 1 .. Len(v), v[n] = "idr", KeyIsLast(v, n)
  PROVE  LastKey(v) = n
<1> DEFINE Key(k) == v[k] = "idr" /\ \A m \in k + 1 .. Len(v) : v[m] # "idr"
<1>1. DOMAIN v = 1 .. Len(v) /\ Len(v) \in Nat
  BY LenProperties
<1>2. n \in DOMAIN v /\ Key(n)
  BY <1>1 DEF KeyIsLast
<1>3. LastKey(v) \in DOMAIN v /\ Key(LastKey(v))
  BY <1>2 DEF LastKey
<1> DEFINE c == LastKey(v)
<1> HIDE DEF c
<1>4. c \in 1 .. Len(v) /\ Key(c)
  BY <1>1, <1>3 DEF c
<1>5. ~(c < n) /\ ~(n < c)
  BY <1>1, <1>2, <1>4
<1>6. c = n
  BY <1>4, <1>5
<1>7. QED
  BY <1>6 DEF c

(* What KeyPicture says of a search that is over. *)
Right(v, s) ==
  /\ Found(s) /\ Hevc(s) = (v[1] = "vps") /\ Packet(v, s)[1] = v[1]
  /\ IsSuffix(SubSeq(v, LastKey(v) - 1, Len(v)), Packet(v, s))

LEMMA Done264 ==
  ASSUME NEW v \in Seq(Nal), v # <<>>, WholeGroups(v), v[1] = "sps",
         NEW s, Progress264(v, s), s.f > Len(v)
  PROVE  Right(v, s)
<1>1. 1 \in Heads(v) /\ Len(v) \in Nat /\ Len(v) >= 1
  BY FirstHead, LenProperties
<1>2. s # NotFound
  BY <1>1 DEF NotFound
<1>3. \A h \in Heads(v) : h \in 1 .. Len(v) /\ h + 2 <= Len(v) /\ Head264(v, h)
  BY Group264
<1>4. PICK h \in Heads(v) :
        /\ s.vs = 0 /\ s.ss = 1 /\ s.f = Len(v) + 1 /\ s.se = h + 1 /\ s.ps = h + 1
        /\ s.pe = h + 2 /\ s.is = h + 2 /\ KeyIsLast(v, h + 2)
  BY <1>1, <1>2, <1>3 DEF Progress264
<1>5. h \in 1 .. Len(v) /\ h + 2 <= Len(v) /\ v[h + 2] = "idr"
  BY <1>3 DEF Head264
<1>6. Packet(v, s) = v /\ ~Hevc(s)
  BY <1>4, <1>5, Packet264
<1>7. h + 2 \in 1 .. Len(v) /\ (h + 2) - 1 \in 1 .. Len(v)
  BY <1>1, <1>5
<1>8. LastKey(v) = h + 2
  BY <1>4, <1>5, <1>7, LastKeyIs
<1>9. IsSuffix(SubSeq(v, LastKey(v) - 1, Len(v)), v)
  BY <1>7, <1>8, Reversed
<1>10. Found(s)
  BY <1>4, <1>5 DEF Found
<1>11. Hevc(s) = (v[1] = "vps")
  BY <1>6 DEF Hevc
<1>12. QED
  BY <1>6, <1>9, <1>10, <1>11 DEF Right

LEMMA Done265 ==
  ASSUME NEW v \in Seq(Nal), v # <<>>, WholeGroups(v), v[1] = "vps",
         NEW s, Progress265(v, s), s.f > Len(v)
  PROVE  Right(v, s)
<1>1. 1 \in Heads(v) /\ Len(v) \in Nat /\ Len(v) >= 1
  BY FirstHead, LenProperties
<1>2. s # NotFound
  BY <1>1 DEF NotFound
<1>3. \A h \in Heads(v) : h \in 1 .. Len(v) /\ h + 3 <= Len(v) /\ Head265(v, h)
  BY Group265
<1>4. PICK h \in Heads(v) :
        /\ s.vs = 1 /\ s.f = Len(v) + 1 /\ s.ve = h + 1 /\ s.ss = h + 1 /\ s.se = h + 2
        /\ s.ps = h + 2 /\ s.pe = h + 3 /\ s.is = h + 3 /\ KeyIsLast(v, h + 3)
  BY <1>1, <1>2, <1>3 DEF Progress265
<1>5. h \in 1 .. Len(v) /\ h + 3 <= Len(v) /\ v[h + 3] = "idr"
  BY <1>3 DEF Head265
<1>6. Packet(v, s) = v /\ Hevc(s)
  BY <1>4, <1>5, Packet265
<1>7. h + 3 \in 1 .. Len(v) /\ (h + 3) - 1 \in 1 .. Len(v)
  BY <1>1, <1>5
<1>8. LastKey(v) = h + 3
  BY <1>4, <1>5, <1>7, LastKeyIs
<1>9. IsSuffix(SubSeq(v, LastKey(v) - 1, Len(v)), v)
  BY <1>7, <1>8, Reversed
<1>10. Found(s)
  BY <1>4, <1>5 DEF Found
<1>11. Hevc(s) = (v[1] = "vps")
  BY <1>6 DEF Hevc
<1>12. QED
  BY <1>6, <1>9, <1>10, <1>11 DEF Right

-----------------------------------------------------------------------------
(* The search over the steps of Snapshot: the recording stays as long as   *)
(* its imggrabber lives.                                                   *)
Progress(v, s) == IF v[1] = "sps" THEN Progress264(v, s) ELSE Progress265(v, s)

KInv ==
  /\ pc \in [Proc -> PC]
  /\ Alive(Thumb) => script = "wait"
  /\ video \in Video \cup {None}
  /\ pc[Thumb] = "scan" /\ video # None /\ WholeGroups(video) => Progress(video, scan)

LEMMA Recording ==
  ASSUME NEW v \in Video, WholeGroups(v)
  PROVE  v \in Seq(Nal) /\ v # <<>> /\ (v[1] = "sps" <=> v[1] # "vps")
BY SnapshotAssumption DEF WholeGroups

LEMMA ScanGoesOn ==
  ASSUME NEW v \in Video, WholeGroups(v), NEW s, Progress(v, s), s.f <= Len(v)
  PROVE  Progress(v, ScanOnce(v, s))
BY Recording, Scan264, Scan265 DEF Progress

LEMMA InitiallyK == Init => KInv
BY DEF Init, KInv, Alive, PC, Proc

(* A step that neither starts the thumbnail's imggrabber nor its search.   *)
LEMMA KStill ==
  ASSUME KInv, pc' \in [Proc -> PC], Alive(Thumb)' => Alive(Thumb),
         pc'[Thumb] = "scan" => pc[Thumb] = "scan" /\ UNCHANGED scan, UNCHANGED <<script, video>>
  PROVE  KInv'
<1>1. (Alive(Thumb) => script = "wait")' /\ (video \in Video \cup {None})'
  BY DEF KInv
<1>2. (pc[Thumb] = "scan" /\ video # None /\ WholeGroups(video) => Progress(video, scan))'
  BY DEF KInv
<1>3. QED
  BY <1>1, <1>2 DEF KInv

LEMMA KPlaces ==
  ASSUME KInv, NEW p \in Proc, Grab(p)
  PROVE  \E l \in PC \ {"scan"} : (Alive(p) /\ pc' = [pc EXCEPT ![p] = l]) \/ pc' = pc
<1>1. CASE Markers(p)
  BY <1>1 DEF Markers, Exit, Goto, Alive, PC
<1>2. CASE Look(p)
  BY <1>2 DEF Look, Exit, Alive, PC
<1>3. CASE Begin(p)
  BY <1>3 DEF Begin, Goto, Alive, PC
<1>4. CASE Compare(p)
  BY <1>4 DEF Compare, Exit, Alive, PC
<1>5. CASE Map(p)
  BY <1>5 DEF Map, Exit, Goto, Alive, PC
<1>6. QED
  BY <1>1, <1>2, <1>3, <1>4, <1>5 DEF Grab

LEMMA KWorking == ASSUME KInv, NEW p \in Proc, Working(p) PROVE KInv'
<1>1. /\ pc \in [Proc -> PC] /\ Thumb \in Proc /\ UNCHANGED <<script, video>>
      /\ (Alive(Thumb) => script = "wait") /\ video \in Video \cup {None}
  BY DEF KInv, Working, thumb, Proc
<1>2. CASE CopyPoint(p) /\ UNCHANGED scan
  <2>1. pc' = pc /\ scan' = scan
    BY <1>2 DEF CopyPoint
  <2>2. QED
    BY <1>1, <2>1, KStill DEF Alive
<1>3. CASE Grab(p) /\ UNCHANGED scan
  <2>1. PICK l \in PC \ {"scan"} : (Alive(p) /\ pc' = [pc EXCEPT ![p] = l]) \/ pc' = pc
    BY <1>3, KPlaces
  <2>2. pc' \in [Proc -> PC] /\ (Alive(Thumb)' => Alive(Thumb))
    BY <1>1, <2>1 DEF Alive
  <2>3. pc'[Thumb] = "scan" => pc[Thumb] = "scan"
    BY <1>1, <2>1
  <2>4. QED
    BY <1>1, <1>3, <2>2, <2>3, KStill
<1>4. CASE OpenVideo
  <2>1. Alive(Thumb)
    BY <1>4 DEF OpenVideo, Alive
  <2>2. CASE video = None
    <3>1. pc' = [pc EXCEPT ![Thumb] = "off"]
      BY <1>4, <2>2 DEF OpenVideo, Exit
    <3>2. QED
      BY <1>1, <2>1, <3>1, KStill DEF PC
  <2>3. CASE video # None
    <3>1. pc' = [pc EXCEPT ![Thumb] = "scan"] /\ scan' = NotFound
      BY <1>4, <2>3 DEF OpenVideo, Goto
    <3>2. Progress(video', scan')
      BY <3>1 DEF Progress, Progress264, Progress265
    <3>3. pc' \in [Proc -> PC]
      BY <1>1, <3>1 DEF PC
    <3>4. QED
      BY <1>1, <2>1, <3>2, <3>3 DEF KInv, Alive
  <2>4. QED
    BY <2>2, <2>3
<1>5. CASE Scan
  <2>1. pc[Thumb] = "scan" /\ scan.f <= Len(video) /\ scan' = ScanOnce(video, scan) /\ pc' = pc
    BY <1>5 DEF Scan
  <2>2. video # None /\ WholeGroups(video) => Progress(video, ScanOnce(video, scan))
    BY <1>1, <2>1, ScanGoesOn DEF KInv
  <2>3. (pc[Thumb] = "scan" /\ video # None /\ WholeGroups(video) => Progress(video, scan))'
    BY <1>1, <2>1, <2>2
  <2>4. QED
    BY <1>1, <2>1, <2>3 DEF KInv, Alive
<1>6. CASE Decode
  <2>1. pc' = [pc EXCEPT ![Thumb] = "off"]
    BY <1>6 DEF Decode, Exit
  <2>2. pc' \in [Proc -> PC] /\ pc'[Thumb] = "off"
    BY <1>1, <2>1 DEF PC
  <2>3. QED
    BY <1>1, <2>2, KStill DEF Alive
<1>7. QED
  BY <1>2, <1>3, <1>4, <1>5, <1>6 DEF Working

LEMMA KInductive == KInv /\ [Next]_vars => KInv'
<1> SUFFICES ASSUME KInv, [Next]_vars PROVE KInv'
  OBVIOUS
<1>1. /\ pc \in [Proc -> PC] /\ Thumb \in Proc /\ (Alive(Thumb) => script = "wait")
      /\ video \in Video \cup {None}
  BY DEF KInv, Proc
<1>2. ASSUME UNCHANGED <<pc, scan, script, video>> PROVE KInv'
  BY <1>1, <1>2, KStill DEF Alive
<1>3. CASE UNCHANGED vars
  BY <1>2, <1>3 DEF vars, thumb
<1>4. CASE StorePoint \/ Privacy
  BY <1>2, <1>4 DEF StorePoint, Privacy, thumb
<1>5. CASE List \/ Demux \/ Wait
  <2>1. pc' = pc /\ ~Alive(Thumb) /\ video' \in Video \cup {None}
    BY <1>1, <1>5 DEF List, Demux, Wait, Keep
  <2>2. pc'[Thumb] = "off" /\ ~Alive(Thumb)'
    BY <2>1 DEF Alive
  <2>3. QED
    BY <1>1, <2>1, <2>2 DEF KInv
<1>6. CASE Run
  <2>1. pc' = [pc EXCEPT ![Thumb] = "markers"] /\ script' = "wait" /\ video' = video
    BY <1>6 DEF Run, Start
  <2>2. pc' \in [Proc -> PC] /\ pc'[Thumb] = "markers"
    BY <1>1, <2>1 DEF PC
  <2>3. QED
    BY <1>1, <2>1, <2>2 DEF KInv
<1>7. ASSUME NEW v \in Viewer, Request(v) PROVE KInv'
  <2>1. /\ pc' = [pc EXCEPT ![v] = "markers"] /\ UNCHANGED <<scan, script, video>>
        /\ v \in Proc /\ v # Thumb
    BY <1>7, SnapshotAssumption DEF Request, Start, thumb, Proc
  <2>2. pc' \in [Proc -> PC] /\ pc'[Thumb] = pc[Thumb]
    BY <1>1, <2>1 DEF PC
  <2>3. QED
    BY <2>1, <2>2, KStill DEF Alive
<1>8. ASSUME NEW p \in Proc, Working(p) PROVE KInv'
  BY <1>8, KWorking
<1>9. QED
  BY <1>3, <1>4, <1>5, <1>6, <1>7, <1>8 DEF Next, Script

(* For recordings of any number of groups of any length, of either codec:  *)
(* when the search is over the decoder gets parameter sets first and the   *)
(* last key picture directly behind its own picture parameters.            *)
THEOREM LastKeyPictureFound == Spec => []KeyPicture
<1>1. KInv => KeyPicture
  <2>1. SUFFICES ASSUME KInv, Scanned, WholeGroups(video) PROVE Right(video, scan)
    BY DEF KeyPicture, Right
  <2>2. video \in Video /\ Progress(video, scan) /\ scan.f > Len(video)
    BY <2>1 DEF KInv, Scanned
  <2>3. video[1] \in {"sps", "vps"}
    BY <2>1 DEF WholeGroups
  <2>4. QED
    BY <2>1, <2>2, <2>3, Recording, Done264, Done265 DEF Progress
<1>2. QED
  BY InitiallyK, KInductive, <1>1, PTL DEF Spec

-----------------------------------------------------------------------------
(* Division with remainder.                                                *)
LEMMA TurnBounds ==
  ASSUME NEW C \in Nat \ {0}, NEW k \in Int
  PROVE  (k >= 1 => k * C >= C) /\ (k <= -1 => k * C <= -C)
<1>1. k >= 1 => k * C >= C
  OBVIOUS
<1>2. k <= -1 => k * C <= -C
  OBVIOUS
<1>3. QED
  BY <1>1, <1>2

LEMMA SameParts ==
  ASSUME NEW C \in Nat \ {0}, NEW a \in Int, NEW b \in Int, NEW r \in 0 .. C - 1, NEW s \in 0 .. C - 1,
         a * C + r = b * C + s
  PROVE  a = b /\ r = s
<1>1. (a - b) * C = s - r
  <2>1. (a - b) * C = a * C - b * C /\ a * C \in Int /\ b * C \in Int
    OBVIOUS
  <2>2. QED
    BY <2>1
<1>2. (a - b) * C < C /\ (a - b) * C > -C
  BY <1>1
<1>3. a - b \in Int /\ a - b = 0
  BY <1>2, TurnBounds
<1>4. a = b
  BY <1>3
<1>5. a * C \in Int /\ a * C = b * C
  BY <1>4
<1>6. QED
  BY <1>4, <1>5

LEMMA Split ==
  ASSUME NEW C \in Nat \ {0}, NEW n \in Nat
  PROVE  n \div C \in Nat /\ n % C \in 0 .. C - 1 /\ n = (n \div C) * C + (n % C)
<1>1. n \div C \in Int /\ n % C \in 0 .. C - 1 /\ n = (n \div C) * C + (n % C)
  OBVIOUS
<1> DEFINE p == n \div C
           r == n % C
<1>2. p \in Int /\ r \in 0 .. C - 1 /\ n = p * C + r
  BY <1>1
<1> HIDE DEF p, r
<1>3. p \in Nat
  BY <1>2, TurnBounds
<1>4. QED
  BY <1>1, <1>3 DEF p

LEMMA Parts ==
  ASSUME NEW C \in Nat \ {0}, NEW a \in Nat, NEW r \in 0 .. C - 1
  PROVE  (a * C + r) \div C = a /\ (a * C + r) % C = r
<1> DEFINE n == a * C + r
           p == n \div C
           s == n % C
<1>1. n \in Nat
  <2>1. a * C \in Nat
    OBVIOUS
  <2>2. QED
    BY <2>1
<1>2. n = a * C + r
  OBVIOUS
<1> HIDE DEF n
<1>3. p \in Nat /\ s \in 0 .. C - 1 /\ n = p * C + s
  BY <1>1, Split
<1> HIDE DEF p, s
<1>4. p = a /\ s = r
  <2>1. p * C + s = a * C + r
    BY <1>2, <1>3
  <2>2. QED
    BY <1>3, <2>1, SameParts
<1>5. QED
  BY <1>4 DEF n, p, s

LEMMA Rows ==
  ASSUME NEW C \in Nat \ {0}, NEW W \in Nat, NEW a \in 0 .. W - 1, NEW r \in 0 .. C - 1
  PROVE  a * C + r \in 0 .. W * C - 1
<1>1. a * C \in Nat /\ W * C \in Nat
  OBVIOUS
<1>2. W - 1 - a \in Nat /\ (W - 1 - a) * C \in Nat
  OBVIOUS
<1>3. (W - 1 - a) * C = W * C - C - a * C
  OBVIOUS
<1>4. QED
  BY <1>1, <1>2, <1>3

LEMMA InRows ==
  ASSUME NEW C \in Nat \ {0}, NEW W \in Nat, NEW n \in 0 .. W * C - 1
  PROVE  n \div C \in 0 .. W - 1
<1> DEFINE p == n \div C
           r == n % C
<1>1. n \in Nat /\ W * C \in Nat
  OBVIOUS
<1>2. p \in Nat /\ r \in 0 .. C - 1 /\ n = p * C + r
  BY <1>1, Split
<1> HIDE DEF p, r
<1>3. ASSUME p >= W PROVE FALSE
  <2>1. p - W \in Nat /\ (p - W) * C \in Nat /\ (p - W) * C = p * C - W * C
    BY <1>2, <1>3
  <2>2. QED
    BY <1>1, <1>2, <2>1
<1>4. QED
  BY <1>2, <1>3 DEF p

-----------------------------------------------------------------------------
(* The conversions in place.  After i strips the first i are what they     *)
(* will be and the rest of the buffer is untouched.                        *)
OneToOne(dest, len) ==
  \A m, n \in 0 .. len - 1 : dest[m] = dest[n] => m = n

LEMMA StripDomain ==
  ASSUME NEW buf, NEW in, NEW to, NEW len, NEW dest
  PROVE  /\ DOMAIN Strip(buf, in, to, len, dest) = DOMAIN buf
         /\ \A a \in DOMAIN buf : a \notin to .. to + len - 1
              => Strip(buf, in, to, len, dest)[a] = buf[a]
BY DEF Strip

Delivered(b, buf, in, to, len, dest) ==
  \A m \in 0 .. len - 1 :
    dest[m] \in 0 .. len - 1 /\ to + dest[m] \in DOMAIN buf => b[to + dest[m]] = buf[in + m]

LEMMA StripMoves ==
  ASSUME NEW buf, NEW in \in Nat, NEW to \in Nat, NEW len \in Nat, NEW dest, OneToOne(dest, len)
  PROVE  Delivered(Strip(buf, in, to, len, dest), buf, in, to, len, dest)
<1> SUFFICES ASSUME NEW m \in 0 .. len - 1, dest[m] \in 0 .. len - 1, to + dest[m] \in DOMAIN buf
             PROVE  Strip(buf, in, to, len, dest)[to + dest[m]] = buf[in + m]
  BY DEF Delivered
<1> DEFINE d == dest[m]
           a == to + d
           x == in + m
           Source(y) == IF \E n \in 0 .. len - 1 : dest[n] = y
                       THEN buf[in + CHOOSE n \in 0 .. len - 1 : dest[n] = y] ELSE Garbage
<1>1. (CHOOSE n \in 0 .. len - 1 : dest[n] = d) = m
  BY DEF OneToOne
<1>2. Source(d) = buf[x]
  BY <1>1
<1>3. a \in to .. to + len - 1 /\ a - to = d
  OBVIOUS
<1>4. Strip(buf, in, to, len, dest)[a] = Source(a - to)
  BY <1>3 DEF Strip
<1> HIDE DEF d, a, x, Source
<1>5. Strip(buf, in, to, len, dest)[a] = buf[x]
  BY <1>2, <1>3, <1>4
<1>6. QED
  BY <1>5 DEF d, a, x

AfterStrip(buf, in, to, len, dest, f, i) ==
  IF i = 0 THEN buf ELSE Strip(f[i - 1], in + (i - 1) * len, to + (i - 1) * len, len, dest)
After(buf, n, in, to, len, dest) ==
  CHOOSE f : f = [i \in 0 .. n |-> AfterStrip(buf, in, to, len, dest, f, i)]

LEMMA StripsAfter ==
  ASSUME NEW buf, NEW n, NEW in, NEW to, NEW len, NEW dest
  PROVE  Strips(buf, n, in, to, len, dest) = After(buf, n, in, to, len, dest)[n]
BY DEF Strips, After, AfterStrip

LEMMA AfterExists ==
  ASSUME NEW buf, NEW n \in Nat, NEW in, NEW to, NEW len, NEW dest
  PROVE  \E f : f = [i \in 0 .. n |-> AfterStrip(buf, in, to, len, dest, f, i)]
<1> DEFINE Following(f, i) == AfterStrip(buf, in, to, len, dest, f, i)
           T == {j \in Nat : ~\E f : f = [i \in 0 .. j |-> Following(f, i)]}
<1>1. SUFFICES ASSUME T # {} PROVE FALSE
  OBVIOUS
<1>2. PICK j \in T : \A i \in T : j <= i
  BY <1>1, LeastNumber
<1>3. CASE j = 0
  <2> DEFINE g == [i \in 0 .. 0 |-> buf]
  <2>1. g = [i \in 0 .. 0 |-> Following(g, i)]
    BY DEF AfterStrip
  <2>2. QED
    BY <1>2, <1>3, <2>1
<1>4. CASE j # 0
  <2>1. j - 1 \in Nat /\ j - 1 \notin T
    BY <1>2, <1>4
  <2>2. PICK f : f = [i \in 0 .. j - 1 |-> Following(f, i)]
    BY <2>1
  <2> DEFINE g == [i \in 0 .. j |-> Following(f, i)]
  <2>3. \A i \in 0 .. j - 1 : g[i] = f[i]
    BY <2>2
  <2>4. \A i \in 0 .. j : Following(g, i) = Following(f, i)
    <3>1. j \in Nat
      BY <1>2
    <3> HIDE DEF T, g
    <3>2. ASSUME NEW i \in 0 .. j, i # 0 PROVE g[i - 1] = f[i - 1]
      BY <2>3, <3>1, <3>2
    <3>3. ASSUME NEW i \in 0 .. j, i # 0 PROVE Following(g, i) = Following(f, i)
      BY <3>2, <3>3 DEF AfterStrip
    <3>4. Following(g, 0) = Following(f, 0)
      BY DEF AfterStrip
    <3>5. QED
      BY <3>3, <3>4
  <2>5. g = [i \in 0 .. j |-> Following(g, i)]
    BY <2>4
  <2>6. QED
    BY <1>2, <2>5
<1>5. QED
  BY <1>3, <1>4

LEMMA AfterIs ==
  ASSUME NEW buf, NEW n \in Nat, NEW in, NEW to, NEW len, NEW dest, NEW f,
         f = After(buf, n, in, to, len, dest)
  PROVE  /\ f[0] = buf
         /\ \A i \in 1 .. n :
              f[i] = Strip(f[i - 1], in + (i - 1) * len, to + (i - 1) * len, len, dest)
<1>1. f = [i \in 0 .. n |-> AfterStrip(buf, in, to, len, dest, f, i)]
  BY AfterExists DEF After
<1>2. \A i \in 0 .. n : f[i] = AfterStrip(buf, in, to, len, dest, f, i)
  BY <1>1
<1>3. f[0] = buf
  BY <1>2 DEF AfterStrip
<1>4. ASSUME NEW i \in 1 .. n
      PROVE  f[i] = Strip(f[i - 1], in + (i - 1) * len, to + (i - 1) * len, len, dest)
  <2>1. i \in 0 .. n /\ i # 0
    OBVIOUS
  <2>2. QED
    BY <1>2, <2>1 DEF AfterStrip
<1>5. QED
  BY <1>3, <1>4

Untouched(b, buf, size, to, len) ==
  /\ DOMAIN b = 0 .. size - 1
  /\ \A a \in 0 .. size - 1 : a < to \/ a >= to + len => b[a] = buf[a]

LEMMA RestStays ==
  ASSUME NEW size \in Nat, NEW buf, DOMAIN buf = 0 .. size - 1,
         NEW n \in Nat, NEW in \in Nat, NEW to \in Nat, NEW len \in Nat, NEW dest, NEW i \in 0 .. n,
         NEW f, f = After(buf, n, in, to, len, dest)
  PROVE  Untouched(f[i], buf, size, to, i * len)
<1> DEFINE Stays(j) == Untouched(f[j], buf, size, to, j * len)
           T == {j \in Nat : j <= n /\ ~Stays(j)}
<1>1. f[0] = buf
  BY AfterIs
<1>2. \A j \in 1 .. n : f[j] = Strip(f[j - 1], in + (j - 1) * len, to + (j - 1) * len, len, dest)
  BY AfterIs
<1>3. Stays(0)
  <2>1. 0 * len = 0
    OBVIOUS
  <2>2. QED
    BY <1>1, <2>1 DEF Untouched
<1>4. T = {}
  <2>1. SUFFICES ASSUME T # {} PROVE FALSE
    OBVIOUS
  <2>2. PICK j \in T : \A k \in T : j <= k
    BY <2>1, LeastNumber
  <2>3. j \in Nat /\ j <= n /\ ~Stays(j)
    BY <2>2
  <2> HIDE DEF Stays
  <2>4. j # 0
    BY <1>3, <2>3
  <2> DEFINE k == j - 1
  <2>5. k \in Nat /\ k <= n /\ j \in 1 .. n /\ j = k + 1
    BY <2>3, <2>4
  <2>6. k \notin T
    BY <2>2, <2>5
  <2>7. f[j] = Strip(f[k], in + k * len, to + k * len, len, dest)
    BY <1>2, <2>5
  <2> HIDE DEF k
  <2>8. Stays(k)
    BY <2>5, <2>6
  <2> DEFINE in1 == in + k * len
             to1 == to + k * len
  <2>9. DOMAIN f[k] = 0 .. size - 1 /\ DOMAIN f[j] = 0 .. size - 1
    BY <2>7, <2>8, StripDomain DEF Stays, Untouched
  <2>10. to1 \in Nat /\ to + j * len = to1 + len /\ to1 >= to
    <3>1. k * len \in Nat /\ j * len = k * len + len
      BY <2>5
    <3>2. QED
      BY <3>1
  <2>11. ASSUME NEW a \in 0 .. size - 1, a < to \/ a >= to + j * len PROVE f[j][a] = buf[a]
    <3>1. a \notin to1 .. to1 + len - 1 /\ (a < to \/ a >= to1)
      BY <2>10, <2>11
    <3>2. f[k][a] = buf[a]
      BY <2>8, <3>1 DEF Stays, Untouched
    <3> HIDE DEF in1, to1
    <3>3. f[j] = Strip(f[k], in1, to1, len, dest)
      BY <2>7 DEF in1, to1
    <3>4. QED
      BY <2>9, <3>1, <3>2, <3>3, StripDomain
  <2>12. QED
    BY <2>3, <2>9, <2>11 DEF Stays, Untouched
<1>5. Stays(i)
  <2>1. i \in Nat /\ i <= n /\ i \notin T
    BY <1>4
  <2> HIDE DEF Stays
  <2>2. QED
    BY <2>1
<1>6. QED
  BY <1>5

(* What a strip reads is still what was there at the beginning, and what   *)
(* it wrote no later one overwrites.                                       *)
Arrived(b, buf, n, in, to, len, dest) ==
  \A k \in 0 .. n - 1, m \in 0 .. len - 1 :
    dest[m] \in 0 .. len - 1 => b[to + k * len + dest[m]] = buf[in + k * len + m]

LEMMA StripsArrive ==
  ASSUME NEW size \in Nat, NEW buf, DOMAIN buf = 0 .. size - 1,
         NEW n \in Nat, NEW in \in Nat, NEW to \in Nat, NEW len \in Nat, NEW dest, OneToOne(dest, len),
         to <= in, in + n * len <= size
  PROVE  Arrived(Strips(buf, n, in, to, len, dest), buf, n, in, to, len, dest)
<1> SUFFICES ASSUME NEW k \in 0 .. n - 1, NEW m \in 0 .. len - 1, dest[m] \in 0 .. len - 1
             PROVE  Strips(buf, n, in, to, len, dest)[to + k * len + dest[m]] = buf[in + k * len + m]
  BY DEF Arrived
<1>0. PICK f : f = After(buf, n, in, to, len, dest)
  OBVIOUS
<1> DEFINE in1 == in + k * len
           to1 == to + k * len
           d == dest[m]
           a == to1 + d
           x == in1 + m
<1>1. k * len \in Nat /\ (k + 1) * len = k * len + len /\ (k + 1) * len <= n * len /\ n * len \in Nat
  <2>1. k * len \in Nat /\ n * len \in Nat /\ (k + 1) * len = k * len + len
    OBVIOUS
  <2>2. n - (k + 1) \in Nat /\ (n - (k + 1)) * len \in Nat
    OBVIOUS
  <2>3. (n - (k + 1)) * len = n * len - (k + 1) * len /\ (k + 1) * len \in Nat
    OBVIOUS
  <2>4. QED
    BY <2>1, <2>2, <2>3
<1>2. /\ in1 \in Nat /\ to1 \in Nat /\ to1 <= in1 /\ in1 + len <= size
      /\ d \in 0 .. len - 1 /\ a \in 0 .. size - 1 /\ x \in 0 .. size - 1 /\ x >= to1 /\ a < to1 + len
  BY <1>1
<1>3. k \in Nat /\ k + 1 \in Nat /\ k + 1 \in 1 .. n /\ (k + 1) - 1 = k /\ k \in 0 .. n
  OBVIOUS
<1>4. \A j \in 1 .. n : f[j] = Strip(f[j - 1], in + (j - 1) * len, to + (j - 1) * len, len, dest)
  BY <1>0, AfterIs
<1>5. \A j \in 0 .. n : Untouched(f[j], buf, size, to, j * len)
  BY <1>0, RestStays
<1>6. f[k + 1] = Strip(f[k], in1, to1, len, dest)
  <2>1. f[k + 1] = Strip(f[(k + 1) - 1], in + ((k + 1) - 1) * len, to + ((k + 1) - 1) * len, len, dest)
    BY <1>3, <1>4
  <2>2. QED
    BY <1>3, <2>1
<1>7. DOMAIN f[k] = 0 .. size - 1 /\ \A y \in 0 .. size - 1 : y >= to1 => f[k][y] = buf[y]
  BY <1>3, <1>5 DEF Untouched
<1>8. f[k + 1][a] = buf[x]
  <2>1. Strip(f[k], in1, to1, len, dest)[a] = f[k][x]
    <3>1. in1 \in Nat /\ to1 \in Nat /\ to1 + dest[m] \in DOMAIN f[k]
      BY <1>2, <1>7
    <3> HIDE DEF in1, to1
    <3>2. Delivered(Strip(f[k], in1, to1, len, dest), f[k], in1, to1, len, dest)
      BY <3>1, StripMoves
    <3>3. QED
      BY <3>1, <3>2 DEF Delivered
  <2>2. f[k][x] = buf[x]
    BY <1>2, <1>7
  <2>3. QED
    BY <1>6, <2>1, <2>2
<1> DEFINE T == {j \in Nat : j <= n /\ j >= k + 1 /\ f[j][a] # buf[x]}
<1>9. T = {}
  <2>1. SUFFICES ASSUME T # {} PROVE FALSE
    OBVIOUS
  <2>2. PICK j \in T : \A i \in T : j <= i
    BY <2>1, LeastNumber
  <2>3. j \in Nat /\ j <= n /\ j >= k + 1 /\ f[j][a] # buf[x]
    BY <2>2
  <2> HIDE DEF a, x
  <2>4. j # k + 1
    BY <1>8, <2>3
  <2> DEFINE i == j - 1
  <2>5. i \in Nat /\ i <= n /\ i >= k + 1 /\ j \in 1 .. n /\ i \in 0 .. n /\ i < j
    BY <1>3, <2>3, <2>4
  <2>6. f[i][a] = buf[x]
    BY <2>2, <2>5
  <2> DEFINE in2 == in + i * len
             to2 == to + i * len
  <2>7. f[j] = Strip(f[i], in2, to2, len, dest)
    BY <1>4, <2>5
  <2> HIDE DEF i
  <2>8. to2 \in Nat /\ a < to2
    <3> DEFINE g == k + 1
    <3>1. g \in Nat /\ i \in Nat /\ i - g \in Nat
      BY <1>3, <2>5
    <3> HIDE DEF g
    <3>2. i * len \in Nat /\ g * len \in Nat /\ (i - g) * len \in Nat /\ (i - g) * len = i * len - g * len
      BY <3>1
    <3>3. a \in Nat /\ a < to + g * len
      BY <1>1, <1>2 DEF g
    <3> DEFINE u == i * len
               w == g * len
    <3>4. u \in Nat /\ w \in Nat /\ w <= u /\ a < to + w /\ to2 = to + u
      <4>1. u \in Nat /\ w \in Nat /\ u - w \in Nat
        BY <3>2
      <4> HIDE DEF u, w
      <4>2. w <= u
        BY <4>1
      <4>3. QED
        BY <3>3, <4>1, <4>2 DEF u, w
    <3> HIDE DEF u, w, to2
    <3>5. QED
      BY <3>3, <3>4
  <2> HIDE DEF in2, to2
  <2>9. a \in DOMAIN f[i] /\ a \notin to2 .. to2 + len - 1
    BY <1>2, <1>5, <2>5, <2>8 DEF Untouched
  <2>10. f[j][a] = f[i][a]
    BY <2>7, <2>9, StripDomain
  <2>11. QED
    BY <2>3, <2>6, <2>10
<1>10. f[n][a] = buf[x]
  <2>1. n \in Nat /\ n <= n /\ n >= k + 1 /\ n \notin T
    BY <1>9
  <2> HIDE DEF a, x
  <2>2. QED
    BY <2>1
<1>11. Strips(buf, n, in, to, len, dest) = f[n]
  BY <1>0, StripsAfter
<1>12. QED
  BY <1>10, <1>11

LEMMA StripsRest ==
  ASSUME NEW size \in Nat, NEW buf, DOMAIN buf = 0 .. size - 1,
         NEW n \in Nat, NEW in \in Nat, NEW to \in Nat, NEW len \in Nat, NEW dest
  PROVE  Untouched(Strips(buf, n, in, to, len, dest), buf, size, to, n * len)
<1>1. n \in 0 .. n
  OBVIOUS
<1>2. PICK f : f = After(buf, n, in, to, len, dest)
  OBVIOUS
<1>3. Strips(buf, n, in, to, len, dest) = f[n]
  BY <1>2, StripsAfter
<1>4. QED
  BY <1>1, <1>2, <1>3, RestStays

-----------------------------------------------------------------------------
(* A strip of tiles: n is the byte in row y, column z of part k of tile j, *)
(* tiles having K square parts with sides of length side.                  *)
IsPart(n, K, s, j, k, l) ==
  n \in Nat /\ n \div (K * s) = j /\ (n \div s) % K = k /\ n % s = l

LEMMA TileParts ==
  ASSUME NEW K \in Nat \ {0}, NEW s \in Nat \ {0}, NEW j \in Nat, NEW k \in 0 .. K - 1,
         NEW l \in 0 .. s - 1, NEW n, n = j * (K * s) + (k * s + l)
  PROVE  IsPart(n, K, s, j, k, l)
<1> DEFINE C == K * s
           r == k * s + l
           t == j * K + k
<1>1. C \in Nat \ {0} /\ k * s \in Nat
  OBVIOUS
<1>2. r \in 0 .. C - 1
  BY Rows
<1>3. j * C \in Nat
  BY <1>1
<1>4. n = j * C + r
  OBVIOUS
<1>5. t \in Nat /\ n = t * s + l
  <2>1. j * K \in Nat /\ j * (K * s) = (j * K) * s /\ (j * K + k) * s = (j * K) * s + k * s
    OBVIOUS
  <2>2. QED
    BY <2>1, <1>1
<1> HIDE DEF C, r, t
<1>6. n \in Nat /\ n \div C = j
  BY <1>1, <1>2, <1>3, <1>4, Parts
<1>7. n \div s = t /\ n % s = l
  BY <1>5, Parts
<1>8. t % K = k
  BY Parts DEF t
<1>9. QED
  BY <1>6, <1>7, <1>8 DEF C, IsPart

InTile(n, W, K, s) ==
  \E j \in 0 .. W - 1, k \in 0 .. K - 1, l \in 0 .. s - 1 : n = j * (K * s) + (k * s + l)

LEMMA TileOf ==
  ASSUME NEW K \in Nat \ {0}, NEW s \in Nat \ {0}, NEW W \in Nat, NEW n \in 0 .. W * (K * s) - 1
  PROVE  InTile(n, W, K, s)
<1> DEFINE C == K * s
           j == n \div C
           r == n % C
           k == r \div s
           l == r % s
<1>1. C \in Nat \ {0} /\ W * C \in Nat /\ n \in Nat
  OBVIOUS
<1>2. n \in 0 .. W * C - 1
  OBVIOUS
<1> HIDE DEF C
<1>3. j \in 0 .. W - 1
  BY <1>1, <1>2, InRows
<1>4. r \in 0 .. C - 1 /\ n = j * C + r
  BY <1>1, Split
<1> HIDE DEF j, r
<1>5. r \in 0 .. K * s - 1 /\ r \in Nat
  BY <1>1, <1>4 DEF C
<1>6. k \in 0 .. K - 1
  BY <1>5, InRows
<1>7. l \in 0 .. s - 1 /\ r = k * s + l
  BY <1>5, Split
<1> HIDE DEF k, l
<1>8. n = j * (K * s) + (k * s + l)
  BY <1>4, <1>7 DEF C
<1>9. QED
  BY <1>3, <1>6, <1>7, <1>8 DEF InTile

LEMMA SquareOf ==
  ASSUME NEW q \in Nat \ {0}, NEW l \in 0 .. q * q - 1
  PROVE  l \div q \in 0 .. q - 1 /\ l % q \in 0 .. q - 1 /\ l = (l \div q) * q + (l % q)
<1>1. l \in Nat
  <2>1. q * q \in Nat
    OBVIOUS
  <2>2. QED
    BY <2>1
<1>2. QED
  BY <1>1, Split, InRows

-----------------------------------------------------------------------------
(* The tiles of the generic models.                                        *)
Side == Half(MB)
Area == Side * Side
Across == Wd \div MB
Down == Ht \div MB

LEMMA Multiple ==
  ASSUME NEW n \in Nat, NEW C \in Nat \ {0}, n % C = 0
  PROVE  n \div C \in Nat /\ n = (n \div C) * C
BY Split

LEMMA TileSizes ==
  /\ Side \in Nat \ {0} /\ Area \in Nat \ {0} /\ Across \in Nat /\ Down \in Nat
  /\ MB = 2 * Side /\ MB * MB = 4 * Area /\ Half(MB * MB) = 2 * Area /\ Half(Half(MB * MB)) = Area
  /\ Wd = Across * (2 * Side) /\ Wd \in Nat \ {0} /\ Ht = Down * MB
  /\ Wd * MB = Across * (4 * Area) /\ Half(Wd * MB) = Across * (2 * Area)
  /\ Wd * MB \in Nat /\ Half(Wd * MB) \in Nat
<1>1. MB \in Nat \ {0} /\ B \in Nat \ {0} /\ Wd \in Nat \ {0} /\ Ht \in Nat \ {0}
  BY LayoutAssumption
<1>2. 2 * B \in Nat \ {0} /\ MB % (2 * B) = 0 /\ Wd % MB = 0 /\ Ht % MB = 0
  BY <1>1, LayoutAssumption
<1>3. PICK c \in Nat : MB = c * (2 * B)
  BY <1>1, <1>2, Multiple
<1>4. MB = 2 * (c * B) /\ c * B \in Nat
  BY <1>1, <1>3
<1>5. Side = c * B /\ MB = 2 * Side /\ Side \in Nat \ {0}
  BY <1>1, <1>4 DEF Side, Half
<1>6. Wd = Across * MB /\ Across \in Nat /\ Ht = Down * MB /\ Down \in Nat
  BY <1>1, <1>2, Multiple DEF Across, Down
<1>7. Area \in Nat \ {0}
  BY <1>5 DEF Area
<1>8. MB * MB = 4 * Area
  <2>1. (2 * Side) * (2 * Side) = 4 * (Side * Side)
    BY <1>5
  <2>2. QED
    BY <1>5, <2>1 DEF Area
<1>9. Wd * MB = Across * (4 * Area)
  <2>1. Wd * MB = Across * (MB * MB)
    BY <1>1, <1>6
  <2>2. QED
    BY <1>8, <2>1
<1>10. Across * (4 * Area) = 2 * (Across * (2 * Area)) /\ Across * (2 * Area) \in Nat
  BY <1>6, <1>7
<1>11. Half(4 * Area) = 2 * Area /\ Half(2 * Area) = Area
  BY <1>7 DEF Half
<1>12. Half(2 * (Across * (2 * Area))) = Across * (2 * Area)
  BY <1>10 DEF Half
<1>13. Half(Wd * MB) = Across * (2 * Area)
  BY <1>9, <1>10, <1>12
<1>14. QED
  BY <1>1, <1>5, <1>6, <1>7, <1>8, <1>9, <1>10, <1>11, <1>13

LEMMA LumaTileAt ==
  ASSUME NEW j \in 0 .. Across - 1, NEW k1 \in 0 .. 1, NEW k2 \in 0 .. 1,
         NEW a \in 0 .. Side - 1, NEW b \in 0 .. Side - 1,
         NEW n, n = j * (4 * Area) + ((2 * k2 + k1) * Area + (a * Side + b))
  PROVE  /\ n \in 0 .. Wd * MB - 1
         /\ LumaTile[n] = (k2 * Side + a) * Wd + (j * (2 * Side) + (k1 * Side + b))
<1> DEFINE k == 2 * k2 + k1
           l == a * Side + b
<1>1. /\ Side \in Nat \ {0} /\ Area \in Nat \ {0} /\ Across \in Nat /\ Wd \in Nat \ {0}
      /\ Half(MB) = Side /\ MB = 2 * Side /\ MB * MB = 4 * Area
      /\ Half(Half(MB * MB)) = Area /\ Wd * MB = Across * (4 * Area) /\ j \in Nat
  BY TileSizes DEF Side
<1>2. k \in 0 .. 3 /\ k % 2 = k1 /\ k \div 2 = k2
  OBVIOUS
<1>3. l \in 0 .. Area - 1
  BY <1>1, Rows DEF Area
<1>4. l \div Side = a /\ l % Side = b
  <2>1. Side \in Nat \ {0} /\ a \in Nat
    BY <1>1
  <2>2. QED
    BY <2>1, Parts
<1> HIDE DEF k, l
<1>5. n = j * (4 * Area) + (k * Area + l)
  BY DEF k, l
<1>6. n \div (4 * Area) = j /\ (n \div Area) % 4 = k /\ n % Area = l
  <2>1. PICK K \in Nat \ {0} : K = 4
    OBVIOUS
  <2>2. k \in 0 .. K - 1 /\ Area \in Nat \ {0} /\ j \in Nat /\ n = j * (K * Area) + (k * Area + l)
    BY <1>1, <1>2, <1>5, <2>1
  <2>3. IsPart(n, K, Area, j, k, l)
    BY <1>3, <2>2, TileParts
  <2>4. QED
    BY <2>1, <2>3 DEF IsPart
<1>7. n \in 0 .. Wd * MB - 1
  <2>1. k * Area + l \in 0 .. 4 * Area - 1
    BY <1>1, <1>2, <1>3, Rows
  <2>2. 4 * Area \in Nat \ {0}
    BY <1>1
  <2> DEFINE C == 4 * Area
             r == k * Area + l
  <2>3. C \in Nat \ {0} /\ r \in 0 .. C - 1 /\ n = j * C + r /\ Wd * MB = Across * C
    BY <1>1, <1>5, <2>1, <2>2
  <2> HIDE DEF C, r
  <2>4. QED
    BY <1>1, <2>3, Rows
<1>8. LumaTile[n] = j * MB + k1 * Side + k2 * Side * Wd + a * Wd + b
  BY <1>1, <1>2, <1>4, <1>6, <1>7 DEF LumaTile
<1>9. (k2 * Side + a) * Wd = k2 * Side * Wd + a * Wd
  BY <1>1
<1>10. QED
  BY <1>1, <1>7, <1>8, <1>9

LEMMA LumaTileOf ==
  ASSUME NEW n \in 0 .. Wd * MB - 1
  PROVE  \E j \in 0 .. Across - 1, k1 \in 0 .. 1, k2 \in 0 .. 1, a \in 0 .. Side - 1, b \in 0 .. Side - 1 :
           n = j * (4 * Area) + ((2 * k2 + k1) * Area + (a * Side + b))
<1>1. PICK j \in 0 .. Across - 1, k \in 0 .. 4 - 1, l \in 0 .. Area - 1 :
        n = j * (4 * Area) + (k * Area + l)
  <2>1. 4 \in Nat \ {0} /\ Area \in Nat \ {0} /\ Across \in Nat /\ n \in 0 .. Across * (4 * Area) - 1
    BY TileSizes
  <2>2. InTile(n, Across, 4, Area)
    BY <2>1, TileOf
  <2>3. QED
    BY <2>2 DEF InTile
<1>2. k % 2 \in 0 .. 1 /\ k \div 2 \in 0 .. 1 /\ k = 2 * (k \div 2) + (k % 2)
  OBVIOUS
<1>3. l \div Side \in 0 .. Side - 1 /\ l % Side \in 0 .. Side - 1 /\ l = (l \div Side) * Side + (l % Side)
  BY TileSizes, SquareOf DEF Area
<1>4. QED
  BY <1>1, <1>2, <1>3

(* A pixel's coordinates say where it is in its tile. *)
IsAcross(x, q, j, k, b) ==
  /\ x \in Nat /\ x \div (2 * q) = j /\ x % (2 * q) = k * q + b
  /\ (x % (2 * q)) \div q = k /\ x % q = b

LEMMA AcrossParts ==
  ASSUME NEW q \in Nat \ {0}, NEW j \in Nat, NEW k \in 0 .. 1, NEW b \in 0 .. q - 1,
         NEW x, x = j * (2 * q) + (k * q + b)
  PROVE  IsAcross(x, q, j, k, b)
<1>1. x \in Nat /\ x \div (2 * q) = j /\ x % q = b
  <2>1. 2 \in Nat \ {0} /\ k \in 0 .. 2 - 1
    OBVIOUS
  <2>2. IsPart(x, 2, q, j, k, b)
    BY <2>1, TileParts
  <2>3. QED
    BY <2>2 DEF IsPart
<1> DEFINE r == k * q + b
<1>2. r \in 0 .. 2 * q - 1
  BY Rows
<1>3. r \div q = k
  BY Parts
<1>4. 2 * q \in Nat \ {0} /\ x = j * (2 * q) + r
  OBVIOUS
<1> HIDE DEF r
<1>5. x % (2 * q) = r
  BY <1>2, <1>4, Parts
<1>6. QED
  BY <1>1, <1>3, <1>5 DEF r, IsAcross

InAcross(x, W, q) ==
  \E j \in 0 .. W - 1, k \in 0 .. 1, b \in 0 .. q - 1 : x = j * (2 * q) + (k * q + b)

LEMMA AcrossOf ==
  ASSUME NEW q \in Nat \ {0}, NEW W \in Nat, NEW x \in 0 .. W * (2 * q) - 1
  PROVE  InAcross(x, W, q)
<1>1. 2 \in Nat \ {0}
  OBVIOUS
<1>2. InTile(x, W, 2, q)
  BY <1>1, TileOf
<1>3. QED
  BY <1>2 DEF InTile, InAcross

LEMMA SameAcross ==
  ASSUME NEW q \in Nat \ {0}, NEW j \in Nat, NEW k \in 0 .. 1, NEW b \in 0 .. q - 1,
         NEW i \in Nat, NEW h \in 0 .. 1, NEW c \in 0 .. q - 1,
         j * (2 * q) + (k * q + b) = i * (2 * q) + (h * q + c)
  PROVE  j = i /\ k = h /\ b = c
<1> DEFINE x == j * (2 * q) + (k * q + b)
<1>1. x = j * (2 * q) + (k * q + b) /\ x = i * (2 * q) + (h * q + c)
  OBVIOUS
<1> HIDE DEF x
<1>2. IsAcross(x, q, j, k, b) /\ IsAcross(x, q, i, h, c)
  BY <1>1, AcrossParts
<1>3. QED
  BY <1>2 DEF IsAcross

LEMMA LumaTilePlace ==
  ASSUME NEW j \in 0 .. Across - 1, NEW k1 \in 0 .. 1, NEW k2 \in 0 .. 1,
         NEW a \in 0 .. Side - 1, NEW b \in 0 .. Side - 1
  PROVE  /\ k2 * Side + a \in 0 .. MB - 1
         /\ j * (2 * Side) + (k1 * Side + b) \in 0 .. Wd - 1
         /\ (k2 * Side + a) * Wd + (j * (2 * Side) + (k1 * Side + b)) \in 0 .. Wd * MB - 1
<1>1. /\ Side \in Nat \ {0} /\ Across \in Nat /\ Wd \in Nat \ {0} /\ MB = 2 * Side
      /\ Wd = Across * (2 * Side) /\ 2 * Side \in Nat \ {0} /\ MB \in Nat
  BY TileSizes
<1>2. k2 * Side + a \in 0 .. 2 * Side - 1 /\ k1 * Side + b \in 0 .. 2 * Side - 1
  BY <1>1, Rows
<1>3. j * (2 * Side) + (k1 * Side + b) \in 0 .. Wd - 1
  BY <1>1, <1>2, Rows
<1> DEFINE y == k2 * Side + a
           x == j * (2 * Side) + (k1 * Side + b)
<1>4. y \in 0 .. MB - 1 /\ x \in 0 .. Wd - 1
  BY <1>1, <1>2, <1>3
<1> HIDE DEF y, x
<1>5. y * Wd + x \in 0 .. MB * Wd - 1
  BY <1>1, <1>4, Rows
<1>6. MB * Wd = Wd * MB
  BY <1>1
<1>7. QED
  BY <1>4, <1>5, <1>6 DEF y, x

LEMMA LumaTileOneToOne ==
  OneToOne(LumaTile, Wd * MB) /\ \A n \in 0 .. Wd * MB - 1 : LumaTile[n] \in 0 .. Wd * MB - 1
<1>1. /\ Side \in Nat \ {0} /\ Across \in Nat /\ Wd \in Nat \ {0}
  BY TileSizes
<1>2. ASSUME NEW m \in 0 .. Wd * MB - 1, NEW n \in 0 .. Wd * MB - 1, LumaTile[m] = LumaTile[n]
      PROVE  m = n
  <2>1. PICK j \in 0 .. Across - 1, k1 \in 0 .. 1, k2 \in 0 .. 1, a \in 0 .. Side - 1, b \in 0 .. Side - 1 :
           n = j * (4 * Area) + ((2 * k2 + k1) * Area + (a * Side + b))
    BY LumaTileOf
  <2>2. PICK i \in 0 .. Across - 1, h1 \in 0 .. 1, h2 \in 0 .. 1, c \in 0 .. Side - 1, d \in 0 .. Side - 1 :
           m = i * (4 * Area) + ((2 * h2 + h1) * Area + (c * Side + d))
    BY LumaTileOf
  <2> DEFINE x == j * (2 * Side) + (k1 * Side + b)
             y == k2 * Side + a
             u == i * (2 * Side) + (h1 * Side + d)
             v == h2 * Side + c
  <2>3. LumaTile[n] = y * Wd + x /\ x \in 0 .. Wd - 1 /\ y \in Int
    <3>1. LumaTile[n] = y * Wd + x
      BY <2>1, LumaTileAt
    <3>2. x \in 0 .. Wd - 1 /\ y \in 0 .. MB - 1
      BY LumaTilePlace
    <3> HIDE DEF x, y, u, v
    <3>3. QED
      BY <3>1, <3>2
  <2>4. LumaTile[m] = v * Wd + u /\ u \in 0 .. Wd - 1 /\ v \in Int
    <3>1. LumaTile[m] = v * Wd + u
      BY <2>2, LumaTileAt
    <3>2. u \in 0 .. Wd - 1 /\ v \in 0 .. MB - 1
      BY LumaTilePlace
    <3> HIDE DEF x, y, u, v
    <3>3. QED
      BY <3>1, <3>2
  <2> HIDE DEF x, y, u, v
  <2>5. x = u /\ y = v
    <3>1. y * Wd + x = v * Wd + u
      BY <1>2, <2>3, <2>4
    <3>2. QED
      BY <1>1, <2>3, <2>4, <3>1, SameParts
  <2>6. j = i /\ k1 = h1 /\ b = d
    BY <1>1, <2>5, SameAcross DEF x, u
  <2>7. k2 = h2 /\ a = c
    BY <1>1, <2>5, SameParts DEF y, v
  <2>8. QED
    BY <2>1, <2>2, <2>6, <2>7
<1>3. ASSUME NEW n \in 0 .. Wd * MB - 1 PROVE LumaTile[n] \in 0 .. Wd * MB - 1
  BY LumaTileOf, LumaTileAt, LumaTilePlace
<1>4. QED
  BY <1>2, <1>3 DEF OneToOne

-----------------------------------------------------------------------------
(* What libjpeg is given of a pixel of a w x h picture, w and h even.      *)
IsPair(x, c) == x \in Nat /\ Half(x) = c /\ x - (x % 2) = 2 * c

LEMMA HalfIs ==
  ASSUME NEW c \in Nat, NEW e \in 0 .. 1, NEW x, x = 2 * c + e
  PROVE  IsPair(x, c)
BY DEF Half, IsPair

Given(buf, w, h, x, y) ==
  LET nv == Nv12At(w * h, w, x, y)
  IN JpegPixel(buf, w, h, x, y) = <<buf[y * w + x], buf[nv], buf[nv + 1]>>

LEMMA JpegIs ==
  ASSUME NEW buf, NEW w \in Nat, NEW h \in Nat, NEW x \in Nat, NEW y \in Nat
  PROVE  Given(buf, w, h, x, y)
<1> DEFINE offset == y * w + x - (x % 2)
           uv == w * (h - Half(y + 1))
<1>1. Half(x) \in Nat /\ x - (x % 2) = 2 * Half(x) /\ x % 2 \in 0 .. 1 /\ x = 2 * Half(x) + (x % 2)
  BY DEF Half
<1>2. Half(y) \in Nat /\ y - Half(y + 1) = Half(y) /\ Half(y + 1) \in Nat
  BY DEF Half
<1>3. offset + (x % 2) = y * w + x
  <2>1. y * w \in Nat
    OBVIOUS
  <2>2. QED
    BY <1>1, <2>1
<1>4. offset + uv = Nv12At(w * h, w, x, y)
  <2> DEFINE r == x - (x % 2)
  <2>1. r \in Nat
    BY <1>1
  <2> HIDE DEF r
  <2>2. w * (h - Half(y + 1)) = w * h - w * Half(y + 1) /\ w * h \in Nat /\ w * Half(y + 1) \in Nat
    BY <1>2
  <2>3. Half(y) * w = y * w - w * Half(y + 1) /\ y * w \in Nat
    <3> DEFINE g == Half(y + 1)
    <3>1. Half(y) = y - g /\ g \in Nat
      BY <1>2
    <3> HIDE DEF g
    <3>2. (y - g) * w = y * w - w * g
      BY <3>1
    <3>3. QED
      BY <3>1, <3>2 DEF g
  <2>4. y * w + r + (w * h - w * Half(y + 1)) = w * h + (y * w - w * Half(y + 1)) + r
    BY <2>1, <2>2, <2>3
  <2>5. QED
    BY <2>2, <2>3, <2>4 DEF Nv12At, r
<1> HIDE DEF offset, uv
<1>5. JpegPixel(buf, w, h, x, y) = <<buf[offset + (x % 2)], buf[offset + uv], buf[offset + uv + 1]>>
  BY DEF JpegPixel, offset, uv
<1>6. QED
  BY <1>3, <1>4, <1>5 DEF Given

NvSizes(w, h, x, y) ==
  LET Q == w * Half(h)
      r == Half(y) * w + (x - (x % 2))
  IN /\ Q \in Nat /\ w * h = 2 * Q /\ Half(w * h) = Q
     /\ y * w + x \in 0 .. w * h - 1
     /\ r \in Nat /\ r + 1 \in 0 .. Q - 1
     /\ \A base \in Nat : Nv12At(base, w, x, y) = base + r

LEMMA NvAddresses ==
  ASSUME NEW w \in Nat \ {0}, NEW h \in Nat \ {0}, w % 2 = 0, h % 2 = 0,
         NEW x \in 0 .. w - 1, NEW y \in 0 .. h - 1
  PROVE  NvSizes(w, h, x, y)
<1> DEFINE hw == Half(w)
           hh == Half(h)
           Q == w * hh
           c == Half(x)
           d == Half(y)
           r == d * w + (x - (x % 2))
<1>1. /\ hw \in Nat /\ w = 2 * hw /\ hh \in Nat /\ h = 2 * hh
      /\ c \in 0 .. hw - 1 /\ d \in 0 .. hh - 1
  BY DEF Half
<1>2. x - (x % 2) = 2 * c /\ x \in Nat /\ y \in Nat
  BY DEF Half
<1> HIDE DEF hw, hh, c, d
<1>3. Q \in Nat /\ w * h = 2 * Q
  BY <1>1
<1>4. Half(w * h) = Q
  <2> HIDE DEF Q
  <2>1. QED
    BY <1>3 DEF Half
<1>5. y * w + x \in 0 .. w * h - 1
  <2>1. y * w + x \in 0 .. h * w - 1
    BY Rows
  <2>2. h * w = w * h
    OBVIOUS
  <2>3. QED
    BY <2>1, <2>2
<1>6. r \in Nat /\ r + 1 \in 0 .. Q - 1
  <2>1. 2 * c + 1 \in 0 .. w - 1 /\ w \in Nat \ {0} /\ hh \in Nat
    BY <1>1
  <2>2. d * w + (2 * c + 1) \in 0 .. hh * w - 1
    <3> DEFINE t == 2 * c + 1
    <3>1. t \in 0 .. w - 1
      BY <2>1
    <3> HIDE DEF t
    <3>2. d * w + t \in 0 .. hh * w - 1
      BY <1>1, <2>1, <3>1, Rows
    <3>3. QED
      BY <3>2 DEF t
  <2>3. hh * w = Q /\ d * w \in Nat
    BY <1>1
  <2> HIDE DEF Q
  <2>4. QED
    BY <1>1, <1>2, <2>2, <2>3
<1>7. ASSUME NEW base \in Nat PROVE Nv12At(base, w, x, y) = base + r
  <2> DEFINE t == x - (x % 2)
  <2>1. t \in Nat /\ d * w \in Nat
    BY <1>1, <1>2
  <2> HIDE DEF t
  <2>2. base + d * w + t = base + (d * w + t)
    BY <2>1
  <2>3. QED
    BY <2>2 DEF Nv12At, t, d
<1> HIDE DEF Q, r
<1>8. QED
  BY <1>3, <1>4, <1>5, <1>6, <1>7 DEF NvSizes, Q, r, c, d, hh

(* A high picture is a whole number of pairs of small blocks each way.     *)
LEMMA HighIsEven ==
  /\ Wd % 2 = 0 /\ Ht % 2 = 0
  /\ \E v \in Nat : Wd = v * (2 * B)
  /\ \E v \in Nat : Ht = v * (2 * B)
<1>1. MB \in Nat \ {0} /\ B \in Nat \ {0} /\ Wd \in Nat \ {0} /\ Ht \in Nat \ {0}
  BY LayoutAssumption
<1>2. 2 * B \in Nat \ {0} /\ MB % (2 * B) = 0 /\ Wd % MB = 0 /\ Ht % MB = 0
  BY <1>1, LayoutAssumption
<1>3. PICK c \in Nat : MB = c * (2 * B)
  BY <1>1, <1>2, Multiple
<1>4. PICK w \in Nat : Wd = w * MB
  BY <1>1, <1>2, Multiple
<1>5. PICK h \in Nat : Ht = h * MB
  BY <1>1, <1>2, Multiple
<1>6. w * c \in Nat /\ h * c \in Nat
  OBVIOUS
<1>7. Wd = (w * c) * (2 * B) /\ Ht = (h * c) * (2 * B)
  BY <1>1, <1>3, <1>4, <1>5
<1>8. Wd = 2 * ((w * c) * B) /\ (w * c) * B \in Nat /\ Ht = 2 * ((h * c) * B) /\ (h * c) * B \in Nat
  BY <1>1, <1>6, <1>7
<1>9. \A n \in Nat : (2 * n) % 2 = 0
  OBVIOUS
<1>10. QED
  BY <1>6, <1>7, <1>8, <1>9

(* The low pictures, whose chroma is moved next to the luma, and a decoded *)
(* picture.                                                                *)
LEMMA LowPixels ==
  ASSUME NEW x \in 0 .. LowW - 1, NEW y \in 0 .. LowH - 1
  PROVE  JpegPixel(lowYUV(Camera(LowSize)), LowW, LowH, x, y) = LowAt(x, y)
<1> DEFINE b == lowYUV(Camera(LowSize))
           w == LowW
           h == LowH
           P == w * h
           Q == w * Half(h)
           r == Half(y) * w + (x - (x % 2))
           l == y * w + x
<1>1. w \in Nat \ {0} /\ h \in Nat \ {0} /\ w % 2 = 0 /\ h % 2 = 0 /\ UvGap \in Nat /\ x \in Nat /\ y \in Nat
  BY LayoutAssumption
<1>2. NvSizes(w, h, x, y)
  BY <1>1, NvAddresses
<1>3. /\ Q \in Nat /\ P = 2 * Q /\ Half(P) = Q /\ l \in 0 .. P - 1 /\ r \in Nat /\ r + 1 \in 0 .. Q - 1
      /\ \A base \in Nat : Nv12At(base, w, x, y) = base + r
  BY <1>2 DEF NvSizes
<1>4. 3 * w * h = 3 * P
  BY <1>1
<1>5. JpegPixel(b, w, h, x, y) = <<b[l], b[Nv12At(P, w, x, y)], b[Nv12At(P, w, x, y) + 1]>>
  <2>1. w \in Nat /\ h \in Nat
    BY <1>1
  <2> HIDE DEF b, w, h
  <2>2. Given(b, w, h, x, y)
    BY <1>1, <2>1, JpegIs
  <2>3. QED
    BY <2>2 DEF Given
<1>6. LowAt(x, y) = <<l, Nv12At(P + UvGap, w, x, y), Nv12At(P + UvGap, w, x, y) + 1>>
  BY DEF LowAt
<1>7. LowSize = P + UvGap + Half(P)
  BY DEF LowSize
<1>8. b = [a \in DOMAIN Camera(LowSize) |->
             IF a \in P .. Half(3 * w * h) - 1 THEN Camera(LowSize)[a + UvGap] ELSE Camera(LowSize)[a]]
  BY DEF lowYUV
<1> HIDE DEF b, w, h, P, Q, r, l
<1>9. Half(3 * P) = 3 * Q /\ LowSize = 3 * Q + UvGap /\ P \in Nat
  BY <1>1, <1>3, <1>7 DEF Half
<1>10. DOMAIN Camera(LowSize) = 0 .. LowSize - 1 /\ \A a \in 0 .. LowSize - 1 : Camera(LowSize)[a] = a
  BY DEF Camera
<1>11. Half(3 * w * h) = 3 * Q
  BY <1>4, <1>9
<1> DEFINE C == Camera(LowSize)
           s == LowSize
           t == 3 * Q
<1>12. DOMAIN C = 0 .. s - 1 /\ \A a \in 0 .. s - 1 : C[a] = a
  BY <1>10
<1>13. b = [a \in DOMAIN C |-> IF a \in P .. t - 1 THEN C[a + UvGap] ELSE C[a]]
  BY <1>8, <1>11
<1> HIDE DEF C, s
<1>14. s = t + UvGap /\ t = P + Q /\ t \in Nat
  BY <1>3, <1>9 DEF s
<1> HIDE DEF t
<1>15. ASSUME NEW a \in 0 .. P - 1 PROVE b[a] = a
  <2>1. a \in 0 .. s - 1 /\ a \notin P .. t - 1
    BY <1>1, <1>3, <1>9, <1>14
  <2>2. QED
    BY <1>12, <1>13, <2>1
<1>16. ASSUME NEW a \in P .. t - 1 PROVE b[a] = a + UvGap
  <2>1. a \in 0 .. s - 1 /\ a + UvGap \in 0 .. s - 1
    BY <1>1, <1>3, <1>9, <1>14
  <2>2. QED
    BY <1>12, <1>13, <2>1
<1>17. Nv12At(P, w, x, y) = P + r /\ Nv12At(P + UvGap, w, x, y) = P + UvGap + r
  BY <1>1, <1>3, <1>9
<1>18. P + r \in P .. t - 1 /\ P + r + 1 \in P .. t - 1
  BY <1>3, <1>9, <1>14
<1>19. b[l] = l /\ b[P + r] = P + r + UvGap /\ b[P + r + 1] = P + r + 1 + UvGap
  BY <1>3, <1>15, <1>16, <1>18
<1>20. P + r + UvGap = P + UvGap + r /\ P + r + 1 + UvGap = P + UvGap + r + 1
  BY <1>1, <1>3, <1>9
<1>21. JpegPixel(b, w, h, x, y) = LowAt(x, y)
  BY <1>5, <1>6, <1>17, <1>19, <1>20
<1>22. QED
  BY <1>21 DEF b, w, h

LEMMA DecodedPixels ==
  ASSUME NEW x \in 0 .. LowW - 1, NEW y \in 0 .. LowH - 1
  PROVE  JpegPixel(Decoded(LowW, LowH, LowW, LowH), LowW, LowH, x, y) = DecodedAt(LowW, LowH, x, y)
<1> DEFINE w == LowW
           h == LowH
           b == Decoded(w, h, w, h)
           P == w * h
           Q == w * Half(h)
           r == Half(y) * w + (x - (x % 2))
           l == y * w + x
<1>1. w \in Nat \ {0} /\ h \in Nat \ {0} /\ w % 2 = 0 /\ h % 2 = 0 /\ x \in Nat /\ y \in Nat
  BY LayoutAssumption
<1>2. NvSizes(w, h, x, y)
  BY <1>1, NvAddresses
<1>3. /\ Q \in Nat /\ P = 2 * Q /\ l \in 0 .. P - 1 /\ r \in Nat /\ r + 1 \in 0 .. Q - 1
      /\ \A base \in Nat : Nv12At(base, w, x, y) = base + r
  BY <1>2 DEF NvSizes
<1>4. 3 * w * h = 3 * P
  BY <1>1
<1>5. JpegPixel(b, w, h, x, y) = <<b[l], b[Nv12At(P, w, x, y)], b[Nv12At(P, w, x, y) + 1]>>
  <2>1. w \in Nat /\ h \in Nat
    BY <1>1
  <2> HIDE DEF b, w, h
  <2>2. Given(b, w, h, x, y)
    BY <1>1, <2>1, JpegIs
  <2>3. QED
    BY <2>2 DEF Given
<1>6. DecodedAt(w, h, x, y) = <<l, Nv12At(P, w, x, y), Nv12At(P, w, x, y) + 1>>
  BY DEF DecodedAt
<1>7. b = [a \in 0 .. Half(3 * w * h) - 1 |-> IF a < Half(3 * w * h) THEN a ELSE Garbage]
  BY DEF Decoded
<1> HIDE DEF b, w, h, P, Q, r, l
<1>8. Half(3 * P) = 3 * Q /\ P \in Nat
  BY <1>3 DEF Half
<1>9. \A a \in 0 .. 3 * Q - 1 : b[a] = a
  BY <1>3, <1>4, <1>7, <1>8
<1>10. Nv12At(P, w, x, y) = P + r
  BY <1>3, <1>8
<1>11. b[l] = l /\ b[P + r] = P + r /\ b[P + r + 1] = P + r + 1
  BY <1>3, <1>8, <1>9
<1>12. JpegPixel(b, w, h, x, y) = DecodedAt(w, h, x, y)
  BY <1>5, <1>6, <1>10, <1>11
<1>13. QED
  BY <1>12 DEF b, w, h

-----------------------------------------------------------------------------
(* Both conversions of a high picture: first the strips of the luma, where *)
(* they are, then those of the chroma, down from UvOff.                    *)
Spreads(dest, len) ==
  OneToOne(dest, len) /\ \A m \in 0 .. len - 1 : dest[m] \in 0 .. len - 1

Converted(b, n1, len1, dest1, n2, len2, dest2) ==
  /\ \A k \in 0 .. n1 - 1, m \in 0 .. len1 - 1 : b[k * len1 + dest1[m]] = k * len1 + m
  /\ \A k \in 0 .. n2 - 1, m \in 0 .. len2 - 1 :
       b[Wd * Ht + k * len2 + dest2[m]] = UvOff + k * len2 + m

LEMMA BothConverted ==
  ASSUME NEW n1 \in Nat, NEW len1 \in Nat, NEW dest1, Spreads(dest1, len1), n1 * len1 = Wd * Ht,
         NEW n2 \in Nat, NEW len2 \in Nat, NEW dest2, Spreads(dest2, len2),
         n2 * len2 = Half(Wd * Ht)
  PROVE  Converted(Strips(Strips(Camera(HighSize), n1, 0, 0, len1, dest1), n2, UvOff, Wd * Ht, len2, dest2),
                   n1, len1, dest1, n2, len2, dest2)
<1> DEFINE P == Wd * Ht
           s == HighSize
           C == Camera(s)
           mid == Strips(C, n1, 0, 0, len1, dest1)
           fin == Strips(mid, n2, UvOff, P, len2, dest2)
<1>1. P \in Nat /\ UvOff \in Nat /\ P <= UvOff /\ Half(P) \in Nat /\ s = UvOff + Half(P) /\ s \in Nat
  <2>1. P \in Nat /\ UvOff \in Nat /\ P <= UvOff
    BY LayoutAssumption
  <2>2. s = UvOff + Half(P)
    BY DEF HighSize
  <2> HIDE DEF P, s
  <2>3. QED
    BY <2>1, <2>2 DEF Half
<1>2. DOMAIN C = 0 .. s - 1 /\ \A a \in 0 .. s - 1 : C[a] = a
  BY DEF Camera
<1>3. n1 * len1 = P /\ n2 * len2 = Half(P)
  OBVIOUS
<1> HIDE DEF P, s, C
<1>4. 0 + n1 * len1 <= s /\ UvOff + n2 * len2 <= s /\ 0 \in Nat
  BY <1>1, <1>3
<1>5. Arrived(mid, C, n1, 0, 0, len1, dest1)
  <2> DEFINE z == 0
  <2>1. z \in Nat /\ z <= z /\ z + n1 * len1 <= s
    BY <1>4
  <2> HIDE DEF z, mid
  <2>2. Arrived(Strips(C, n1, z, z, len1, dest1), C, n1, z, z, len1, dest1)
    BY <1>1, <1>2, <2>1, StripsArrive DEF Spreads
  <2>3. QED
    BY <2>2 DEF z, mid
<1>6. Untouched(mid, C, s, 0, n1 * len1)
  BY <1>1, <1>2, StripsRest
<1> HIDE DEF mid
<1>7. DOMAIN mid = 0 .. s - 1 /\ \A a \in P .. s - 1 : mid[a] = a
  BY <1>1, <1>2, <1>3, <1>6 DEF Untouched
<1>8. Arrived(fin, mid, n2, UvOff, P, len2, dest2)
  BY <1>1, <1>4, <1>7, StripsArrive DEF Spreads
<1>9. Untouched(fin, mid, s, P, n2 * len2)
  BY <1>1, <1>7, StripsRest
<1> HIDE DEF fin
<1>10. ASSUME NEW k \in 0 .. n1 - 1, NEW m \in 0 .. len1 - 1
       PROVE  fin[k * len1 + dest1[m]] = k * len1 + m
  <2> DEFINE d == dest1[m]
  <2>1. d \in 0 .. len1 - 1
    BY DEF Spreads
  <2> HIDE DEF d
  <2>2. k * len1 + d \in 0 .. n1 * len1 - 1 /\ k * len1 + m \in 0 .. n1 * len1 - 1
    <3>1. len1 \in Nat \ {0}
      OBVIOUS
    <3>2. QED
      BY <2>1, <3>1, Rows
  <2>3. fin[k * len1 + d] = mid[k * len1 + d]
    <3> DEFINE a == k * len1 + d
    <3>1. a \in 0 .. P - 1
      BY <1>3, <2>2
    <3> HIDE DEF a
    <3>2. fin[a] = mid[a]
      BY <1>1, <1>9, <3>1 DEF Untouched
    <3>3. QED
      BY <3>2 DEF a
  <2>4. mid[k * len1 + d] = C[k * len1 + m]
    <3>1. 0 + k * len1 + d = k * len1 + d /\ 0 + k * len1 + m = k * len1 + m
      BY <2>1
    <3>2. mid[0 + k * len1 + d] = C[0 + k * len1 + m]
      BY <1>5, <2>1 DEF d, Arrived
    <3>3. QED
      BY <3>1, <3>2
  <2>5. C[k * len1 + m] = k * len1 + m
    BY <1>1, <1>2, <1>3, <2>2
  <2>6. QED
    BY <2>3, <2>4, <2>5 DEF d
<1>11. ASSUME NEW k \in 0 .. n2 - 1, NEW m \in 0 .. len2 - 1
       PROVE  fin[P + k * len2 + dest2[m]] = UvOff + k * len2 + m
  <2>1. k * len2 + m \in 0 .. n2 * len2 - 1
    <3>1. len2 \in Nat \ {0}
      OBVIOUS
    <3>2. QED
      BY <3>1, Rows
  <2>2. k * len2 \in Nat
    OBVIOUS
  <2>3. UvOff + k * len2 + m \in P .. s - 1
    <3> DEFINE g == k * len2
    <3>1. g + m \in 0 .. Half(P) - 1 /\ g \in Nat
      BY <1>3, <2>1, <2>2
    <3> HIDE DEF g
    <3>2. UvOff + g + m \in P .. s - 1
      BY <1>1, <3>1
    <3>3. QED
      BY <3>2 DEF g
  <2>4. fin[P + k * len2 + dest2[m]] = mid[UvOff + k * len2 + m]
    BY <1>8 DEF Arrived, Spreads
  <2>5. QED
    BY <1>7, <2>3, <2>4
<1>12. Converted(fin, n1, len1, dest1, n2, len2, dest2)
  BY <1>10, <1>11 DEF Converted, P
<1>13. QED
  BY <1>12 DEF fin, mid, C, s, P

(* The chroma of the generic models: row d, column c of part k (U or V) of *)
(* tile j.                                                                 *)
LEMMA ChromaTileAt ==
  ASSUME NEW j \in 0 .. Across - 1, NEW k \in 0 .. 1, NEW d \in 0 .. Side - 1, NEW c \in 0 .. Side - 1,
         NEW n, n = j * (2 * Area) + (k * Area + (d * Side + c))
  PROVE  /\ n \in 0 .. Half(Wd * MB) - 1
         /\ ChromaTile[n] = d * Wd + (2 * (j * Side + c) + k)
<1> DEFINE l == d * Side + c
<1>1. /\ Side \in Nat \ {0} /\ Area \in Nat \ {0} /\ Across \in Nat /\ Wd \in Nat \ {0}
      /\ Half(MB) = Side /\ MB = 2 * Side /\ Half(MB * MB) = 2 * Area
      /\ Half(Half(MB * MB)) = Area /\ Half(Wd * MB) = Across * (2 * Area) /\ j \in Nat
  BY TileSizes DEF Side
<1>2. l \in 0 .. Area - 1
  BY <1>1, Rows DEF Area
<1>3. l \div Side = d /\ l % Side = c
  <2>1. Side \in Nat \ {0} /\ d \in Nat
    BY <1>1
  <2>2. QED
    BY <2>1, Parts
<1> HIDE DEF l
<1>4. n = j * (2 * Area) + (k * Area + l)
  BY DEF l
<1>5. n \div (2 * Area) = j /\ (n \div Area) % 2 = k /\ n % Area = l
  <2>1. PICK K \in Nat \ {0} : K = 2
    OBVIOUS
  <2>2. k \in 0 .. K - 1 /\ Area \in Nat \ {0} /\ j \in Nat /\ n = j * (K * Area) + (k * Area + l)
    BY <1>1, <1>4, <2>1
  <2>3. IsPart(n, K, Area, j, k, l)
    BY <1>2, <2>2, TileParts
  <2>4. QED
    BY <2>1, <2>3 DEF IsPart
<1>6. n \in 0 .. Half(Wd * MB) - 1
  <2>1. k * Area + l \in 0 .. 2 * Area - 1
    BY <1>1, <1>2, Rows
  <2>2. 2 * Area \in Nat \ {0}
    BY <1>1
  <2> DEFINE C == 2 * Area
             r == k * Area + l
  <2>3. C \in Nat \ {0} /\ r \in 0 .. C - 1 /\ n = j * C + r /\ Half(Wd * MB) = Across * C
    BY <1>1, <1>4, <2>1, <2>2
  <2> HIDE DEF C, r
  <2>4. QED
    BY <1>1, <2>3, Rows
<1>7. ChromaTile[n] = j * MB + d * Wd + 2 * c + k
  BY <1>1, <1>3, <1>5, <1>6 DEF ChromaTile
<1>8. d * Wd \in Nat /\ j * (2 * Side) = 2 * (j * Side) /\ j * Side \in Nat
  BY <1>1
<1>9. QED
  BY <1>1, <1>6, <1>7, <1>8

LEMMA ChromaTileOf ==
  ASSUME NEW n \in 0 .. Half(Wd * MB) - 1
  PROVE  \E j \in 0 .. Across - 1, k \in 0 .. 1, d \in 0 .. Side - 1, c \in 0 .. Side - 1 :
           n = j * (2 * Area) + (k * Area + (d * Side + c))
<1>1. PICK j \in 0 .. Across - 1, k \in 0 .. 2 - 1, l \in 0 .. Area - 1 :
        n = j * (2 * Area) + (k * Area + l)
  <2>1. 2 \in Nat \ {0} /\ Area \in Nat \ {0} /\ Across \in Nat /\ n \in 0 .. Across * (2 * Area) - 1
    BY TileSizes
  <2>2. InTile(n, Across, 2, Area)
    BY <2>1, TileOf
  <2>3. QED
    BY <2>2 DEF InTile
<1>2. l \div Side \in 0 .. Side - 1 /\ l % Side \in 0 .. Side - 1 /\ l = (l \div Side) * Side + (l % Side)
  BY TileSizes, SquareOf DEF Area
<1>3. QED
  BY <1>1, <1>2

LEMMA ChromaPlace ==
  ASSUME NEW q \in Nat \ {0}, NEW W \in Nat, NEW j \in 0 .. W - 1, NEW c \in 0 .. q - 1, NEW k \in 0 .. 1
  PROVE  2 * (j * q + c) + k \in 0 .. W * (2 * q) - 1
<1>1. j * q + c \in 0 .. W * q - 1
  BY Rows
<1>2. W * (2 * q) = 2 * (W * q) /\ W * q \in Nat
  OBVIOUS
<1>3. QED
  BY <1>1, <1>2

LEMMA ChromaTilePlace ==
  ASSUME NEW j \in 0 .. Across - 1, NEW k \in 0 .. 1, NEW d \in 0 .. Side - 1, NEW c \in 0 .. Side - 1
  PROVE  /\ 2 * (j * Side + c) + k \in 0 .. Wd - 1
         /\ d * Wd + (2 * (j * Side + c) + k) \in 0 .. Half(Wd * MB) - 1
<1>1. /\ Side \in Nat \ {0} /\ Area \in Nat \ {0} /\ Across \in Nat /\ Wd \in Nat \ {0}
      /\ Wd = Across * (2 * Side) /\ Half(Wd * MB) = Across * (2 * Area)
  BY TileSizes
<1> DEFINE x == 2 * (j * Side + c) + k
<1>2. x \in 0 .. Wd - 1
  BY <1>1, ChromaPlace
<1> HIDE DEF x
<1>3. d * Wd + x \in 0 .. Side * Wd - 1
  BY <1>1, <1>2, Rows
<1>4. Side * Wd = Across * (2 * Area)
  BY <1>1 DEF Area
<1>5. QED
  BY <1>1, <1>2, <1>3, <1>4 DEF x

LEMMA ChromaTileSpreads == Spreads(ChromaTile, Half(Wd * MB))
<1>1. Side \in Nat \ {0} /\ Across \in Nat /\ Wd \in Nat \ {0}
  BY TileSizes
<1>2. ASSUME NEW m \in 0 .. Half(Wd * MB) - 1, NEW n \in 0 .. Half(Wd * MB) - 1, ChromaTile[m] = ChromaTile[n]
      PROVE  m = n
  <2>1. PICK j \in 0 .. Across - 1, k \in 0 .. 1, d \in 0 .. Side - 1, c \in 0 .. Side - 1 :
           n = j * (2 * Area) + (k * Area + (d * Side + c))
    BY ChromaTileOf
  <2>2. PICK i \in 0 .. Across - 1, h \in 0 .. 1, e \in 0 .. Side - 1, b \in 0 .. Side - 1 :
           m = i * (2 * Area) + (h * Area + (e * Side + b))
    BY ChromaTileOf
  <2> DEFINE g == j * Side + c
             f == i * Side + b
             x == 2 * g + k
             u == 2 * f + h
  <2>3. ChromaTile[n] = d * Wd + x /\ x \in 0 .. Wd - 1
    BY <2>1, ChromaTileAt, ChromaTilePlace
  <2>4. ChromaTile[m] = e * Wd + u /\ u \in 0 .. Wd - 1
    BY <2>2, ChromaTileAt, ChromaTilePlace
  <2>5. g \in Int /\ f \in Int
    BY <1>1
  <2> HIDE DEF x, u, g, f
  <2>6. x = u /\ d = e
    <3>1. d * Wd + x = e * Wd + u
      BY <1>2, <2>3, <2>4
    <3>2. QED
      BY <1>1, <2>3, <2>4, <3>1, SameParts
  <2>7. g = f /\ k = h
    BY <2>5, <2>6 DEF x, u
  <2>8. j = i /\ c = b
    BY <1>1, <2>7, SameParts DEF g, f
  <2>9. QED
    BY <2>1, <2>2, <2>6, <2>7, <2>8
<1>3. ASSUME NEW n \in 0 .. Half(Wd * MB) - 1 PROVE ChromaTile[n] \in 0 .. Half(Wd * MB) - 1
  BY ChromaTileOf, ChromaTileAt, ChromaTilePlace
<1>4. QED
  BY <1>2, <1>3 DEF OneToOne, Spreads

LEMMA TiledConverted ==
  Converted(img2YUV(Camera(HighSize)), Down, Wd * MB, LumaTile, Down, Half(Wd * MB), ChromaTile)
<1>1. /\ Down \in Nat /\ Wd * MB \in Nat /\ Half(Wd * MB) \in Nat /\ Wd \in Nat /\ MB \in Nat /\ Ht = Down * MB
      /\ Wd * MB = Across * (4 * Area) /\ Half(Wd * MB) = Across * (2 * Area)
      /\ Across \in Nat /\ Area \in Nat
  BY TileSizes
<1>2. Down * (Wd * MB) = Wd * Ht
  BY <1>1
<1>3. Down * Half(Wd * MB) = Half(Wd * Ht)
  <2> DEFINE X == Across * (2 * Area)
             Z == Down * X
  <2>1. X \in Nat /\ Z \in Nat /\ Half(Wd * MB) = X /\ Wd * MB = 2 * X
    BY <1>1
  <2>2. Wd * Ht = 2 * Z
    <3> HIDE DEF X
    <3>1. Wd * Ht = Down * (2 * X)
      BY <1>2, <2>1
    <3>2. QED
      BY <1>1, <2>1, <3>1
  <2> HIDE DEF Z
  <2>3. Half(Wd * Ht) = Z
    BY <2>1, <2>2 DEF Half
  <2>4. QED
    BY <2>1, <2>3 DEF Z
<1>4. Spreads(LumaTile, Wd * MB) /\ Spreads(ChromaTile, Half(Wd * MB))
  BY LumaTileOneToOne, ChromaTileSpreads DEF Spreads
<1>5. img2YUV(Camera(HighSize))
        = Strips(Strips(Camera(HighSize), Down, 0, 0, Wd * MB, LumaTile),
                 Down, UvOff, Wd * Ht, Half(Wd * MB), ChromaTile)
  BY DEF img2YUV, Down
<1> DEFINE L == Wd * MB
           M == Half(L)
<1>6. L \in Nat /\ M \in Nat /\ Down * L = Wd * Ht /\ Down * M = Half(Wd * Ht)
      /\ Spreads(LumaTile, L) /\ Spreads(ChromaTile, M)
  BY <1>1, <1>2, <1>3, <1>4
<1> HIDE DEF L, M
<1>7. Converted(Strips(Strips(Camera(HighSize), Down, 0, 0, L, LumaTile), Down, UvOff, Wd * Ht, M, ChromaTile),
                Down, L, LumaTile, Down, M, ChromaTile)
  BY <1>1, <1>6, BothConverted
<1>8. QED
  BY <1>5, <1>7 DEF L, M

(* Pixel <<x, y>> is in row a, column b of a quarter of a tile ...         *)
LEMMA TiledLuma ==
  ASSUME NEW i \in 0 .. Down - 1, NEW j \in 0 .. Across - 1, NEW k1 \in 0 .. 1, NEW k2 \in 0 .. 1,
         NEW a \in 0 .. Side - 1, NEW b \in 0 .. Side - 1,
         NEW x, x = j * (2 * Side) + (k1 * Side + b), NEW y, y = i * (2 * Side) + (k2 * Side + a)
  PROVE  img2YUV(Camera(HighSize))[y * Wd + x] = TiledAt(x, y)[1]
<1> DEFINE n == j * (4 * Area) + ((2 * k2 + k1) * Area + (a * Side + b))
           buf == img2YUV(Camera(HighSize))
           L == Wd * MB
<1>1. /\ Side \in Nat \ {0} /\ Area \in Nat \ {0} /\ Across \in Nat /\ Wd \in Nat \ {0} /\ Down \in Nat
      /\ Half(MB) = Side /\ MB = 2 * Side /\ MB * MB = 4 * Area /\ MB \in Nat /\ Half(MB * MB) = 2 * Area
      /\ Wd * MB = Across * (4 * Area) /\ Wd \div MB = Across /\ i \in Nat /\ j \in Nat
  <2>1. Half(MB) = Side /\ Wd \div MB = Across
    BY DEF Side, Across
  <2>2. QED
    BY <2>1, TileSizes
<1>2. n \in 0 .. L - 1 /\ LumaTile[n] = (k2 * Side + a) * Wd + x
  BY LumaTileAt
<1>3. buf[i * L + LumaTile[n]] = i * L + n
  BY <1>2, TiledConverted DEF Converted
<1>4. i * L + LumaTile[n] = y * Wd + x
  <2>1. i * L = (i * (2 * Side)) * Wd /\ i * (2 * Side) \in Nat /\ k2 * Side + a \in Nat
    BY <1>1
  <2> DEFINE u == i * (2 * Side)
             v == k2 * Side + a
  <2>2. u \in Nat /\ v \in Nat /\ y = u + v /\ i * L = u * Wd
    BY <2>1
  <2>3. x \in Nat
    BY <1>1
  <2> HIDE DEF u, v
  <2>4. y * Wd + x = u * Wd + (v * Wd + x)
    BY <1>1, <2>2, <2>3
  <2>5. QED
    BY <1>2, <2>2, <2>4 DEF v
<1>5. x \div MB = j /\ (x % MB) \div Side = k1 /\ x % Side = b
  <2>1. IsAcross(x, Side, j, k1, b)
    BY <1>1, AcrossParts
  <2>2. QED
    BY <1>1, <2>1 DEF IsAcross
<1>6. y \div MB = i /\ (y % MB) \div Side = k2 /\ y % Side = a
  <2>1. IsAcross(y, Side, i, k2, a)
    BY <1>1, AcrossParts
  <2>2. QED
    BY <1>1, <2>1 DEF IsAcross
<1>7. TiledAt(x, y)[1] = (i * Across + j) * MB * MB + (2 * k2 + k1) * Side * Side + (a * Side + b)
  BY <1>1, <1>5, <1>6 DEF TiledAt
<1>8. (i * Across + j) * MB * MB + (2 * k2 + k1) * Side * Side + (a * Side + b) = i * L + n
  <2> DEFINE g == i * Across
             k == 2 * k2 + k1
             l == a * Side + b
  <2>1. g \in Nat /\ k \in Nat /\ l \in Nat
    BY <1>1
  <2>2. i * L = g * (4 * Area) /\ n = j * (4 * Area) + (k * Area + l)
    BY <1>1
  <2> HIDE DEF g, k, l, n, L
  <2>3. (g + j) * MB * MB = (g + j) * (4 * Area)
    BY <1>1, <2>1
  <2>4. (g + j) * (4 * Area) = g * (4 * Area) + j * (4 * Area)
    BY <1>1, <2>1
  <2>5. k * Side * Side = k * Area
    BY <1>1, <2>1 DEF Area
  <2>6. /\ g * (4 * Area) \in Nat /\ j * (4 * Area) \in Nat /\ k * Area \in Nat
    BY <1>1, <2>1
  <2>7. (g + j) * MB * MB + k * Side * Side + l = i * L + n
    BY <2>1, <2>2, <2>3, <2>4, <2>5, <2>6
  <2>8. QED
    BY <2>7 DEF g, k, l
<1> HIDE DEF n, L
<1>9. QED
  BY <1>3, <1>4, <1>7, <1>8

(* ... and the chroma it shares in row d, column c of its tile's.          *)
LEMMA TiledChroma ==
  ASSUME NEW i \in 0 .. Down - 1, NEW j \in 0 .. Across - 1, NEW d \in 0 .. Side - 1, NEW c \in 0 .. Side - 1,
         NEW e \in 0 .. 1, NEW f \in 0 .. 1,
         NEW x, x = 2 * (j * Side + c) + e, NEW y, y = 2 * (i * Side + d) + f,
         NEW k \in 0 .. 1
  PROVE  img2YUV(Camera(HighSize))[Nv12At(Wd * Ht, Wd, x, y) + k] = TiledAt(x, y)[2 + k]
<1> DEFINE n == j * (2 * Area) + (k * Area + (d * Side + c))
           buf == img2YUV(Camera(HighSize))
           L == Half(Wd * MB)
           p == j * Side + c
           r == i * Side + d
           P == Wd * Ht
<1>1. /\ Side \in Nat \ {0} /\ Area \in Nat \ {0} /\ Across \in Nat /\ Wd \in Nat \ {0} /\ Down \in Nat
      /\ Half(MB) = Side /\ MB = 2 * Side /\ MB \in Nat /\ Half(MB * MB) = 2 * Area
      /\ Half(Wd * MB) = Across * (2 * Area) /\ Wd \div MB = Across /\ i \in Nat /\ j \in Nat
      /\ P \in Nat /\ UvOff \in Nat /\ Wd = Across * (2 * Side)
  BY TileSizes, LayoutAssumption DEF Side, Across
<1>2. n \in 0 .. L - 1 /\ ChromaTile[n] = d * Wd + (2 * p + k)
  BY ChromaTileAt
<1>3. buf[P + i * L + ChromaTile[n]] = UvOff + i * L + n
  BY <1>2, TiledConverted DEF Converted
<1>4. /\ p \in Nat /\ r \in Nat /\ p \div Side = j /\ p % Side = c /\ r \div Side = i /\ r % Side = d
  <2>1. Side \in Nat \ {0} /\ j \in Nat /\ i \in Nat
    BY <1>1
  <2>2. p \in Nat /\ r \in Nat
    BY <2>1
  <2>3. p \div Side = j /\ p % Side = c
    BY <2>1, Parts
  <2>4. r \div Side = i /\ r % Side = d
    BY <2>1, Parts
  <2>5. QED
    BY <2>2, <2>3, <2>4
<1>5. /\ x \in Nat /\ Half(x) = p /\ x - (x % 2) = 2 * p /\ y \in Nat /\ Half(y) = r
  <2> HIDE DEF p, r
  <2>1. x = 2 * p + e /\ y = 2 * r + f
    BY DEF p, r
  <2>2. QED
    <3>1. p \in Nat /\ r \in Nat
      BY <1>4
    <3>2. IsPair(x, p)
      BY <2>1, <3>1, HalfIs
    <3>3. IsPair(y, r)
      BY <2>1, <3>1, HalfIs
    <3>4. QED
      BY <3>2, <3>3 DEF IsPair
<1>6. x \div MB = j /\ y \div MB = i
  <2>1. 2 * c + e \in 0 .. 2 * Side - 1 /\ x = j * (2 * Side) + (2 * c + e)
    BY <1>1
  <2>2. 2 * d + f \in 0 .. 2 * Side - 1 /\ y = i * (2 * Side) + (2 * d + f)
    BY <1>1
  <2> DEFINE C == 2 * Side
             s == 2 * c + e
             t == 2 * d + f
  <2>3. C \in Nat \ {0} /\ C = MB /\ i \in Nat /\ j \in Nat
    BY <1>1
  <2>4. s \in 0 .. C - 1 /\ t \in 0 .. C - 1 /\ x = j * C + s /\ y = i * C + t
    BY <2>1, <2>2
  <2> HIDE DEF C, s, t
  <2>5. (j * C + s) \div C = j
    BY <2>3, <2>4, Parts
  <2>6. (i * C + t) \div C = i
    BY <2>3, <2>4, Parts
  <2>7. QED
    BY <2>3, <2>4, <2>5, <2>6
<1>7. Nv12At(P, Wd, x, y) + k = P + i * L + ChromaTile[n]
  <2>1. i * L = (i * Side) * Wd /\ i * Side \in Nat
    BY <1>1 DEF Area
  <2> DEFINE u == i * Side
  <2>2. u \in Nat /\ r = u + d /\ i * L = u * Wd
    BY <2>1
  <2> HIDE DEF u, r, p, L, P
  <2>3. r * Wd = u * Wd + d * Wd /\ u * Wd \in Nat /\ d * Wd \in Nat
    BY <1>1, <2>2
  <2>4. Nv12At(P, Wd, x, y) = P + r * Wd + 2 * p
    BY <1>1, <1>4, <1>5, <2>3 DEF Nv12At
  <2>5. QED
    BY <1>1, <1>2, <1>4, <2>2, <2>3, <2>4
<1>8. TiledAt(x, y)[2] = UvOff + (i * Across + j) * (2 * Area) + (d * Side + c)
  BY <1>1, <1>4, <1>5, <1>6 DEF TiledAt
<1>9. TiledAt(x, y)[3] = TiledAt(x, y)[2] + Area
  BY <1>1 DEF TiledAt, Area
<1>10. UvOff + (i * Across + j) * (2 * Area) + (d * Side + c) + k * Area = UvOff + i * L + n
  <2> DEFINE g == i * Across
             l == d * Side + c
  <2>1. g \in Nat /\ l \in Nat
    BY <1>1
  <2>2. i * L = g * (2 * Area) /\ n = j * (2 * Area) + (k * Area + l)
    BY <1>1
  <2> HIDE DEF g, l, n, L
  <2>3. (g + j) * (2 * Area) = g * (2 * Area) + j * (2 * Area)
    BY <1>1, <2>1
  <2>4. /\ g * (2 * Area) \in Nat /\ j * (2 * Area) \in Nat /\ k * Area \in Nat
    BY <1>1, <2>1
  <2>5. UvOff + (g + j) * (2 * Area) + l + k * Area = UvOff + i * L + n
    BY <1>1, <2>1, <2>2, <2>3, <2>4
  <2>6. QED
    BY <2>5 DEF g, l
<1>11. UvOff + (i * Across + j) * (2 * Area) + (d * Side + c) \in Nat
  <2>1. (i * Across + j) * (2 * Area) \in Nat /\ d * Side + c \in Nat
    BY <1>1
  <2>2. QED
    BY <1>1, <2>1
<1> HIDE DEF n, L, buf
<1>12. buf[Nv12At(P, Wd, x, y) + k] = UvOff + i * L + n
  BY <1>3, <1>7
<1>13. TiledAt(x, y)[2 + k] = TiledAt(x, y)[2] + k * Area
  <2> DEFINE T == TiledAt(x, y)
  <2>1. T[3] = T[2] + Area /\ T[2] \in Nat
    BY <1>8, <1>9, <1>11
  <2> HIDE DEF T
  <2>2. CASE k = 0
    <3>1. T[2 + k] = T[2] /\ T[2] + k * Area = T[2]
      BY <1>1, <2>1, <2>2
    <3>2. QED
      BY <3>1 DEF T
  <2>3. CASE k = 1
    <3>1. T[2 + k] = T[3] /\ k * Area = Area
      BY <1>1, <2>3
    <3>2. QED
      BY <2>1, <3>1 DEF T
  <2>4. QED
    BY <2>2, <2>3 DEF T
<1>14. QED
  BY <1>8, <1>10, <1>12, <1>13 DEF buf

InPairs(x, W, q) ==
  \E j \in 0 .. W - 1, c \in 0 .. q - 1, e \in 0 .. 1 : x = 2 * (j * q + c) + e

LEMMA PairOf ==
  ASSUME NEW q \in Nat \ {0}, NEW W \in Nat, NEW x \in 0 .. W * (2 * q) - 1
  PROVE  InPairs(x, W, q)
<1> DEFINE p == Half(x)
           e == x % 2
           j == p \div q
           c == p % q
<1>1. W * (2 * q) = 2 * (W * q) /\ W * q \in Nat /\ x \in Nat
  OBVIOUS
<1>2. p \in 0 .. W * q - 1 /\ e \in 0 .. 1 /\ x = 2 * p + e
  BY <1>1 DEF Half
<1> HIDE DEF p, e
<1>3. p \in Nat
  BY <1>1, <1>2
<1>4. j \in 0 .. W - 1
  BY <1>2, InRows
<1>5. c \in 0 .. q - 1 /\ p = j * q + c
  BY <1>3, Split
<1> HIDE DEF j, c
<1>6. QED
  BY <1>2, <1>4, <1>5 DEF InPairs

(* The three bytes in any tile of any picture: what the conversion of the  *)
(* generic models gives libjpeg is what the camera keeps for the pixel.    *)
LEMMA TiledPixels ==
  ASSUME NEW x \in 0 .. Wd - 1, NEW y \in 0 .. Ht - 1
  PROVE  JpegPixel(img2YUV(Camera(HighSize)), Wd, Ht, x, y) = TiledAt(x, y)
<1> DEFINE buf == img2YUV(Camera(HighSize))
           nv == Nv12At(Wd * Ht, Wd, x, y)
           T == TiledAt(x, y)
<1>1. /\ Side \in Nat \ {0} /\ Across \in Nat /\ Down \in Nat /\ Wd \in Nat \ {0} /\ Ht \in Nat \ {0}
      /\ x \in 0 .. Across * (2 * Side) - 1 /\ y \in 0 .. Down * (2 * Side) - 1
      /\ x \in Nat /\ y \in Nat
  BY TileSizes, LayoutAssumption
<1>2. buf[y * Wd + x] = T[1]
  <2>1. InAcross(x, Across, Side) /\ InAcross(y, Down, Side)
    BY <1>1, AcrossOf
  <2>2. PICK j \in 0 .. Across - 1, k1 \in 0 .. 1, b \in 0 .. Side - 1 : x = j * (2 * Side) + (k1 * Side + b)
    BY <2>1 DEF InAcross
  <2>3. PICK i \in 0 .. Down - 1, k2 \in 0 .. 1, a \in 0 .. Side - 1 : y = i * (2 * Side) + (k2 * Side + a)
    BY <2>1 DEF InAcross
  <2>4. QED
    BY <2>2, <2>3, TiledLuma
<1>3. \A k \in 0 .. 1 : buf[nv + k] = T[2 + k]
  <2>1. InPairs(x, Across, Side) /\ InPairs(y, Down, Side)
    BY <1>1, PairOf
  <2>2. PICK j \in 0 .. Across - 1, c \in 0 .. Side - 1, e \in 0 .. 1 : x = 2 * (j * Side + c) + e
    BY <2>1 DEF InPairs
  <2>3. PICK i \in 0 .. Down - 1, d \in 0 .. Side - 1, f \in 0 .. 1 : y = 2 * (i * Side + d) + f
    BY <2>1 DEF InPairs
  <2>4. QED
    BY <2>2, <2>3, TiledChroma
<1>4. nv \in Nat
  <2>1. NvSizes(Wd, Ht, x, y)
    BY <1>1, HighIsEven, NvAddresses
  <2>2. Wd * Ht \in Nat
    BY <1>1
  <2>3. QED
    BY <2>1, <2>2 DEF NvSizes
<1>5. T = <<T[1], T[2], T[3]>>
  BY DEF TiledAt
<1>6. Given(buf, Wd, Ht, x, y)
  BY <1>1, JpegIs
<1> HIDE DEF buf, nv, T
<1>7. buf[nv] = T[2] /\ buf[nv + 1] = T[3]
  <2>1. nv + 0 = nv /\ 2 + 0 = 2 /\ 2 + 1 = 3 /\ 0 \in 0 .. 1 /\ 1 \in 0 .. 1
    BY <1>4
  <2>2. buf[nv + 0] = T[2 + 0] /\ buf[nv + 1] = T[2 + 1]
    BY <1>3, <2>1
  <2>3. QED
    BY <2>1, <2>2
<1>8. JpegPixel(buf, Wd, Ht, x, y) = <<buf[y * Wd + x], buf[nv], buf[nv + 1]>>
  BY <1>6 DEF Given, nv
<1>9. JpegPixel(buf, Wd, Ht, x, y) = T
  BY <1>2, <1>5, <1>7, <1>8
<1>10. QED
  BY <1>9 DEF buf, T

-----------------------------------------------------------------------------
(* The small blocks of the H305R: Wb pairs of them across, Hb down.        *)
BB == B * B
Wb == Half(Wd) \div B
Hb == Half(Ht) \div B

LEMMA BlockSizes ==
  /\ B \in Nat \ {0} /\ BB \in Nat \ {0} /\ Wb \in Nat /\ Hb \in Nat
  /\ Wd = Wb * (2 * B) /\ Ht = Hb * (2 * B) /\ Wd \in Nat \ {0} /\ Ht \in Nat \ {0}
  /\ Half(Wd) = Wb * B /\ Wd \div B = 2 * Wb /\ Ht \div B = 2 * Hb
  /\ Wd * B = (2 * Wb) * BB /\ Wd * B = 2 * (Wb * BB) /\ Wb * BB \in Nat /\ Wd * B \in Nat
<1>1. B \in Nat \ {0} /\ Wd \in Nat \ {0} /\ Ht \in Nat \ {0} /\ 0 \in 0 .. B - 1
  BY LayoutAssumption
<1>2. PICK w \in Nat : Wd = w * (2 * B)
  BY HighIsEven
<1>3. PICK h \in Nat : Ht = h * (2 * B)
  BY HighIsEven
<1>4. Half(Wd) = w * B
  <2> DEFINE p == w * B
  <2>1. p \in Nat /\ Wd = 2 * p
    BY <1>1, <1>2
  <2> HIDE DEF p
  <2>2. QED
    BY <2>1 DEF Half, p
<1>5. Half(Ht) = h * B
  <2> DEFINE p == h * B
  <2>1. p \in Nat /\ Ht = 2 * p
    BY <1>1, <1>3
  <2> HIDE DEF p
  <2>2. QED
    BY <2>1 DEF Half, p
<1>6. \A n \in Nat : (n * B) \div B = n
  <2> SUFFICES ASSUME NEW n \in Nat PROVE (n * B) \div B = n
    OBVIOUS
  <2>1. (n * B + 0) \div B = n
    BY <1>1, Parts
  <2>2. n * B + 0 = n * B
    BY <1>1
  <2>3. QED
    BY <2>1, <2>2
<1>7. Wb = w /\ Hb = h
  BY <1>4, <1>5, <1>6 DEF Wb, Hb
<1>8. Wd \div B = 2 * w /\ Ht \div B = 2 * h
  <2> DEFINE p == 2 * w
             q == 2 * h
  <2>1. p \in Nat /\ q \in Nat /\ Wd = p * B /\ Ht = q * B
    BY <1>1, <1>2, <1>3
  <2> HIDE DEF p, q
  <2>2. Wd \div B = p /\ Ht \div B = q
    BY <1>6, <2>1
  <2>3. QED
    BY <2>2 DEF p, q
<1>9. BB \in Nat \ {0}
  BY <1>1 DEF BB
<1>10. Wd * B = (2 * w) * BB /\ Wd * B = 2 * (w * BB) /\ w * BB \in Nat /\ Wd * B \in Nat
  BY <1>1, <1>2 DEF BB
<1>11. QED
  BY <1>1, <1>2, <1>3, <1>4, <1>7, <1>8, <1>9, <1>10

(* Byte n of a strip of luma is for row a, column b of block j ...         *)
LEMMA LumaBlockAt ==
  ASSUME NEW j \in 0 .. 2 * Wb - 1, NEW a \in 0 .. B - 1, NEW b \in 0 .. B - 1,
         NEW n, n = j * BB + ((B - 1 - a) * B + (B - 1 - b))
  PROVE  n \in 0 .. Wd * B - 1 /\ LumaBlock[n] = a * Wd + (j * B + b)
<1> DEFINE s == B - 1 - a
           t == B - 1 - b
           l == s * B + t
           W == 2 * Wb
<1>1. /\ B \in Nat \ {0} /\ BB \in Nat \ {0} /\ W \in Nat /\ Wd \in Nat \ {0} /\ Wd * B = W * BB
  BY BlockSizes
<1>2. s \in 0 .. B - 1 /\ t \in 0 .. B - 1 /\ j \in Nat /\ B - 1 - s = a /\ B - 1 - t = b
  BY <1>1
<1> HIDE DEF s, t, W
<1>3. l \in 0 .. BB - 1
  BY <1>1, <1>2, Rows DEF BB
<1>4. l \div B = s /\ l % B = t
  <2>1. s \in Nat
    BY <1>2
  <2>2. QED
    BY <1>1, <1>2, <2>1, Parts
<1> HIDE DEF l
<1>5. n = j * BB + l /\ j \in 0 .. W - 1
  BY DEF l, s, t, W
<1>6. (j * BB + l) \div BB = j /\ (j * BB + l) % BB = l
  BY <1>1, <1>2, <1>3, Parts
<1>7. n \in 0 .. Wd * B - 1
  BY <1>1, <1>3, <1>5, Rows
<1>8. LumaBlock[n] = (n \div BB) * B + (B - 1 - (n % BB) \div B) * Wd + B - 1 - ((n % BB) % B)
  BY <1>7 DEF LumaBlock, BB
<1>9. LumaBlock[n] = j * B + a * Wd + (B - 1 - t)
  BY <1>1, <1>2, <1>4, <1>5, <1>6, <1>8
<1>10. j * B \in Nat /\ a * Wd \in Nat
  BY <1>1, <1>2
<1>11. QED
  BY <1>1, <1>2, <1>7, <1>9, <1>10

LEMMA LumaBlockOf ==
  ASSUME NEW n \in 0 .. Wd * B - 1
  PROVE  \E j \in 0 .. 2 * Wb - 1, a \in 0 .. B - 1, b \in 0 .. B - 1 :
           n = j * BB + ((B - 1 - a) * B + (B - 1 - b))
<1> DEFINE W == 2 * Wb
           j == n \div BB
           l == n % BB
<1>1. B \in Nat \ {0} /\ BB \in Nat \ {0} /\ W \in Nat /\ n \in 0 .. W * BB - 1 /\ n \in Nat
  BY BlockSizes
<1> HIDE DEF W
<1>2. j \in 0 .. W - 1
  BY <1>1, InRows
<1>3. l \in 0 .. BB - 1 /\ n = j * BB + l
  BY <1>1, Split
<1> HIDE DEF j, l
<1>4. l \div B \in 0 .. B - 1 /\ l % B \in 0 .. B - 1 /\ l = (l \div B) * B + (l % B)
  BY <1>1, <1>3, SquareOf DEF BB
<1> DEFINE s == l \div B
           t == l % B
           a == B - 1 - s
           b == B - 1 - t
<1>5. s \in 0 .. B - 1 /\ t \in 0 .. B - 1 /\ l = s * B + t
  BY <1>4
<1> HIDE DEF s, t
<1>6. a \in 0 .. B - 1 /\ b \in 0 .. B - 1 /\ B - 1 - a = s /\ B - 1 - b = t
  BY <1>1, <1>5
<1> HIDE DEF a, b
<1>7. n = j * BB + ((B - 1 - a) * B + (B - 1 - b))
  BY <1>3, <1>5, <1>6
<1>8. QED
  BY <1>2, <1>6, <1>7 DEF W

LEMMA LumaBlockPlace ==
  ASSUME NEW j \in 0 .. 2 * Wb - 1, NEW a \in 0 .. B - 1, NEW b \in 0 .. B - 1
  PROVE  j * B + b \in 0 .. Wd - 1 /\ a * Wd + (j * B + b) \in 0 .. Wd * B - 1
<1> DEFINE W == 2 * Wb
           x == j * B + b
<1>1. B \in Nat \ {0} /\ W \in Nat /\ Wd \in Nat \ {0} /\ Wd = W * B /\ B * Wd = Wd * B /\ j \in 0 .. W - 1
  BY BlockSizes
<1> HIDE DEF W
<1>2. x \in 0 .. Wd - 1
  BY <1>1, Rows
<1> HIDE DEF x
<1>3. a * Wd + x \in 0 .. B * Wd - 1
  BY <1>1, <1>2, Rows
<1>4. QED
  BY <1>1, <1>2, <1>3 DEF x

LEMMA LumaBlockSpreads == Spreads(LumaBlock, Wd * B)
<1>1. B \in Nat \ {0} /\ Wd \in Nat \ {0}
  BY BlockSizes
<1>2. ASSUME NEW m \in 0 .. Wd * B - 1, NEW n \in 0 .. Wd * B - 1, LumaBlock[m] = LumaBlock[n]
      PROVE  m = n
  <2>1. PICK j \in 0 .. 2 * Wb - 1, a \in 0 .. B - 1, b \in 0 .. B - 1 :
           n = j * BB + ((B - 1 - a) * B + (B - 1 - b))
    BY LumaBlockOf
  <2>2. PICK i \in 0 .. 2 * Wb - 1, c \in 0 .. B - 1, d \in 0 .. B - 1 :
           m = i * BB + ((B - 1 - c) * B + (B - 1 - d))
    BY LumaBlockOf
  <2> DEFINE x == j * B + b
             u == i * B + d
  <2>3. LumaBlock[n] = a * Wd + x /\ x \in 0 .. Wd - 1
    BY <2>1, LumaBlockAt, LumaBlockPlace
  <2>4. LumaBlock[m] = c * Wd + u /\ u \in 0 .. Wd - 1
    BY <2>2, LumaBlockAt, LumaBlockPlace
  <2> HIDE DEF x, u
  <2>5. a = c /\ x = u
    <3>1. a * Wd + x = c * Wd + u
      BY <1>2, <2>3, <2>4
    <3>2. QED
      BY <1>1, <2>3, <2>4, <3>1, SameParts
  <2>6. j = i /\ b = d
    BY <1>1, <2>5, SameParts DEF x, u
  <2>7. QED
    BY <2>1, <2>2, <2>5, <2>6
<1>3. ASSUME NEW n \in 0 .. Wd * B - 1 PROVE LumaBlock[n] \in 0 .. Wd * B - 1
  <2>1. PICK j \in 0 .. 2 * Wb - 1, a \in 0 .. B - 1, b \in 0 .. B - 1 :
           n = j * BB + ((B - 1 - a) * B + (B - 1 - b))
    BY LumaBlockOf
  <2>2. LumaBlock[n] = a * Wd + (j * B + b)
    BY <2>1, LumaBlockAt
  <2>3. QED
    BY <2>2, LumaBlockPlace
<1>4. QED
  BY <1>2, <1>3 DEF OneToOne, Spreads

(* ... and of the chroma, V (h = 1) before U, for row d, column c.         *)
LEMMA ChromaBlockAt ==
  ASSUME NEW j \in 0 .. Wb - 1, NEW d \in 0 .. B - 1, NEW c \in 0 .. B - 1, NEW h \in 0 .. 1,
         NEW n, n = 2 * (j * BB + (d * B + (B - 1 - c))) + (1 - h)
  PROVE  n \in 0 .. Wd * B - 1 /\ ChromaBlock[n] = d * Wd + (2 * (j * B + c) + h)
<1> DEFINE t == B - 1 - c
           l == d * B + t
           m == j * BB + l
<1>1. /\ B \in Nat \ {0} /\ BB \in Nat \ {0} /\ Wb \in Nat /\ Wd \in Nat \ {0} /\ Wd * B = 2 * (Wb * BB)
      /\ Half(Wd) = Wb * B /\ Wd = Wb * (2 * B)
  BY BlockSizes
<1>2. t \in 0 .. B - 1 /\ j \in Nat /\ d \in Nat /\ B - 1 - t = c
  BY <1>1
<1> HIDE DEF t
<1>3. l \in 0 .. BB - 1
  BY <1>1, <1>2, Rows DEF BB
<1>4. l \div B = d /\ l % B = t
  BY <1>1, <1>2, Parts
<1> HIDE DEF l
<1>5. m \in 0 .. Wb * BB - 1
  BY <1>1, <1>3, Rows
<1>6. m \div BB = j /\ m % BB = l
  BY <1>1, <1>2, <1>3, Parts
<1>7. n = 2 * m + (1 - h) /\ m \in Nat
  <2>1. m \in Nat
    BY <1>1, <1>2, <1>3
  <2>2. QED
    BY <2>1 DEF l, t
<1> HIDE DEF m
<1>8. n \in 0 .. Wd * B - 1 /\ Half(n) = m /\ n % 2 = 1 - h
  <2> DEFINE g == Wb * BB
  <2>1. g \in Nat /\ Wd * B = 2 * g /\ m \in 0 .. g - 1
    BY <1>1, <1>5
  <2> HIDE DEF g
  <2> DEFINE k == 1 - h
  <2>2. k \in 0 .. 1 /\ n = 2 * m + k
    BY <1>7
  <2> HIDE DEF k
  <2>3. n \in 0 .. 2 * g - 1
    BY <2>1, <2>2
  <2>4. Half(n) = m /\ n % 2 = k
    <3>1. IsPair(n, m)
      BY <1>7, <2>2, HalfIs
    <3>2. n \in Nat /\ Half(n) = m /\ n - (n % 2) = 2 * m /\ n % 2 \in Nat
      BY <3>1 DEF IsPair
    <3>3. QED
      BY <1>7, <2>2, <3>2
  <2>5. QED
    BY <2>1, <2>3, <2>4 DEF k
<1>9. ChromaBlock[n] = 2 * ((Half(n) \div BB) * B + ((Half(n) % BB) \div B) * Half(Wd) + B - 1 - ((Half(n) % BB) % B)) + 1 - (n % 2)
  BY <1>8 DEF ChromaBlock, BB
<1>10. ChromaBlock[n] = 2 * (j * B + d * Half(Wd) + (B - 1 - t)) + h
  <2> DEFINE z == 2 * (j * B + d * Half(Wd) + B - 1 - t)
  <2>1. ChromaBlock[n] = z + 1 - (1 - h)
    BY <1>4, <1>6, <1>8, <1>9
  <2>2. j * B \in Nat /\ d * Half(Wd) \in Nat
    BY <1>1, <1>2
  <2>3. z = 2 * (j * B + d * Half(Wd) + (B - 1 - t)) /\ z \in Int
    BY <1>1, <1>2, <2>2
  <2> HIDE DEF z
  <2>4. ChromaBlock[n] = z + h
    BY <2>1, <2>3
  <2>5. QED
    BY <2>3, <2>4
<1>11. 2 * (d * Half(Wd)) = d * Wd /\ d * Half(Wd) \in Nat /\ d * Wd \in Nat /\ j * B \in Nat
  BY <1>1, <1>2
<1>12. QED
  BY <1>2, <1>8, <1>10, <1>11

LEMMA ChromaBlockOf ==
  ASSUME NEW n \in 0 .. Wd * B - 1
  PROVE  \E j \in 0 .. Wb - 1, d \in 0 .. B - 1, c \in 0 .. B - 1, h \in 0 .. 1 :
           n = 2 * (j * BB + (d * B + (B - 1 - c))) + (1 - h)
<1> DEFINE W == Wb * BB
           m == Half(n)
           h == 1 - (n % 2)
           j == m \div BB
           l == m % BB
<1>1. B \in Nat \ {0} /\ BB \in Nat \ {0} /\ Wb \in Nat /\ W \in Nat /\ n \in 0 .. 2 * W - 1
  BY BlockSizes
<1> HIDE DEF W
<1>2. m \in 0 .. W - 1 /\ m \in Nat /\ h \in 0 .. 1 /\ n = 2 * m + (1 - h)
  BY <1>1 DEF Half
<1> HIDE DEF m, h
<1>3. j \in 0 .. Wb - 1
  BY <1>1, <1>2, InRows DEF W
<1>4. l \in 0 .. BB - 1 /\ m = j * BB + l
  BY <1>1, <1>2, Split
<1> HIDE DEF j, l
<1> DEFINE d == l \div B
           t == l % B
           c == B - 1 - t
<1>5. d \in 0 .. B - 1 /\ t \in 0 .. B - 1 /\ l = d * B + t
  BY <1>1, <1>4, SquareOf DEF BB
<1> HIDE DEF d, t
<1>6. c \in 0 .. B - 1 /\ B - 1 - c = t
  BY <1>1, <1>5
<1> HIDE DEF c
<1>7. n = 2 * (j * BB + (d * B + (B - 1 - c))) + (1 - h)
  BY <1>2, <1>4, <1>5, <1>6
<1>8. QED
  BY <1>2, <1>3, <1>5, <1>6, <1>7

LEMMA ChromaBlockPlace ==
  ASSUME NEW j \in 0 .. Wb - 1, NEW d \in 0 .. B - 1, NEW c \in 0 .. B - 1, NEW h \in 0 .. 1
  PROVE  /\ 2 * (j * B + c) + h \in 0 .. Wd - 1
         /\ d * Wd + (2 * (j * B + c) + h) \in 0 .. Wd * B - 1
<1> DEFINE x == 2 * (j * B + c) + h
<1>1. B \in Nat \ {0} /\ Wb \in Nat /\ Wd \in Nat \ {0} /\ Wd = Wb * (2 * B) /\ B * Wd = Wd * B
  BY BlockSizes
<1>2. x \in 0 .. Wd - 1
  BY <1>1, ChromaPlace
<1> HIDE DEF x
<1>3. d * Wd + x \in 0 .. B * Wd - 1
  BY <1>1, <1>2, Rows
<1>4. QED
  BY <1>1, <1>2, <1>3 DEF x

LEMMA ChromaBlockSpreads == Spreads(ChromaBlock, Wd * B)
<1>1. B \in Nat \ {0} /\ Wd \in Nat \ {0}
  BY BlockSizes
<1>2. ASSUME NEW m \in 0 .. Wd * B - 1, NEW n \in 0 .. Wd * B - 1, ChromaBlock[m] = ChromaBlock[n]
      PROVE  m = n
  <2>1. PICK j \in 0 .. Wb - 1, d \in 0 .. B - 1, c \in 0 .. B - 1, h \in 0 .. 1 :
           n = 2 * (j * BB + (d * B + (B - 1 - c))) + (1 - h)
    BY ChromaBlockOf
  <2>2. PICK i \in 0 .. Wb - 1, e \in 0 .. B - 1, b \in 0 .. B - 1, f \in 0 .. 1 :
           m = 2 * (i * BB + (e * B + (B - 1 - b))) + (1 - f)
    BY ChromaBlockOf
  <2> DEFINE p == j * B + c
             q == i * B + b
             x == 2 * p + h
             u == 2 * q + f
  <2>3. ChromaBlock[n] = d * Wd + x /\ x \in 0 .. Wd - 1
    <3>1. ChromaBlock[n] = d * Wd + x
      BY <2>1, ChromaBlockAt
    <3>2. QED
      BY <3>1, ChromaBlockPlace
  <2>4. ChromaBlock[m] = e * Wd + u /\ u \in 0 .. Wd - 1
    <3>1. ChromaBlock[m] = e * Wd + u
      BY <2>2, ChromaBlockAt
    <3>2. QED
      BY <3>1, ChromaBlockPlace
  <2>5. p \in Int /\ q \in Int
    BY <1>1
  <2> HIDE DEF x, u, p, q
  <2>6. d = e /\ x = u
    <3>1. d * Wd + x = e * Wd + u
      BY <1>2, <2>3, <2>4
    <3>2. QED
      BY <1>1, <2>3, <2>4, <3>1, SameParts
  <2>7. p = q /\ h = f
    BY <2>5, <2>6 DEF x, u
  <2>8. j = i /\ c = b
    BY <1>1, <2>7, SameParts DEF p, q
  <2>9. QED
    BY <2>1, <2>2, <2>6, <2>7, <2>8
<1>3. ASSUME NEW n \in 0 .. Wd * B - 1 PROVE ChromaBlock[n] \in 0 .. Wd * B - 1
  <2>1. PICK j \in 0 .. Wb - 1, d \in 0 .. B - 1, c \in 0 .. B - 1, h \in 0 .. 1 :
           n = 2 * (j * BB + (d * B + (B - 1 - c))) + (1 - h)
    BY ChromaBlockOf
  <2>2. ChromaBlock[n] = d * Wd + (2 * (j * B + c) + h)
    BY <2>1, ChromaBlockAt
  <2>3. QED
    BY <2>2, ChromaBlockPlace
<1>4. QED
  BY <1>2, <1>3 DEF OneToOne, Spreads

LEMMA BlockedConverted ==
  Converted(img2YUV_2(Camera(HighSize)), 2 * Hb, Wd * B, LumaBlock, Hb, Wd * B, ChromaBlock)
<1> DEFINE L == Wd * B
           G == 2 * Hb
           P == Wd * Ht
<1>1. /\ B \in Nat \ {0} /\ Hb \in Nat /\ Wd \in Nat /\ Ht = Hb * (2 * B) /\ Ht \div B = G
  BY BlockSizes
<1>2. L \in Nat /\ G \in Nat /\ G * L = P /\ P = 2 * (Hb * L) /\ Hb * L \in Nat
  BY <1>1
<1>3. Hb * L = Half(P)
  <2> DEFINE g == Hb * L
  <2> HIDE DEF P, g
  <2>1. g \in Nat /\ P = 2 * g
    BY <1>2 DEF g
  <2>2. Half(P) = g
    BY <2>1 DEF Half
  <2>3. QED
    BY <2>2 DEF g
<1>4. Spreads(LumaBlock, L) /\ Spreads(ChromaBlock, L)
  BY LumaBlockSpreads, ChromaBlockSpreads
<1>5. img2YUV_2(Camera(HighSize))
        = Strips(Strips(Camera(HighSize), G, 0, 0, L, LumaBlock), Hb, UvOff, P, L, ChromaBlock)
  BY <1>1 DEF img2YUV_2, Hb
<1>6. G * L = Wd * Ht /\ Hb * L = Half(Wd * Ht)
  BY <1>2, <1>3
<1> HIDE DEF L, G
<1>7. Converted(Strips(Strips(Camera(HighSize), G, 0, 0, L, LumaBlock), Hb, UvOff, Wd * Ht, L, ChromaBlock),
                G, L, LumaBlock, Hb, L, ChromaBlock)
  BY <1>1, <1>2, <1>4, <1>6, BothConverted
<1>8. QED
  BY <1>5, <1>7 DEF L, G

LEMMA BlockedLuma ==
  ASSUME NEW i \in 0 .. 2 * Hb - 1, NEW j \in 0 .. 2 * Wb - 1, NEW a \in 0 .. B - 1, NEW b \in 0 .. B - 1,
         NEW x, x = j * B + b, NEW y, y = i * B + a
  PROVE  img2YUV_2(Camera(HighSize))[y * Wd + x] = BlockedAt(x, y)[1]
<1> DEFINE s == B - 1 - a
           t == B - 1 - b
           n == j * BB + (s * B + t)
           buf == img2YUV_2(Camera(HighSize))
           L == Wd * B
           W == 2 * Wb
<1>1. /\ B \in Nat \ {0} /\ BB \in Nat \ {0} /\ W \in Nat /\ Hb \in Nat /\ Wd \in Nat \ {0}
      /\ L = W * BB /\ Wd \div B = W /\ i \in Nat /\ j \in Nat
  BY BlockSizes
<1>2. n \in 0 .. L - 1 /\ LumaBlock[n] = a * Wd + x
  BY LumaBlockAt
<1>3. buf[i * L + LumaBlock[n]] = i * L + n
  BY <1>2, BlockedConverted DEF Converted
<1>4. i * L + LumaBlock[n] = y * Wd + x
  <2> DEFINE u == i * B
  <2>1. u \in Nat /\ i * L = u * Wd /\ y = u + a
    BY <1>1
  <2>2. x \in Nat
    BY <1>1
  <2> HIDE DEF u, L, n
  <2>3. y * Wd = u * Wd + a * Wd /\ u * Wd \in Nat /\ a * Wd \in Nat
    BY <1>1, <2>1
  <2>4. QED
    BY <1>2, <2>1, <2>2, <2>3
<1>5. x \div B = j /\ x % B = b
  <2>1. (j * B + b) \div B = j /\ (j * B + b) % B = b
    BY <1>1, Parts
  <2>2. QED
    BY <2>1
<1>6. y \div B = i /\ y % B = a
  <2>1. (i * B + a) \div B = i /\ (i * B + a) % B = a
    BY <1>1, Parts
  <2>2. QED
    BY <2>1
<1>7. BlockedAt(x, y)[1] = (i * W + j) * B * B + s * B + t
  <2>1. BlockedAt(x, y)[1]
          = ((y \div B) * (Wd \div B) + (x \div B)) * B * B + (B - 1 - (y % B)) * B + B - 1 - (x % B)
    BY DEF BlockedAt
  <2>2. BlockedAt(x, y)[1] = (i * W + j) * B * B + (B - 1 - a) * B + B - 1 - b
    BY <1>1, <1>5, <1>6, <2>1
  <2> DEFINE g == (i * W + j) * B * B
             f == (B - 1 - a) * B
  <2>3. g \in Int /\ f \in Int
    BY <1>1
  <2>4. f = s * B
    OBVIOUS
  <2> HIDE DEF g, f
  <2>5. g + f + B - 1 - b = g + f + (B - 1 - b)
    BY <1>1, <2>3
  <2>6. QED
    BY <2>2, <2>4, <2>5 DEF g, f
<1>8. (i * W + j) * B * B + s * B + t = i * L + n
  <2> DEFINE g == i * W
             f == s * B
  <2>1. g \in Nat /\ f \in Int /\ t \in Int
    BY <1>1
  <2>2. i * L = g * BB
    BY <1>1
  <2>3. (g + j) * B * B = g * BB + j * BB /\ g * BB \in Nat /\ j * BB \in Nat
    BY <1>1, <2>1 DEF BB
  <2>4. n = j * BB + (f + t)
    OBVIOUS
  <2> HIDE DEF g, f, n, L, t
  <2>5. (g + j) * B * B + f + t = i * L + n
    BY <2>1, <2>2, <2>3, <2>4
  <2>6. QED
    BY <2>5 DEF g, f
<1> HIDE DEF n, L
<1>9. QED
  BY <1>3, <1>4, <1>7, <1>8

LEMMA BlockedChroma ==
  ASSUME NEW i \in 0 .. Hb - 1, NEW j \in 0 .. Wb - 1, NEW d \in 0 .. B - 1, NEW c \in 0 .. B - 1,
         NEW e \in 0 .. 1, NEW f \in 0 .. 1,
         NEW x, x = 2 * (j * B + c) + e, NEW y, y = 2 * (i * B + d) + f,
         NEW h \in 0 .. 1
  PROVE  img2YUV_2(Camera(HighSize))[Nv12At(Wd * Ht, Wd, x, y) + h] = BlockedAt(x, y)[2 + h]
<1> DEFINE t == B - 1 - c
           m == j * BB + (d * B + t)
           n == 2 * m + (1 - h)
           buf == img2YUV_2(Camera(HighSize))
           L == Wd * B
           p == j * B + c
           r == i * B + d
           P == Wd * Ht
<1>1. /\ B \in Nat \ {0} /\ BB \in Nat \ {0} /\ Wb \in Nat /\ Hb \in Nat /\ Wd \in Nat \ {0}
      /\ L = 2 * (Wb * BB) /\ Half(Wd) \div B = Wb /\ i \in Nat /\ j \in Nat /\ P \in Nat /\ UvOff \in Nat
  BY BlockSizes, LayoutAssumption DEF Wb
<1>2. n \in 0 .. L - 1 /\ ChromaBlock[n] = d * Wd + (2 * p + h)
  BY ChromaBlockAt
<1>3. buf[P + i * L + ChromaBlock[n]] = UvOff + i * L + n
  BY <1>2, BlockedConverted DEF Converted
<1>4. /\ p \in Nat /\ r \in Nat /\ p \div B = j /\ p % B = c /\ r \div B = i /\ r % B = d
  <2>1. B \in Nat \ {0} /\ j \in Nat /\ i \in Nat
    BY <1>1
  <2>2. p \in Nat /\ r \in Nat
    BY <2>1
  <2>3. p \div B = j /\ p % B = c
    BY <2>1, Parts
  <2>4. r \div B = i /\ r % B = d
    BY <2>1, Parts
  <2>5. QED
    BY <2>2, <2>3, <2>4
<1>5. /\ x \in Nat /\ Half(x) = p /\ x - (x % 2) = 2 * p /\ y \in Nat /\ Half(y) = r
  <2> HIDE DEF p, r
  <2>1. x = 2 * p + e /\ y = 2 * r + f
    BY DEF p, r
  <2>2. p \in Nat /\ r \in Nat
    BY <1>4
  <2>3. IsPair(x, p)
    BY <2>1, <2>2, HalfIs
  <2>4. IsPair(y, r)
    BY <2>1, <2>2, HalfIs
  <2>5. QED
    BY <2>3, <2>4 DEF IsPair
<1>6. Nv12At(P, Wd, x, y) + h = P + i * L + ChromaBlock[n]
  <2> DEFINE u == i * B
  <2>1. u \in Nat /\ i * L = u * Wd /\ r = u + d
    BY <1>1
  <2> HIDE DEF u, r, p, L, P, n
  <2>2. r * Wd = u * Wd + d * Wd /\ u * Wd \in Nat /\ d * Wd \in Nat
    BY <1>1, <2>1
  <2>3. Nv12At(P, Wd, x, y) = P + r * Wd + 2 * p
    BY <1>1, <1>4, <1>5, <2>2 DEF Nv12At
  <2>4. QED
    BY <1>1, <1>2, <1>4, <2>1, <2>2, <2>3
<1> DEFINE v == UvOff + 2 * ((i * Wb + j) * B * B + d * B + B - 1 - c)
<1>7. BlockedAt(x, y)[2] = v + 1 /\ BlockedAt(x, y)[3] = v
  <2> HIDE DEF p, r, v
  <2> DEFINE z == UvOff + 2 * (((Half(y) \div B) * (Half(Wd) \div B) + (Half(x) \div B)) * B * B + (Half(y) % B) * B
                               + B - 1 - (Half(x) % B))
  <2>1. BlockedAt(x, y)[2] = z + 1 /\ BlockedAt(x, y)[3] = z
    BY DEF BlockedAt
  <2>2. z = v
    BY <1>1, <1>4, <1>5 DEF v
  <2>3. QED
    BY <2>1, <2>2
<1>8. v \in Int /\ v + (1 - h) = UvOff + i * L + n
  <2> DEFINE g == i * Wb
             k == d * B
  <2>1. g \in Nat /\ k \in Int /\ t \in Int /\ B \in Int
    BY <1>1
  <2>2. i * L = 2 * (g * BB)
    BY <1>1
  <2>3. (g + j) * B * B = g * BB + j * BB /\ g * BB \in Nat /\ j * BB \in Nat
    BY <1>1, <2>1 DEF BB
  <2>4. v = UvOff + 2 * ((g + j) * B * B + k + B - 1 - c) /\ t = B - 1 - c /\ n = 2 * (j * BB + (k + t)) + (1 - h)
    OBVIOUS
  <2> HIDE DEF g, k, n, L, t, v, m
  <2>5. QED
    BY <1>1, <2>1, <2>2, <2>3, <2>4
<1> HIDE DEF n, L, buf, v, m
<1>9. buf[Nv12At(P, Wd, x, y) + h] = v + (1 - h)
  BY <1>3, <1>6, <1>8
<1>10. BlockedAt(x, y)[2 + h] = v + (1 - h)
  <2> DEFINE T == BlockedAt(x, y)
  <2>1. T[2] = v + 1 /\ T[3] = v /\ v \in Int
    BY <1>7, <1>8
  <2> HIDE DEF T
  <2>2. CASE h = 0
    BY <2>1, <2>2 DEF T
  <2>3. CASE h = 1
    <3>1. T[2 + h] = T[3] /\ v + (1 - h) = v
      BY <2>1, <2>3
    <3>2. QED
      BY <2>1, <3>1 DEF T
  <2>4. QED
    BY <2>2, <2>3 DEF T
<1>11. QED
  BY <1>9, <1>10 DEF buf

(* The same of the H305R's small blocks.                                   *)
LEMMA BlockedPixels ==
  ASSUME NEW x \in 0 .. Wd - 1, NEW y \in 0 .. Ht - 1
  PROVE  JpegPixel(img2YUV_2(Camera(HighSize)), Wd, Ht, x, y) = BlockedAt(x, y)
<1> DEFINE buf == img2YUV_2(Camera(HighSize))
           nv == Nv12At(Wd * Ht, Wd, x, y)
           T == BlockedAt(x, y)
<1>1. /\ B \in Nat \ {0} /\ Wb \in Nat /\ Hb \in Nat /\ Wd \in Nat \ {0} /\ Ht \in Nat \ {0}
      /\ x \in 0 .. Wb * (2 * B) - 1 /\ y \in 0 .. Hb * (2 * B) - 1
      /\ x \in Nat /\ y \in Nat
  BY BlockSizes
<1>2. buf[y * Wd + x] = T[1]
  <2> DEFINE W == 2 * Wb
             H == 2 * Hb
  <2>1. W \in Nat /\ H \in Nat /\ x \in 0 .. W * B - 1 /\ y \in 0 .. H * B - 1
    BY <1>1
  <2> HIDE DEF W, H
  <2>2. x \div B \in 0 .. W - 1 /\ x % B \in 0 .. B - 1 /\ x = (x \div B) * B + (x % B)
    BY <1>1, <2>1, InRows, Split
  <2>3. y \div B \in 0 .. H - 1 /\ y % B \in 0 .. B - 1 /\ y = (y \div B) * B + (y % B)
    BY <1>1, <2>1, InRows, Split
  <2>4. PICK j \in 0 .. 2 * Wb - 1, b \in 0 .. B - 1 : x = j * B + b
    BY <2>2 DEF W
  <2>5. PICK i \in 0 .. 2 * Hb - 1, a \in 0 .. B - 1 : y = i * B + a
    BY <2>3 DEF H
  <2>6. QED
    BY <2>4, <2>5, BlockedLuma
<1>3. \A h \in 0 .. 1 : buf[nv + h] = T[2 + h]
  <2>1. InPairs(x, Wb, B) /\ InPairs(y, Hb, B)
    BY <1>1, PairOf
  <2>2. PICK j \in 0 .. Wb - 1, c \in 0 .. B - 1, e \in 0 .. 1 : x = 2 * (j * B + c) + e
    BY <2>1 DEF InPairs
  <2>3. PICK i \in 0 .. Hb - 1, d \in 0 .. B - 1, f \in 0 .. 1 : y = 2 * (i * B + d) + f
    BY <2>1 DEF InPairs
  <2>4. QED
    BY <2>2, <2>3, BlockedChroma
<1>4. nv \in Nat
  <2>1. NvSizes(Wd, Ht, x, y)
    BY <1>1, HighIsEven, NvAddresses
  <2>2. Wd * Ht \in Nat
    BY <1>1
  <2>3. QED
    BY <2>1, <2>2 DEF NvSizes
<1>5. T = <<T[1], T[2], T[3]>>
  BY DEF BlockedAt
<1>6. Given(buf, Wd, Ht, x, y)
  BY <1>1, JpegIs
<1> HIDE DEF buf, nv, T
<1>7. buf[nv] = T[2] /\ buf[nv + 1] = T[3]
  <2>1. nv + 0 = nv /\ 2 + 0 = 2 /\ 2 + 1 = 3 /\ 0 \in 0 .. 1 /\ 1 \in 0 .. 1
    BY <1>4
  <2>2. buf[nv + 0] = T[2 + 0] /\ buf[nv + 1] = T[2 + 1]
    BY <1>3, <2>1
  <2>3. QED
    BY <2>1, <2>2
<1>8. JpegPixel(buf, Wd, Ht, x, y) = <<buf[y * Wd + x], buf[nv], buf[nv + 1]>>
  BY <1>6 DEF Given, nv
<1>9. JpegPixel(buf, Wd, Ht, x, y) = T
  BY <1>2, <1>5, <1>7, <1>8
<1>10. QED
  BY <1>9 DEF buf, T

-----------------------------------------------------------------------------
(* The layouts together, and which of them a picture can be in.            *)
LEMMA EveryLayout ==
  \A l \in {"tiled", "blocked", "low", "fits"} : RightLayout[l]
<1> DEFINE T1 == Agree(Wd, Ht, img2YUV(Camera(HighSize)), TiledAt)
           T2 == Agree(Wd, Ht, img2YUV_2(Camera(HighSize)), BlockedAt)
           T3 == Agree(LowW, LowH, lowYUV(Camera(LowSize)), LowAt)
           T4 == Agree(LowW, LowH, Decoded(LowW, LowH, LowW, LowH), LAMBDA x, y : DecodedAt(LowW, LowH, x, y))
<1>1. T1
  BY TiledPixels DEF Agree, Jpeg
<1>2. T2
  BY BlockedPixels DEF Agree, Jpeg
<1>3. T3
  BY LowPixels DEF Agree, Jpeg
<1>4. T4
  BY DecodedPixels DEF Agree, Jpeg
<1>5. RightLayout = [tiled |-> T1, blocked |-> T2, low |-> T3, fits |-> T4]
  BY Zenon DEF RightLayout
<1> HIDE DEF T1, T2, T3, T4
<1>6. T1 = TRUE /\ T2 = TRUE /\ T3 = TRUE /\ T4 = TRUE
  BY <1>1, <1>2, <1>3, <1>4
<1>7. RightLayout = [tiled |-> TRUE, blocked |-> TRUE, low |-> TRUE, fits |-> TRUE]
  BY <1>5, <1>6, Zenon
<1>8. QED
  BY <1>7

Known(o) == o # None => o.layout \in {"tiled", "blocked", "low", "fits", "smaller"}
RInv == DOMAIN out = Proc /\ \A p \in Proc : Known(out[p])

LEMMA WritesKnown ==
  ASSUME NEW p \in Proc, Working(p)
  PROVE  UNCHANGED out \/ \E o : Known(o) /\ out' = [out EXCEPT ![p] = o]
<1> DEFINE Wrote == UNCHANGED out \/ \E o : Known(o) /\ out' = [out EXCEPT ![p] = o]
<1>1. Known(None)
  BY DEF Known
<1>2. CASE CopyPoint(p)
  BY <1>2 DEF CopyPoint
<1>3. CASE Markers(p)
  BY <1>1, <1>3 DEF Markers, Exit, Goto
<1>4. CASE Look(p)
  BY <1>1, <1>4 DEF Look, Exit
<1>5. CASE Begin(p)
  BY <1>5 DEF Begin, Goto
<1>6. CASE Map(p)
  BY <1>1, <1>6 DEF Map, Exit, Goto
<1>7. CASE Compare(p)
  <2> DEFINE o == [layout |-> Layout(p), from |-> copied[p]]
  <2>1. Known(o)
    BY DEF Known, Layout
  <2> HIDE DEF o
  <2>2. UNCHANGED out \/ out' = [out EXCEPT ![p] = o]
    BY <1>7 DEF Compare, Exit, o
  <2>3. QED
    BY <2>1, <2>2
<1>8. CASE p = Thumb /\ OpenVideo
  BY <1>1, <1>8 DEF OpenVideo, Exit, Goto
<1>9. CASE p = Thumb /\ Scan
  BY <1>9 DEF Scan
<1>10. CASE p = Thumb /\ Decode
  <2>1. \A size \in {"smaller", "fits"} : Known([layout |-> size])
    BY DEF Known
  <2>2. \/ out' = [out EXCEPT ![p] = None]
        \/ \E size \in {"smaller", "fits"} : out' = [out EXCEPT ![p] = [layout |-> size]]
    BY <1>10 DEF Decode, Exit
  <2>3. QED
    BY <1>1, <2>1, <2>2
<1>11. QED
  BY <1>2, <1>3, <1>4, <1>5, <1>6, <1>7, <1>8, <1>9, <1>10 DEF Working, Grab

LEMMA RInductive == RInv /\ [Next]_vars => RInv'
<1> SUFFICES ASSUME RInv, [Next]_vars PROVE RInv'
  OBVIOUS
<1>1. ASSUME NEW p \in Proc, NEW o, Known(o), out' = [out EXCEPT ![p] = o] PROVE RInv'
  BY <1>1 DEF RInv
<1>2. ASSUME UNCHANGED out PROVE RInv'
  BY <1>2 DEF RInv
<1>3. Known(None) /\ Thumb \in Proc /\ Viewer \subseteq Proc
  BY DEF Known, Proc
<1>4. CASE UNCHANGED vars
  BY <1>2, <1>4 DEF vars
<1>5. CASE StorePoint \/ Privacy
  BY <1>2, <1>5 DEF StorePoint, Privacy
<1>6. CASE List \/ Demux \/ Wait
  BY <1>2, <1>6 DEF List, Demux, Wait, Keep
<1>7. CASE Run
  BY <1>1, <1>3, <1>7 DEF Run, Start
<1>8. ASSUME NEW v \in Viewer, Request(v) PROVE RInv'
  BY <1>1, <1>3, <1>8 DEF Request, Start
<1>9. ASSUME NEW p \in Proc, Working(p) PROVE RInv'
  BY <1>1, <1>2, <1>9, WritesKnown
<1>10. QED
  BY <1>4, <1>5, <1>6, <1>7, <1>8, <1>9 DEF Next, Script

(* For pictures and blocks of any size: every pixel of a snapshot, in each *)
(* of the three layouts and from a decoded video, comes from the place the *)
(* camera keeps it at; the strips converted in place never overwrite what  *)
(* a later one still has to read.                                          *)
THEOREM EveryPixelIsRight == Spec => []RightPixels
<1>1. Init => RInv
  BY DEF Init, RInv, Known
<1>2. RInv => RightPixels
  BY EveryLayout DEF RInv, Known, RightPixels
<1>3. QED
  BY <1>1, <1>2, RInductive, PTL DEF Spec
=============================================================================
