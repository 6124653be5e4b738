------------------------ MODULE EventPipelineProofs ------------------------
(* Proofs about EventPipeline, for any packets, mirrors and capacities.    *)
EXTENDS EventPipeline, SequenceTheorems, FiniteSetTheorems, TLAPS

Entry == [pkt : Packet \cup {None}, old : BOOLEAN]

(* The part of the types that the safety of the consumer rests on. *)
Types ==
  /\ pc \in [Pid -> PC]
  /\ mirror \in [Mirror -> Seq(Entry)]
  /\ hand \in Packet \cup {None}
  /\ inbox \in Seq(Packet)

(* service.sh launches only after it has killed everything. *)
LaunchOnlyWhenDown ==
  service.at = "launch" => \A p \in Pid : ~Running(p)

IInv == Types /\ LaunchOnlyWhenDown /\ OneConsumer /\ NoStaleEvent

-----------------------------------------------------------------------------
(* What a change of one process, of the mirrors and of service.sh keeps.   *)

(* No step but a launch makes a process run that did not. *)
NobodyStarts ==
  /\ pc' \in [Pid -> PC]
  /\ \A p \in Pid : Running(p)' => Running(p)

LEMMA TailKeeps ==
  ASSUME NEW s \in Seq(Entry), s # <<>>, \A k \in DOMAIN s : ~s[k].old
  PROVE  Tail(s) \in Seq(Entry) /\ \A k \in DOMAIN Tail(s) : ~Tail(s)[k].old
<1>1. Tail(s) \in Seq(Entry) /\ Len(Tail(s)) = Len(s) - 1
  BY HeadTailProperties
<1>2. \A k \in 1..Len(Tail(s)) : Tail(s)[k] = s[k+1]
  BY HeadTailProperties
<1>3. DOMAIN s = 1..Len(s) /\ DOMAIN Tail(s) = 1..Len(Tail(s)) /\ Len(s) \in Nat
  BY <1>1, LenProperties
<1>4. \A k \in DOMAIN Tail(s) : k + 1 \in DOMAIN s
  BY <1>1, <1>3
<1> QED BY <1>1, <1>2, <1>3, <1>4

LEMMA AppendKeeps ==
  ASSUME NEW s \in Seq(Entry), NEW m \in Entry, ~m.old, \A k \in DOMAIN s : ~s[k].old
  PROVE  Append(s, m) \in Seq(Entry)
         /\ \A k \in DOMAIN Append(s, m) : ~Append(s, m)[k].old
<1>1. /\ Append(s, m) \in Seq(Entry) /\ Len(Append(s, m)) = Len(s) + 1
      /\ \A k \in 1..Len(s) : Append(s, m)[k] = s[k]
      /\ Append(s, m)[Len(s) + 1] = m
  BY AppendProperties
<1>2. /\ DOMAIN s = 1..Len(s) /\ Len(s) \in Nat
      /\ DOMAIN Append(s, m) = 1..(Len(s) + 1)
  BY <1>1, LenProperties
<1>3. ASSUME NEW k \in DOMAIN Append(s, m) PROVE ~Append(s, m)[k].old
  <2>1. CASE k = Len(s) + 1 BY <2>1, <1>1
  <2>2. CASE k # Len(s) + 1
    <3>1. k \in 1..Len(s) BY <2>2, <1>2
    <3> QED BY <3>1, <1>1, <1>2
  <2> QED BY <2>1, <2>2
<1> QED BY <1>1, <1>3

(* A step that starts nobody and leaves the mirrors and service.sh alone. *)
LEMMA QuietStep ==
  ASSUME IInv, NobodyStarts, UNCHANGED <<mirror, hand, inbox>>,
         service'.at = "launch" => service.at = "launch",
         \A p \in Pid : pc'[p] \in LoopPC =>
           pc[p] \in LoopPC \/ mirror[Consumed] = <<>>
  PROVE  IInv'
<1>1. Types'
  BY DEF IInv, Types, NobodyStarts
<1>2. LaunchOnlyWhenDown'
  BY DEF IInv, LaunchOnlyWhenDown, NobodyStarts
<1>3. OneConsumer'
  BY DEF IInv, OneConsumer, NobodyStarts
<1>4. NoStaleEvent'
  <2>1. SUFFICES ASSUME NEW p \in Pid, pc'[p] \in LoopPC, NEW k \in DOMAIN mirror[Consumed]
                 PROVE  ~mirror[Consumed][k].old
    BY DEF NoStaleEvent
  <2>2. CASE pc[p] \in LoopPC BY <2>1, <2>2 DEF IInv, NoStaleEvent
  <2>3. CASE mirror[Consumed] = <<>> BY <2>1, <2>3
  <2> QED BY <2>1, <2>2, <2>3
<1> QED BY <1>1, <1>2, <1>3, <1>4 DEF IInv

(* A step that only changes the mirrors, of which the consumed one keeps   *)
(* having no old message.                                                  *)
LEMMA MirrorStep ==
  ASSUME IInv, UNCHANGED <<inbox, hand, service>>, NobodyStarts,
         \A p \in Pid : pc'[p] \in LoopPC => pc[p] \in LoopPC,
         mirror' \in [Mirror -> Seq(Entry)],
         (\A k \in DOMAIN mirror[Consumed] : ~mirror[Consumed][k].old)
           => \A k \in DOMAIN mirror'[Consumed] : ~mirror'[Consumed][k].old
  PROVE  IInv'
<1>1. Types'
  BY DEF IInv, Types, NobodyStarts
<1>2. LaunchOnlyWhenDown'
  BY DEF IInv, LaunchOnlyWhenDown, NobodyStarts
<1>3. OneConsumer'
  BY DEF IInv, OneConsumer, NobodyStarts
<1>4. NoStaleEvent'
  BY DEF IInv, NoStaleEvent
<1> QED BY <1>1, <1>2, <1>3, <1>4 DEF IInv

-----------------------------------------------------------------------------
LEMMA InitIInv == Init => IInv
<1> SUFFICES ASSUME Init PROVE IInv
  OBVIOUS
<1>1. Types
  BY DEF Init, Types, PC
<1>2. LaunchOnlyWhenDown
  BY DEF Init, LaunchOnlyWhenDown, Idle
<1>3. OneConsumer
  BY DEF Init, OneConsumer, Running
<1>4. NoStaleEvent
  BY DEF Init, NoStaleEvent, LoopPC
<1> QED BY <1>1, <1>2, <1>3, <1>4 DEF IInv

LEMMA GotoStarts ==
  ASSUME IInv, NEW p \in Pid, NEW l \in PC, Goto(p, l),
         l \in {"gone", "dying"} \/ Running(p)
  PROVE  NobodyStarts /\ \A q \in Pid : pc'[q] = IF q = p THEN l ELSE pc[q]
BY DEF IInv, Types, Goto, NobodyStarts, Running

(* Steps of dispatch and rmm. *)
LEMMA DispatchStep == ASSUME IInv, Rmm \/ Dispatch PROVE IInv'
<1> USE PipelineConstants
<1>0. UNCHANGED pc => NobodyStarts
  BY DEF IInv, Types, NobodyStarts, Running
<1>1. ASSUME NEW p \in Sent, rmm_send(p) PROVE IInv'
  <2>1. inbox' \in Seq(Packet) /\ UNCHANGED <<pc, mirror, hand, service>>
    BY <1>1 DEF rmm_send, IInv, Types, consumer
  <2> QED
    BY <2>1 DEF IInv, Types, LaunchOnlyWhenDown, OneConsumer, NoStaleEvent, Running
<1>2. CASE ipc_multiplex_initialize
  BY <1>0, <1>2, QuietStep DEF ipc_multiplex_initialize, consumer
<1>3. CASE mq_receive
  <2>1. inbox' \in Seq(Packet) /\ hand' \in Packet \cup {None}
    BY <1>3 DEF mq_receive, IInv, Types
  <2>2. UNCHANGED <<pc, mirror, service>>
    BY <1>3 DEF mq_receive, consumer
  <2> QED
    BY <2>1, <2>2 DEF IInv, Types, LaunchOnlyWhenDown, OneConsumer, NoStaleEvent, Running
<1>4. CASE mq_receive_return
  <2>1. hand' \in Packet \cup {None} /\ UNCHANGED <<pc, mirror, inbox, service>>
    BY <1>4 DEF mq_receive_return, consumer
  <2> QED
    BY <2>1 DEF IInv, Types, LaunchOnlyWhenDown, OneConsumer, NoStaleEvent, Running
<1>5. ASSUME NEW i \in Mirror, mq_send(i) PROVE IInv'
  <2>1. UNCHANGED <<inbox, hand, service, pc>>
    BY <1>5 DEF mq_send, consumer
  <2>2. mirror' = mirror \/ mirror' = [mirror EXCEPT ![i] = Append(@, Message(hand))]
    BY <1>5 DEF mq_send
  <2>3. CASE mirror' = mirror
    BY <2>1, <2>3, <1>0, QuietStep
  <2>4. CASE mirror' = [mirror EXCEPT ![i] = Append(@, Message(hand))]
    <3>1. Message(hand) \in Entry /\ ~Message(hand).old
      BY DEF IInv, Types, Entry, Message
    <3>2. mirror[i] \in Seq(Entry) /\ mirror[Consumed] \in Seq(Entry)
      BY DEF IInv, Types
    <3>3. mirror' \in [Mirror -> Seq(Entry)]
      <4>1. Append(mirror[i], Message(hand)) \in Seq(Entry)
        BY <3>1, <3>2, AppendProperties
      <4> QED BY <2>4, <4>1 DEF IInv, Types
    <3>4. CASE i = Consumed
      <4>1. mirror'[Consumed] = Append(mirror[Consumed], Message(hand))
        BY <2>4, <3>4 DEF IInv, Types
      <4>2. (\A k \in DOMAIN mirror[Consumed] : ~mirror[Consumed][k].old)
              => \A k \in DOMAIN mirror'[Consumed] : ~mirror'[Consumed][k].old
        BY <4>1, <3>1, <3>2, AppendKeeps
      <4> QED BY <2>1, <3>3, <4>2, <1>0, MirrorStep
    <3>5. CASE i # Consumed
      <4>1. mirror'[Consumed] = mirror[Consumed]
        BY <2>4, <3>5 DEF IInv, Types
      <4> QED BY <2>1, <3>3, <4>1, <1>0, MirrorStep
    <3> QED BY <3>4, <3>5
  <2> QED BY <2>2, <2>3, <2>4
<1> QED BY <1>1, <1>2, <1>3, <1>4, <1>5 DEF Rmm, Dispatch

(* Steps of one ipc2file, of its threads, and its death. *)
LEMMA ConsumerStep ==
  ASSUME IInv, NEW p \in Pid,
         ipc2file(p) \/ sound_stop_thread(p) \/ Crash(p) \/ Reaped(p)
  PROVE  IInv'
<1> USE PipelineConstants DEF PC, StartPC, LoopPC, dispatch
<1>1. CASE check_pid(p)
  <2>1. \E l \in {"gone", "create_pid"} : Goto(p, l)
    BY <1>1 DEF check_pid, Vanish
  <2>2. Running(p) /\ UNCHANGED <<mirror, hand, inbox, service>>
    BY <1>1 DEF check_pid, Running
  <2> QED BY <2>1, <2>2, GotoStarts, QuietStep
<1>2. CASE create_pid(p)
  <2>2. Running(p) /\ UNCHANGED <<mirror, hand, inbox, service>> /\ Goto(p, "open")
    BY <1>2 DEF create_pid, Running
  <2> QED BY <2>2, GotoStarts, QuietStep
<1>3. CASE open_queue(p)
  <2>1. \E l \in {"gone", "clear"} : Goto(p, l)
    BY <1>3 DEF open_queue, Vanish
  <2>2. Running(p) /\ UNCHANGED <<mirror, hand, inbox, service>>
    BY <1>3 DEF open_queue, Running
  <2> QED BY <2>1, <2>2, GotoStarts, QuietStep
<1>4. CASE clear_queue(p)
  <2>1. UNCHANGED <<hand, inbox, service>> /\ Running(p)
    BY <1>4 DEF clear_queue, Running
  <2>2. CASE mirror[Consumed] = <<>> /\ Goto(p, "while") /\ UNCHANGED mirror
    BY <2>1, <2>2, GotoStarts, QuietStep
  <2>3. CASE /\ mirror[Consumed] # <<>> /\ UNCHANGED pc
             /\ mirror' = [mirror EXCEPT ![Consumed] = Tail(@)]
    <3>1. mirror[Consumed] \in Seq(Entry)
      BY DEF IInv, Types
    <3>2. Tail(mirror[Consumed]) \in Seq(Entry)
      BY <3>1, <2>3, HeadTailProperties
    <3>3. mirror' \in [Mirror -> Seq(Entry)] /\ mirror'[Consumed] = Tail(mirror[Consumed])
      BY <3>2, <2>3 DEF IInv, Types
    <3>4. (\A k \in DOMAIN mirror[Consumed] : ~mirror[Consumed][k].old)
            => \A k \in DOMAIN mirror'[Consumed] : ~mirror'[Consumed][k].old
      BY <3>1, <3>3, <2>3, TailKeeps
    <3>5. NobodyStarts
      BY <2>3 DEF NobodyStarts, IInv, Types, Running
    <3> QED BY <2>1, <2>3, <3>3, <3>4, <3>5, MirrorStep
  <2> QED BY <1>4, <2>2, <2>3 DEF clear_queue
<1>5. CASE main_loop(p)
  <2>1. \E l \in {"unlink", "mq_receive"} : Goto(p, l)
    BY <1>5 DEF main_loop
  <2>2. Running(p) /\ pc[p] \in LoopPC /\ UNCHANGED <<mirror, hand, inbox, service>>
    BY <1>5 DEF main_loop, Running
  <2> QED BY <2>1, <2>2, GotoStarts, QuietStep
<1>6. CASE receive(p)
  <2>1. /\ UNCHANGED <<hand, inbox, service>> /\ Running(p) /\ Goto(p, "while")
        /\ pc[p] \in LoopPC /\ mirror[Consumed] # <<>>
        /\ mirror' = [mirror EXCEPT ![Consumed] = Tail(@)]
    BY <1>6 DEF receive, Running
  <2>2. mirror[Consumed] \in Seq(Entry)
    BY DEF IInv, Types
  <2>3. Tail(mirror[Consumed]) \in Seq(Entry)
    BY <2>1, <2>2, HeadTailProperties
  <2>4. mirror' \in [Mirror -> Seq(Entry)] /\ mirror'[Consumed] = Tail(mirror[Consumed])
    BY <2>1, <2>3 DEF IInv, Types
  <2>5. (\A k \in DOMAIN mirror[Consumed] : ~mirror[Consumed][k].old)
          => \A k \in DOMAIN mirror'[Consumed] : ~mirror'[Consumed][k].old
    BY <2>1, <2>2, <2>4, TailKeeps
  <2>6. NobodyStarts /\ \A q \in Pid : pc'[q] \in LoopPC => pc[q] \in LoopPC
    BY <2>1, GotoStarts
  <2> QED BY <2>1, <2>4, <2>5, <2>6, MirrorStep
<1>7. CASE terminate(p)
  <2>2. Running(p) /\ UNCHANGED <<mirror, hand, inbox, service>> /\ Goto(p, "gone")
    BY <1>7 DEF terminate, Running, Vanish
  <2> QED BY <2>2, GotoStarts, QuietStep
<1>8. CASE sound_stop_thread(p)
  <2>1. UNCHANGED <<pc, mirror, hand, inbox, service>>
    BY <1>8 DEF sound_stop_thread
  <2>2. NobodyStarts
    BY <2>1 DEF NobodyStarts, IInv, Types, Running
  <2> QED BY <2>1, <2>2, QuietStep
<1>9. CASE Crash(p)
  <2>1. UNCHANGED <<mirror, hand, inbox, service>> /\ Goto(p, "dying")
    BY <1>9 DEF Crash, Vanish
  <2> QED BY <2>1, GotoStarts, QuietStep
<1>10. CASE Reaped(p)
  <2>1. UNCHANGED <<mirror, hand, inbox, service>> /\ Goto(p, "gone")
    BY <1>10 DEF Reaped
  <2> QED BY <2>1, GotoStarts, QuietStep
<1> QED BY <1>1, <1>2, <1>3, <1>4, <1>5, <1>6, <1>7, <1>8, <1>9, <1>10 DEF ipc2file

(* Steps of service.sh. *)
LEMMA ServiceStep ==
  ASSUME IInv, ensure_ipc \/ release_ipc \/ StopAndLaunch \/ ServiceKilled
  PROVE  IInv'
<1> USE PipelineConstants DEF dispatch, consumer
<1>0. UNCHANGED pc => NobodyStarts
  BY DEF NobodyStarts, IInv, Types, Running
<1>1. CASE ensure_ipc
  <2>1. service'.at # "launch"
    BY <1>1 DEF ensure_ipc, Service
  <2> QED BY <1>0, <1>1, <2>1, QuietStep DEF ensure_ipc, ServiceOnly
<1>2. CASE release_ipc
  <2>1. service'.at # "launch"
    BY <1>2 DEF release_ipc, Service
  <2> QED BY <1>0, <1>2, <2>1, QuietStep DEF release_ipc, ServiceOnly
<1>3. CASE ServiceKilled
  <2>1. service'.at # "launch"
    BY <1>3 DEF ServiceKilled, Idle
  <2> QED BY <1>0, <1>3, <2>1, QuietStep DEF ServiceKilled, ServiceOnly
<1>4. CASE Terminate
  <2>1. service'.at # "launch"
    BY <1>4 DEF Terminate, Service
  <2> QED BY <1>0, <1>4, <2>1, QuietStep DEF Terminate
<1>5. CASE Kill
  <2>1. pc' = [p \in Pid |-> IF p \in {q \in Pid : Running(q)} THEN "dying" ELSE pc[p]]
    BY <1>5 DEF Kill
  <2>2. /\ pc' \in [Pid -> PC]
        /\ \A p \in Pid : pc'[p] \in {"gone", "dying"}
    BY <2>1 DEF IInv, Types, Running, PC
  <2>3. UNCHANGED <<mirror, hand, inbox>>
    BY <1>5 DEF Kill
  <2> QED
    BY <2>2, <2>3 DEF IInv, Types, LaunchOnlyWhenDown, OneConsumer, NoStaleEvent, Running, LoopPC
<1>6. ASSUME NEW p \in Pid, Launch(p) PROVE IInv'
  <2>1. /\ pc' = [pc EXCEPT ![p] = "check_pid"] /\ UNCHANGED <<hand, inbox>>
        /\ \A q \in Pid : ~Running(q)
        /\ service'.at # "launch"
    BY <1>6 DEF Launch, Goto, IInv, LaunchOnlyWhenDown, Idle
  <2>2. /\ pc' \in [Pid -> PC]
        /\ \A q \in Pid : q # p => pc'[q] \in {"gone", "dying"}
        /\ pc'[p] = "check_pid"
    BY <2>1 DEF IInv, Types, PC, StartPC, Running
  <2>3. mirror' \in [Mirror -> Seq(Entry)]
    <3>1. ASSUME NEW i \in Mirror
          PROVE  [k \in 1..Len(mirror[i]) |-> [mirror[i][k] EXCEPT !.old = TRUE]] \in Seq(Entry)
      <4>1. mirror[i] \in Seq(Entry) /\ Len(mirror[i]) \in Nat
        BY LenProperties DEF IInv, Types
      <4>2. \A k \in 1..Len(mirror[i]) : mirror[i][k] \in Entry
        BY <4>1, ElementOfSeq
      <4>3. \A e \in Entry : [e EXCEPT !.old = TRUE] \in Entry
        BY DEF Entry
      <4> QED BY <4>1, <4>2, <4>3
    <3> QED BY <3>1, <1>6 DEF Launch
  <2>4. OneConsumer'
    BY <2>2 DEF OneConsumer, Running
  <2>5. NoStaleEvent'
    BY <2>2 DEF NoStaleEvent, LoopPC
  <2> QED
    BY <2>1, <2>2, <2>3, <2>4, <2>5 DEF IInv, Types, LaunchOnlyWhenDown
<1> QED BY <1>1, <1>2, <1>3, <1>4, <1>5, <1>6 DEF StopAndLaunch

LEMMA NextIInv == IInv /\ [Next]_vars => IInv'
<1> SUFFICES ASSUME IInv, [Next]_vars PROVE IInv'
  OBVIOUS
<1>1. CASE UNCHANGED vars
  BY <1>1 DEF vars, dispatch, consumer, IInv, Types, LaunchOnlyWhenDown, OneConsumer,
              NoStaleEvent, Running
<1>2. CASE Next
  BY <1>2, DispatchStep, ConsumerStep, ServiceStep DEF Next
<1> QED BY <1>1, <1>2

LEMMA Invariant == Spec => []IInv
BY InitIInv, NextIInv, PTL DEF Spec

(* Only one ipc2file runs at a time, however many shells are killed        *)
(* between the steps of stop_process and however often ipc2file crashes.   *)
THEOREM SingleConsumer == Spec => []OneConsumer
<1>1. IInv => OneConsumer
  BY DEF IInv
<1> QED BY <1>1, Invariant, PTL

(* An ipc2file never handles a message from before its launch.             *)
THEOREM NoReplay == Spec => []NoStaleEvent
<1>1. IInv => NoStaleEvent
  BY DEF IInv
<1> QED BY <1>1, Invariant, PTL
-----------------------------------------------------------------------------
(* FilesFollowDispatch, on top of IInv: a second layer of invariants that  *)
(* ties last_alarm, the files and what is still in the mirror together.    *)

Turn == Alarm \cup {"stop"}

(* The messages of a mirror that are going to change last_alarm. *)
Turns(s) == {k \in DOMAIN s : parse_message(s[k].pkt) \in Turn}

(* What last_alarm is when the messages of s are handled after a. *)
Newest(s, a, l) ==
  \/ Turns(s) = {} /\ l = a
  \/ \E k \in Turns(s) : (\A j \in Turns(s) : j <= k) /\ l = parse_message(s[k].pkt)

FileTypes ==
  /\ last_alarm \in [Pid -> Turn \cup {None}]
  /\ timers \in [Pid -> Nat]
  /\ files \subseteq AlarmFile

(* Only a process past clear_queue has handled something. *)
OnlyInLoop ==
  \A p \in Pid : pc[p] \notin LoopPC \cup {"unlink"} => last_alarm[p] = None /\ timers[p] = 0

AlarmHasFile == \A p \in Pid : last_alarm[p] \in Alarm => last_alarm[p] \in files

FilesAccounted ==
  files \subseteq orphan \cup {last_alarm[p] : p \in Pid} \cup Timed

LatestIs ==
  \A p \in Pid : complete /\ pc[p] \in LoopPC =>
    Newest(mirror[Consumed], last_alarm[p], latest)

FInv == FileTypes /\ OnlyInLoop /\ AlarmHasFile /\ FilesAccounted /\ LatestIs

-----------------------------------------------------------------------------
LEMMA NewestEmpty ==
  ASSUME NEW a, NEW l
  PROVE  Newest(<<>>, a, l) <=> l = a
<1>1. DOMAIN <<>> = {}
  OBVIOUS
<1> QED BY <1>1 DEF Newest, Turns

(* The reader takes the first message. *)
LEMMA NewestTail ==
  ASSUME NEW s \in Seq(Entry), s # <<>>, NEW a, NEW l, Newest(s, a, l)
  PROVE  /\ parse_message(Head(s).pkt) \in Turn
              => Newest(Tail(s), parse_message(Head(s).pkt), l)
         /\ parse_message(Head(s).pkt) \notin Turn => Newest(Tail(s), a, l)
<1> DEFINE t == Tail(s)
           m == parse_message(Head(s).pkt)
<1>1. /\ t \in Seq(Entry) /\ Len(t) = Len(s) - 1
      /\ \A k \in 1..Len(t) : t[k] = s[k+1]
  BY HeadTailProperties
<1>2. DOMAIN s = 1..Len(s) /\ DOMAIN t = 1..Len(t) /\ Len(s) \in Nat /\ Len(s) > 0
  BY <1>1, LenProperties, EmptySeq
<1>3. Head(s) = s[1]
  BY <1>2
<1> HIDE DEF t
<1>4. \A k \in Turns(t) : k \in Nat /\ k >= 1 /\ k + 1 \in Turns(s) /\ t[k] = s[k+1]
  BY <1>1, <1>2 DEF Turns
<1>5. \A k \in Turns(s) : k # 1 => k - 1 \in Turns(t) /\ t[k-1] = s[k]
  <2>1. ASSUME NEW k \in Turns(s), k # 1 PROVE k - 1 \in 1..Len(t) /\ (k - 1) + 1 = k
    BY <2>1, <1>1, <1>2 DEF Turns
  <2>2. ASSUME NEW k \in Turns(s), k # 1 PROVE t[k-1] = s[k]
    BY <2>1, <2>2, <1>1
  <2> QED BY <2>1, <2>2, <1>2 DEF Turns
<1>6. \A k \in Turns(s) : k \in Nat /\ k >= 1
  BY <1>2 DEF Turns
<1>7. 1 \in Turns(s) <=> m \in Turn
  BY <1>2, <1>3 DEF Turns
<1>8. CASE Turns(s) = {} /\ l = a
  <2>1. Turns(t) = {} /\ m \notin Turn
    BY <1>8, <1>4, <1>7
  <2> QED BY <2>1, <1>8 DEF Newest, t
<1>9. ASSUME NEW k \in Turns(s), \A j \in Turns(s) : j <= k, l = parse_message(s[k].pkt)
      PROVE  /\ m \in Turn => Newest(t, m, l)
             /\ m \notin Turn => Newest(t, a, l)
  <2>1. CASE k = 1
    <3>1. Turns(t) = {}
      <4>1. ASSUME NEW j \in Turns(t) PROVE FALSE
        <5>1. j \in Nat /\ j >= 1 /\ j + 1 \in Turns(s)
          BY <1>4
        <5>2. j + 1 <= 1
          BY <5>1, <2>1, <1>9
        <5> QED BY <5>1, <5>2
      <4> QED BY <4>1
    <3>2. l = m /\ m \in Turn
      BY <2>1, <1>3, <1>7, <1>9
    <3> QED BY <3>1, <3>2 DEF Newest
  <2>2. CASE k # 1
    <3>1. k - 1 \in Turns(t) /\ l = parse_message(t[k-1].pkt)
      BY <2>2, <1>5, <1>9
    <3>2. \A j \in Turns(t) : j <= k - 1
      <4>1. ASSUME NEW j \in Turns(t) PROVE j <= k - 1
        <5>1. j \in Nat /\ j + 1 <= k
          BY <1>4, <1>9
        <5> QED BY <5>1, <1>6
      <4> QED BY <4>1
    <3> QED BY <3>1, <3>2 DEF Newest
  <2> QED BY <2>1, <2>2
<1> QED BY <1>8, <1>9 DEF Newest, t

(* dispatch puts a message behind the others. *)
LEMMA NewestAppend ==
  ASSUME NEW s \in Seq(Entry), NEW m \in Entry, NEW a, NEW l, Newest(s, a, l)
  PROVE  Newest(Append(s, m), a, IF parse_message(m.pkt) \in Turn THEN parse_message(m.pkt) ELSE l)
<1> DEFINE t == Append(s, m)
           n == Len(s) + 1
<1>1. /\ t \in Seq(Entry) /\ Len(t) = n
      /\ \A k \in 1..Len(s) : t[k] = s[k]
      /\ t[n] = m
  BY AppendProperties
<1>2. DOMAIN s = 1..Len(s) /\ DOMAIN t = 1..n /\ Len(s) \in Nat
  BY <1>1, LenProperties
<1> HIDE DEF t
<1>3. \A k \in Turns(s) : k \in Turns(t) /\ k \in Nat /\ k < n /\ t[k] = s[k]
  BY <1>1, <1>2 DEF Turns
<1>4. \A k \in Turns(t) : k = n \/ k \in Turns(s)
  BY <1>1, <1>2 DEF Turns
<1>5. n \in Turns(t) <=> parse_message(m.pkt) \in Turn
  BY <1>1, <1>2 DEF Turns
<1>6. CASE parse_message(m.pkt) \in Turn
  <2>1. \A j \in Turns(t) : j <= n
    BY <1>2 DEF Turns
  <2> QED BY <2>1, <1>1, <1>5, <1>6 DEF Newest, t
<1>7. CASE parse_message(m.pkt) \notin Turn
  <2>1. Turns(t) = Turns(s)
    BY <1>3, <1>4, <1>5, <1>7
  <2> QED BY <2>1, <1>3, <1>7 DEF Newest, t
<1> QED BY <1>6, <1>7

(* Whoever has not entered the loop has no alarm, whoever runs is alone.   *)
LEMMA OthersHaveNone ==
  ASSUME IInv, FInv, NEW p \in Pid, Running(p), NEW q \in Pid, q # p
  PROVE  last_alarm[q] = None /\ timers[q] = 0 /\ pc[q] \notin LoopPC \cup {"unlink"}
BY DEF IInv, OneConsumer, Running, FInv, OnlyInLoop, LoopPC

(* A step that leaves the files, last_alarm and the timers alone.          *)
LEMMA FQuietStep ==
  ASSUME FInv, UNCHANGED <<last_alarm, timers, files, orphan>>,
         \A p \in Pid : pc[p] \in LoopPC \cup {"unlink"} => pc'[p] \in LoopPC \cup {"unlink"},
         LatestIs'
  PROVE  FInv'
<1>1. FileTypes' /\ AlarmHasFile' /\ FilesAccounted'
  BY DEF FInv, FileTypes, AlarmHasFile, FilesAccounted, Timed
<1>2. OnlyInLoop'
  BY DEF FInv, OnlyInLoop
<1> QED BY <1>1, <1>2 DEF FInv

(* ... and neither the mirrors nor the history. *)
LEMMA FStill ==
  ASSUME FInv, UNCHANGED <<last_alarm, timers, files, orphan, latest, complete, mirror>>,
         \A p \in Pid : pc[p] \in LoopPC \cup {"unlink"} => pc'[p] \in LoopPC \cup {"unlink"},
         \A p \in Pid : pc'[p] \in LoopPC => pc[p] \in LoopPC
  PROVE  FInv'
<1>1. LatestIs'
  BY DEF FInv, LatestIs
<1> QED BY <1>1, FQuietStep

LEMMA VanishStep ==
  ASSUME IInv, FInv, NEW p \in Pid, NEW l \in {"gone", "dying"}, Vanish(p, l), files' = files
  PROVE  FInv'
<1>1. FileTypes'
  BY DEF FInv, FileTypes, Vanish
<1>2. OnlyInLoop'
  BY DEF FInv, FileTypes, OnlyInLoop, Vanish, Goto, IInv, Types
<1>3. AlarmHasFile'
  <2>1. None \notin Alarm
    BY PipelineConstants DEF AlarmFile
  <2> QED BY <2>1 DEF FInv, FileTypes, AlarmHasFile, Vanish
<1>4. FilesAccounted'
  BY DEF FInv, FilesAccounted, Vanish
<1>5. LatestIs'
  BY DEF LatestIs, Vanish
<1> QED BY <1>1, <1>2, <1>3, <1>4, <1>5 DEF FInv

LEMMA InitFInv == Init => FInv
<1> SUFFICES ASSUME Init PROVE FInv
  OBVIOUS
<1>1. None \notin Alarm
  BY PipelineConstants DEF AlarmFile
<1> QED
  BY <1>1 DEF Init, FInv, FileTypes, OnlyInLoop, AlarmHasFile, FilesAccounted, LatestIs

LEMMA FDispatchStep == ASSUME IInv, FInv, Rmm \/ Dispatch PROVE FInv'
<1> USE PipelineConstants DEF consumer, history
<1>1. ASSUME NEW p \in Sent, rmm_send(p) PROVE FInv'
  BY <1>1, FStill DEF rmm_send
<1>2. CASE ipc_multiplex_initialize
  BY <1>2, FStill DEF ipc_multiplex_initialize
<1>3. CASE mq_receive
  BY <1>3, FStill DEF mq_receive
<1>4. CASE mq_receive_return
  BY <1>4, FStill DEF mq_receive_return
<1>5. ASSUME NEW i \in Mirror, mq_send(i) PROVE FInv'
  <2> DEFINE a == parse_message(hand)
             full == Len(mirror[i]) = Capacity[i]
  <2>1. /\ UNCHANGED <<pc, last_alarm, timers, files, orphan>>
        /\ mirror' = IF full THEN mirror ELSE [mirror EXCEPT ![i] = Append(@, Message(hand))]
        /\ complete' = (complete /\ ~(i = Consumed /\ full))
        /\ latest' = IF ~complete' THEN None
                     ELSE IF i = Consumed /\ a \in Turn THEN a ELSE latest
    BY <1>5 DEF mq_send, Turn
  <2>2. Message(hand) \in Entry /\ Message(hand).pkt = hand
    BY DEF IInv, Types, Entry, Message
  <2>3. mirror \in [Mirror -> Seq(Entry)] /\ Consumed \in Mirror
    BY DEF IInv, Types
  <2>4. ASSUME NEW p \in Pid, complete', pc'[p] \in LoopPC
        PROVE  Newest(mirror'[Consumed], last_alarm'[p], latest')
    <3>1. Newest(mirror[Consumed], last_alarm[p], latest)
      BY <2>1, <2>4 DEF FInv, LatestIs
    <3>2. CASE i = Consumed
      <4>1. mirror'[Consumed] = Append(mirror[Consumed], Message(hand))
        BY <2>1, <2>3, <2>4, <3>2
      <4>2. latest' = IF a \in Turn THEN a ELSE latest
        BY <2>1, <2>4, <3>2
      <4>3. mirror[Consumed] \in Seq(Entry)
        BY <2>3
      <4>4. Newest(Append(mirror[Consumed], Message(hand)), last_alarm[p],
                   IF a \in Turn THEN a ELSE latest)
        BY <4>3, <2>2, <3>1, NewestAppend
      <4> QED BY <4>1, <4>2, <4>4, <2>1
    <3>3. CASE i # Consumed
      <4>1. mirror'[Consumed] = mirror[Consumed] /\ latest' = latest
        BY <2>1, <2>3, <2>4, <3>3
      <4> QED BY <4>1, <3>1, <2>1
    <3> QED BY <3>2, <3>3
  <2>5. LatestIs'
    BY <2>4 DEF LatestIs
  <2> QED BY <2>1, <2>5, FQuietStep
<1> QED BY <1>1, <1>2, <1>3, <1>4, <1>5 DEF Rmm, Dispatch

(* One message is handled. *)
LEMMA FReceiveStep == ASSUME IInv, FInv, NEW p \in Pid, receive(p) PROVE FInv'
<1> DEFINE h == Head(mirror[Consumed])
           a == parse_message(h.pkt)
           mine == {last_alarm[p]} \cap files
<1> USE PipelineConstants
<1>1. /\ pc[p] = "mq_receive" /\ mirror[Consumed] # <<>>
      /\ mirror' = [mirror EXCEPT ![Consumed] = Tail(@)]
      /\ pc' = [pc EXCEPT ![p] = "while"]
      /\ latest' = latest /\ complete' = complete
      /\ files' = CASE a \in AlarmFile -> files \cup {a}
                    [] a = "stop" -> files \ {last_alarm[p]}
                    [] OTHER -> files
      /\ timers' = [timers EXCEPT ![p] = IF a = "sound" THEN @ + 1 ELSE @]
      /\ last_alarm' = [last_alarm EXCEPT ![p] = IF a \in Turn THEN a ELSE @]
      /\ orphan' = CASE a \in Alarm -> (orphan \cup mine) \ {a}
                     [] a = "stop" -> orphan \ mine
                     [] a = "sound" -> orphan \ {a}
                     [] OTHER -> orphan
  BY DEF receive, process_event, Goto, SetsLast, Ended, Turn
<1>2. Running(p) /\ pc[p] \in LoopPC
  BY <1>1 DEF Running, LoopPC
<1>3. \A q \in Pid : q # p => last_alarm[q] = None /\ timers[q] = 0 /\ pc[q] \notin LoopPC \cup {"unlink"}
  BY <1>2, OthersHaveNone
<1>4. FileTypes /\ pc \in [Pid -> PC] /\ mirror \in [Mirror -> Seq(Entry)]
  BY DEF FInv, IInv, Types
<1>5. /\ \A q \in Pid : q # p => last_alarm'[q] = None /\ timers'[q] = 0 /\ pc'[q] = pc[q]
      /\ last_alarm'[p] = IF a \in Turn THEN a ELSE last_alarm[p]
      /\ timers'[p] = IF a = "sound" THEN timers[p] + 1 ELSE timers[p]
      /\ pc'[p] = "while"
  BY <1>1, <1>3, <1>4 DEF FileTypes
<1>6. AlarmFile = Alarm \cup {"sound"} /\ "stop" \notin AlarmFile /\ None \notin AlarmFile
      /\ "sound" \notin Turn /\ Turn = Alarm \cup {"stop"} /\ "sound" \notin Alarm /\ "stop" \notin Alarm
  BY DEF AlarmFile, Turn, Alarm
<1> HIDE DEF a, h
<1>7. FileTypes'
  <2>1. last_alarm' \in [Pid -> Turn \cup {None}] /\ timers' \in [Pid -> Nat]
    BY <1>1, <1>4 DEF FileTypes
  <2>2. files' \subseteq AlarmFile
    BY <1>1, <1>4 DEF FileTypes
  <2> QED BY <2>1, <2>2 DEF FileTypes
<1>8. OnlyInLoop'
  BY <1>5, <1>3 DEF OnlyInLoop, LoopPC
<1>9. AlarmHasFile'
  <2>1. ASSUME last_alarm'[p] \in Alarm PROVE last_alarm'[p] \in files'
    <3>1. CASE a \in Alarm
      BY <3>1, <1>1, <1>5, <1>6
    <3>2. CASE a \notin Alarm
      <4>1. last_alarm'[p] = last_alarm[p] /\ a # "stop"
        BY <3>2, <2>1, <1>5, <1>6
      <4>2. last_alarm[p] \in files
        BY <4>1, <2>1 DEF FInv, AlarmHasFile
      <4> QED BY <4>1, <4>2, <1>1
    <3> QED BY <3>1, <3>2
  <2> QED BY <2>1, <1>5, <1>6 DEF AlarmHasFile
<1>10. FilesAccounted'
  <2>1. ASSUME NEW f \in files'
        PROVE  f \in orphan' \/ f = last_alarm'[p] \/ (f = "sound" /\ timers'[p] > 0)
    <3>1. f \in files =>
            f \in orphan \/ f = last_alarm[p] \/ (f = "sound" /\ timers[p] > 0)
      <4>1. f \in files => f \in AlarmFile
        BY <1>4 DEF FileTypes
      <4>2. f \in files => f \in orphan \/ (\E q \in Pid : f = last_alarm[q]) \/ f \in Timed
        BY DEF FInv, FilesAccounted
      <4>3. \A q \in Pid : f = last_alarm[q] /\ f \in AlarmFile => q = p
        BY <1>3, <1>6
      <4>4. f \in Timed => f = "sound" /\ \E q \in Pid : timers[q] > 0
        BY DEF Timed
      <4>5. \A q \in Pid : timers[q] > 0 => q = p
        BY <1>3
      <4> QED BY <4>1, <4>2, <4>3, <4>4, <4>5
    <3>2. timers[p] \in Nat
      BY <1>4 DEF FileTypes
    <3>3. CASE a \in Alarm
      <4>1. files' = files \cup {a} /\ orphan' = (orphan \cup mine) \ {a} /\ last_alarm'[p] = a
            /\ timers'[p] = timers[p]
        BY <3>3, <1>1, <1>5, <1>6
      <4> QED BY <4>1, <3>1
    <3>4. CASE a = "stop"
      <4>1. files' = files \ {last_alarm[p]} /\ orphan' = orphan \ mine /\ timers'[p] = timers[p]
        BY <3>4, <1>1, <1>5, <1>6
      <4> QED BY <4>1, <3>1
    <3>5. CASE a = "sound"
      <4>1. files' = files \cup {a} /\ orphan' = orphan \ {a} /\ last_alarm'[p] = last_alarm[p]
        BY <3>5, <1>1, <1>5, <1>6
      <4>2. timers'[p] > 0
        BY <3>5, <3>2, <1>5
      <4> QED BY <4>1, <4>2, <3>1, <3>5
    <3>6. CASE a \notin Alarm \cup {"stop", "sound"}
      <4>1. files' = files /\ orphan' = orphan /\ last_alarm'[p] = last_alarm[p]
            /\ timers'[p] = timers[p]
        BY <3>6, <1>1, <1>5, <1>6
      <4> QED BY <4>1, <3>1
    <3> QED BY <3>3, <3>4, <3>5, <3>6
  <2> QED BY <2>1 DEF FilesAccounted, Timed
<1>11. LatestIs'
  <2>1. ASSUME complete' PROVE Newest(mirror'[Consumed], last_alarm'[p], latest')
    <3>1. Newest(mirror[Consumed], last_alarm[p], latest)
      BY <2>1, <1>1, <1>2 DEF FInv, LatestIs
    <3>2. mirror[Consumed] \in Seq(Entry) /\ mirror'[Consumed] = Tail(mirror[Consumed])
      BY <1>1, <1>4
    <3>3. /\ a \in Turn => Newest(Tail(mirror[Consumed]), a, latest)
          /\ a \notin Turn => Newest(Tail(mirror[Consumed]), last_alarm[p], latest)
      BY <3>1, <3>2, <1>1, NewestTail DEF a, h
    <3> QED BY <3>2, <3>3, <1>1, <1>5
  <2>2. \A q \in Pid : q # p => pc'[q] \notin LoopPC
    BY <1>3, <1>5
  <2> QED BY <2>1, <2>2 DEF LatestIs
<1> QED BY <1>7, <1>8, <1>9, <1>10, <1>11 DEF FInv

LEMMA FConsumerStep ==
  ASSUME IInv, FInv, NEW p \in Pid,
         ipc2file(p) \/ sound_stop_thread(p) \/ Crash(p) \/ Reaped(p)
  PROVE  FInv'
<1> USE PipelineConstants DEF history
<1>0. ASSUME NEW l \in PC, Goto(p, l)
      PROVE  \A q \in Pid : pc'[q] = IF q = p THEN l ELSE pc[q]
  BY <1>0 DEF Goto, IInv, Types
<1>1. CASE check_pid(p)
  <2>1. CASE Vanish(p, "gone")
    BY <2>1, <1>1, VanishStep DEF check_pid
  <2>2. CASE Goto(p, "create_pid") /\ UNCHANGED <<exiting, last_alarm, timers, history>>
    BY <2>2, <1>0, <1>1, FStill DEF check_pid, PC, StartPC, LoopPC
  <2> QED BY <2>1, <2>2, <1>1 DEF check_pid
<1>2. CASE create_pid(p)
  BY <1>0, <1>2, FStill DEF create_pid, PC, StartPC, LoopPC
<1>3. CASE open_queue(p)
  <2>1. CASE Vanish(p, "gone")
    BY <2>1, <1>3, VanishStep DEF open_queue
  <2>2. CASE Goto(p, "clear") /\ UNCHANGED <<exiting, last_alarm, timers, history>>
    BY <2>2, <1>0, <1>3, FStill DEF open_queue, PC, StartPC, LoopPC
  <2> QED BY <2>1, <2>2, <1>3 DEF open_queue
<1>4. CASE clear_queue(p)
  <2>1. pc[p] = "clear" /\ Running(p) /\ UNCHANGED <<last_alarm, timers, files, orphan>>
    BY <1>4 DEF clear_queue, Running
  <2>2. \A q \in Pid : pc[q] \notin LoopPC \cup {"unlink"}
    BY <2>1, OthersHaveNone DEF LoopPC
  <2>3. CASE mirror[Consumed] # <<>> /\ UNCHANGED <<pc, latest, complete>>
    <3>1. LatestIs'
      BY <2>2, <2>3 DEF LatestIs
    <3> QED BY <3>1, <2>1, <2>3, FQuietStep
  <2>4. CASE /\ mirror[Consumed] = <<>> /\ Goto(p, "while")
             /\ complete' = TRUE /\ latest' = None /\ UNCHANGED mirror
    <3>1. \A q \in Pid : pc'[q] = IF q = p THEN "while" ELSE pc[q]
      BY <2>4, <1>0 DEF PC, LoopPC
    <3>2. last_alarm[p] = None
      BY <2>1 DEF FInv, OnlyInLoop, LoopPC
    <3>3. Newest(mirror'[Consumed], last_alarm'[p], latest')
      BY <2>1, <2>4, <3>2, NewestEmpty
    <3>4. LatestIs'
      BY <2>2, <3>1, <3>3 DEF LatestIs
    <3> QED BY <3>1, <3>4, <2>1, <2>2, FQuietStep
  <2> QED BY <1>4, <2>3, <2>4 DEF clear_queue
<1>5. CASE main_loop(p)
  <2>1. \E l \in {"unlink", "mq_receive"} : Goto(p, l)
    BY <1>5 DEF main_loop
  <2> QED BY <1>0, <2>1, <1>5, FStill DEF main_loop, PC, StartPC, LoopPC
<1>6. CASE receive(p)
  BY <1>6, FReceiveStep
<1>7. CASE terminate(p)
  BY <1>7, VanishStep DEF terminate
<1>8. CASE sound_stop_thread(p)
  <2>1. /\ UNCHANGED <<pc, mirror, last_alarm, latest, complete>>
        /\ timers' = [timers EXCEPT ![p] = @ - 1] /\ timers[p] > 0
        /\ files' = files \ {"sound"} /\ orphan' = orphan \ {"sound"}
    BY <1>8 DEF sound_stop_thread
  <2>2. FileTypes'
    BY <2>1 DEF FInv, FileTypes
  <2>3. OnlyInLoop'
    BY <2>1 DEF FInv, FileTypes, OnlyInLoop
  <2>4. AlarmHasFile'
    BY <2>1 DEF FInv, AlarmHasFile, Alarm
  <2>5. FilesAccounted'
    BY <2>1 DEF FInv, FilesAccounted, Timed
  <2>6. LatestIs'
    BY <2>1 DEF FInv, LatestIs
  <2> QED BY <2>2, <2>3, <2>4, <2>5, <2>6 DEF FInv
<1>9. CASE Crash(p)
  BY <1>9, VanishStep DEF Crash
<1>10. CASE Reaped(p)
  BY <1>0, <1>10, FStill DEF Reaped, PC, StartPC, LoopPC
<1> QED BY <1>1, <1>2, <1>3, <1>4, <1>5, <1>6, <1>7, <1>8, <1>9, <1>10 DEF ipc2file

LEMMA FServiceStep ==
  ASSUME IInv, FInv, ensure_ipc \/ release_ipc \/ StopAndLaunch \/ ServiceKilled
  PROVE  FInv'
<1> USE PipelineConstants DEF dispatch, consumer, history
<1>1. CASE ensure_ipc BY <1>1, FStill DEF ensure_ipc, ServiceOnly
<1>2. CASE release_ipc BY <1>2, FStill DEF release_ipc, ServiceOnly
<1>3. CASE ServiceKilled BY <1>3, FStill DEF ServiceKilled, ServiceOnly
<1>4. CASE Terminate BY <1>4, FStill DEF Terminate
<1>5. CASE Kill
  <2> DEFINE K == {p \in Pid : Running(p)}
  <2>1. /\ pc' = [p \in Pid |-> IF p \in K THEN "dying" ELSE pc[p]]
        /\ last_alarm' = [p \in Pid |-> IF p \in K THEN None ELSE last_alarm[p]]
        /\ timers' = [p \in Pid |-> IF p \in K THEN 0 ELSE timers[p]]
        /\ orphan' = IF K = {} THEN orphan ELSE orphan \cup files
        /\ complete' = (complete /\ K = {})
        /\ latest' = IF K = {} THEN latest ELSE None
        /\ UNCHANGED <<mirror, files>>
    BY <1>5 DEF Kill
  <2>2. /\ \A p \in Pid : pc'[p] \in {"gone", "dying"}
        /\ \A p \in Pid : last_alarm'[p] = None /\ timers'[p] = 0
    BY <2>1 DEF Running, FInv, OnlyInLoop, LoopPC
  <2>3. FileTypes'
    BY <2>1 DEF FInv, FileTypes
  <2>4. OnlyInLoop' /\ LatestIs'
    BY <2>2 DEF OnlyInLoop, LatestIs, LoopPC
  <2>5. AlarmHasFile'
    BY <2>2 DEF AlarmHasFile, AlarmFile
  <2>6. FilesAccounted'
    <3>1. CASE K = {}
      <4>1. last_alarm' = last_alarm /\ timers' = timers
        BY <2>1, <3>1 DEF FInv, FileTypes
      <4> QED BY <4>1, <3>1, <2>1 DEF FInv, FilesAccounted, Timed
    <3>2. CASE K # {}
      BY <3>2, <2>1 DEF FilesAccounted
    <3> QED BY <3>1, <3>2
  <2> QED BY <2>3, <2>4, <2>5, <2>6 DEF FInv
<1>6. ASSUME NEW p \in Pid, Launch(p) PROVE FInv'
  <2>1. /\ pc' = [pc EXCEPT ![p] = "check_pid"]
        /\ \A q \in Pid : ~Running(q)
        /\ UNCHANGED <<last_alarm, timers, files, orphan>>
    BY <1>6 DEF Launch, Goto, IInv, LaunchOnlyWhenDown
  <2>2. \A q \in Pid : pc[q] \notin LoopPC \cup {"unlink"} /\ pc'[q] \notin LoopPC
    BY <2>1 DEF Running, LoopPC, IInv, Types
  <2>3. LatestIs'
    BY <2>2 DEF LatestIs
  <2> QED BY <2>1, <2>2, <2>3, FQuietStep
<1> QED BY <1>1, <1>2, <1>3, <1>4, <1>5, <1>6 DEF StopAndLaunch

LEMMA NextFInv == IInv /\ FInv /\ [Next]_vars => FInv'
<1> SUFFICES ASSUME IInv, FInv, [Next]_vars PROVE FInv'
  OBVIOUS
<1>1. CASE UNCHANGED vars
  BY <1>1, FStill DEF vars, consumer, history
<1>2. CASE Next
  BY <1>2, FDispatchStep, FConsumerStep, FServiceStep DEF Next
<1> QED BY <1>1, <1>2

LEMMA FilesMatch == IInv /\ FInv => FilesFollowDispatch
<1> SUFFICES ASSUME IInv, FInv, NEW p \in Pid, complete, Drained(p)
             PROVE  /\ latest \in Alarm => latest \in files
                    /\ files \subseteq orphan \cup {latest} \cup Timed
  BY DEF FilesFollowDispatch
<1>1. latest = last_alarm[p]
  BY NewestEmpty DEF FInv, LatestIs, Drained
<1>2. \A q \in Pid : q # p => last_alarm[q] = None
  BY OthersHaveNone DEF Drained, Running, LoopPC
<1>3. None \notin files
  BY PipelineConstants DEF FInv, FileTypes
<1>4. files \subseteq orphan \cup {last_alarm[q] : q \in Pid} \cup Timed
  BY DEF FInv, FilesAccounted
<1>5. files \subseteq orphan \cup {last_alarm[p]} \cup Timed
  BY <1>2, <1>3, <1>4
<1> QED BY <1>1, <1>5 DEF FInv, AlarmHasFile

(* With any number of processes, packets and mirrors: when ipc2file has    *)
(* caught up and nothing was lost since it started, the alarm dispatch     *)
(* received last and not ended has its file, and every other file is an    *)
(* orphan or the sound file of a running timer.                            *)
THEOREM FilesFollow == Spec => []FilesFollowDispatch
<1>1. Init => IInv /\ FInv
  BY InitIInv, InitFInv
<1>2. (IInv /\ FInv) /\ [Next]_vars => (IInv /\ FInv)'
  BY NextIInv, NextFInv
<1> QED BY <1>1, <1>2, FilesMatch, PTL DEF Spec

-----------------------------------------------------------------------------
(* The safety half of TransparentToDispatch.  What is left of a sequence   *)
(* is found by induction over its length, through the smallest number.     *)
LEMMA LeastNumber ==
  ASSUME NEW T \in SUBSET Nat, T # {}
  PROVE  \E n \in T : \A m \in T : n <= m
<1> DEFINE R == StrictSubsetOrdering(Nat)
           S == FiniteSubsetsOf(Nat)
           U == {0 .. n : n \in T}
<1>1. IsWellFoundedOn(R, S)
  BY FS_StrictSubsetOrderingWellFounded
<1>2. U \subseteq S
  <2>1. ASSUME NEW n \in T PROVE 0 .. n \in S
    <3>1. IsFiniteSet(0 .. n)
      BY FS_Interval
    <3>2. 0 .. n \subseteq Nat
      OBVIOUS
    <3>3. QED
      BY <3>1, <3>2 DEF FiniteSubsetsOf
  <2>2. QED
    BY <2>1
<1>3. U # {}
  OBVIOUS
<1> HIDE DEF R, S, U
<1>4. \E x \in U : \A y \in U : <<y, x>> \notin R
  BY <1>1, <1>2, <1>3, WFMin
<1>5. PICK x \in U : \A y \in U : <<y, x>> \notin R
  BY <1>4
<1>6. PICK n \in T : x = 0 .. n
  BY DEF U
<1>7. ASSUME NEW m \in T, m < n PROVE FALSE
  <2>1. 0 .. m \in U
    BY DEF U
  <2>2. 0 .. m \subseteq 0 .. n /\ n \in 0 .. n /\ n \notin 0 .. m
    BY <1>7
  <2>3. <<0 .. m, 0 .. n>> \in R
    BY <2>2 DEF R, StrictSubsetOrdering
  <2>4. QED
    BY <1>5, <1>6, <2>1, <2>3
<1>8. QED
  BY <1>7

(* What passes of the first n packets of s, K being the packets that pass: *)
(* Passing is SelectSeq as the module Sequences defines it.                *)
Step(K, s, f, n) ==
  IF n = 0 THEN <<>> ELSE IF s[n] \in K THEN Append(f[n - 1], s[n]) ELSE f[n - 1]
UpTo(K, s) == LET f[n \in 0 .. Len(s)] == Step(K, s, f, n) IN f
Passing(K, s) == UpTo(K, s)[Len(s)]

(* The recursive definition has a value, by induction over its domain.     *)
LEMMA UpToExists ==
  ASSUME NEW K, NEW s \in Seq(Packet), NEW m \in Nat
  PROVE  \E f : f = [n \in 0 .. m |-> Step(K, s, f, n)]
<1> DEFINE T == {j \in Nat : ~\E f : f = [n \in 0 .. j |-> Step(K, s, f, n)]}
<1>1. SUFFICES ASSUME T # {} PROVE FALSE
  OBVIOUS
<1>2. PICK j \in T : \A i \in T : j <= i
  BY <1>1, LeastNumber
<1>3. CASE j = 0
  <2> DEFINE g == [n \in 0 .. 0 |-> <<>>]
  <2>1. g = [n \in 0 .. 0 |-> Step(K, s, g, n)]
    BY DEF Step
  <2>2. QED
    BY <1>3, <2>1
<1>4. CASE j # 0
  <2>1. j - 1 \in Nat /\ j - 1 \notin T
    BY <1>2, <1>4
  <2>2. PICK f : f = [n \in 0 .. j - 1 |-> Step(K, s, f, n)]
    BY <2>1
  <2> DEFINE g == [n \in 0 .. j |-> Step(K, s, f, n)]
  <2>3. \A n \in 0 .. j - 1 : g[n] = f[n]
    BY <2>2
  <2>4. \A n \in 0 .. j : Step(K, s, g, n) = Step(K, s, f, n)
    <3>1. ASSUME NEW n \in 0 .. j, n # 0 PROVE g[n - 1] = f[n - 1]
      BY <1>2, <2>3, <3>1
    <3>2. QED
      BY <3>1 DEF Step
  <2>5. g = [n \in 0 .. j |-> Step(K, s, g, n)]
    BY <2>4
  <2>6. QED
    BY <1>2, <2>5
<1>5. QED
  BY <1>3, <1>4

LEMMA UpToIs ==
  ASSUME NEW K, NEW s \in Seq(Packet)
  PROVE  /\ UpTo(K, s)[0] = <<>>
         /\ \A n \in 1 .. Len(s) :
              /\ s[n] \in K => UpTo(K, s)[n] = Append(UpTo(K, s)[n - 1], s[n])
              /\ s[n] \notin K => UpTo(K, s)[n] = UpTo(K, s)[n - 1]
<1> DEFINE f == UpTo(K, s)
<1>1. Len(s) \in Nat
  BY LenProperties
<1>2. f = [n \in 0 .. Len(s) |-> Step(K, s, f, n)]
  BY <1>1, UpToExists DEF UpTo
<1> HIDE DEF f
<1>3. \A n \in 0 .. Len(s) : f[n] = Step(K, s, f, n)
  BY <1>2
<1>4. f[0] = <<>>
  BY <1>1, <1>3 DEF Step
<1>5. ASSUME NEW n \in 1 .. Len(s)
      PROVE  /\ s[n] \in K => f[n] = Append(f[n - 1], s[n])
             /\ s[n] \notin K => f[n] = f[n - 1]
  <2>1. n \in 0 .. Len(s) /\ n # 0
    BY <1>1
  <2>2. QED
    BY <1>3, <2>1 DEF Step
<1>6. QED
  BY <1>4, <1>5 DEF f

LEMMA PassingType ==
  ASSUME NEW K, NEW s \in Seq(Packet), NEW m \in 0 .. Len(s)
  PROVE  UpTo(K, s)[m] \in Seq(Packet)
<1>0. Len(s) \in Nat /\ \A n \in 1 .. Len(s) : s[n] \in Packet
  BY LenProperties, ElementOfSeq
<1> DEFINE T == {j \in Nat : j <= Len(s) /\ UpTo(K, s)[j] \notin Seq(Packet)}
<1>1. SUFFICES ASSUME T # {} PROVE FALSE
  BY <1>0
<1>2. PICK j \in T : \A i \in T : j <= i
  BY <1>1, LeastNumber
<1>3. j # 0
  BY <1>2, UpToIs, EmptySeq
<1>4. UpTo(K, s)[j - 1] \in Seq(Packet)
  BY <1>0, <1>2, <1>3
<1>5. j \in 1 .. Len(s) /\ s[j] \in Packet
  BY <1>0, <1>2, <1>3
<1> DEFINE u == UpTo(K, s)[j - 1]
<1>6. UpTo(K, s)[j] \in {Append(u, s[j]), u}
  BY <1>5, UpToIs
<1> HIDE DEF u
<1>7. Append(u, s[j]) \in Seq(Packet)
  BY <1>4, <1>5, AppendProperties DEF u
<1>8. QED
  BY <1>2, <1>4, <1>6, <1>7 DEF u

(* rmm puts a packet behind the others. *)
LEMMA PassingAppend ==
  ASSUME NEW K, NEW s \in Seq(Packet), NEW p \in Packet
  PROVE  Passing(K, Append(s, p)) = IF p \in K THEN Append(Passing(K, s), p) ELSE Passing(K, s)
<1> DEFINE t == Append(s, p)
<1>0. /\ Len(s) \in Nat /\ t \in Seq(Packet) /\ Len(t) = Len(s) + 1
      /\ \A n \in 1 .. Len(s) : t[n] = s[n]
      /\ t[Len(s) + 1] = p
  BY LenProperties, AppendProperties
<1> HIDE DEF t
<1> DEFINE T == {j \in Nat : j <= Len(s) /\ UpTo(K, t)[j] # UpTo(K, s)[j]}
<1>1. T = {}
  <2>1. SUFFICES ASSUME T # {} PROVE FALSE
    OBVIOUS
  <2>2. PICK j \in T : \A i \in T : j <= i
    BY <2>1, LeastNumber
  <2>3. j # 0
    BY <1>0, <2>2, UpToIs
  <2>4. UpTo(K, t)[j - 1] = UpTo(K, s)[j - 1]
    BY <1>0, <2>2, <2>3
  <2>5. j \in 1 .. Len(s) /\ j \in 1 .. Len(t) /\ t[j] = s[j]
    BY <1>0, <2>2, <2>3
  <2>6. UpTo(K, t)[j] = UpTo(K, s)[j]
    <3>1. /\ s[j] \in K => UpTo(K, s)[j] = Append(UpTo(K, s)[j - 1], s[j])
          /\ s[j] \notin K => UpTo(K, s)[j] = UpTo(K, s)[j - 1]
      BY <2>5, UpToIs
    <3>2. /\ t[j] \in K => UpTo(K, t)[j] = Append(UpTo(K, t)[j - 1], t[j])
          /\ t[j] \notin K => UpTo(K, t)[j] = UpTo(K, t)[j - 1]
      BY <1>0, <2>5, UpToIs
    <3>3. QED
      BY <2>4, <2>5, <3>1, <3>2
  <2>7. QED
    BY <2>2, <2>6
<1>2. UpTo(K, t)[Len(s)] = Passing(K, s)
  BY <1>0, <1>1 DEF Passing
<1>3. Len(t) \in 1 .. Len(t) /\ Len(t) - 1 = Len(s) /\ t[Len(t)] = p
  BY <1>0
<1> DEFINE n == Len(t)
<1>4. /\ t[n] \in K => UpTo(K, t)[n] = Append(UpTo(K, t)[n - 1], t[n])
      /\ t[n] \notin K => UpTo(K, t)[n] = UpTo(K, t)[n - 1]
  BY <1>0, <1>3, UpToIs
<1>5. UpTo(K, t)[n - 1] = Passing(K, s)
  BY <1>2, <1>3
<1>6. Passing(K, t) = UpTo(K, t)[n]
  BY DEF Passing
<1> HIDE DEF n
<1>7. t[n] = p
  BY <1>3 DEF n
<1>8. QED
  BY <1>4, <1>5, <1>6, <1>7 DEF t

LEMMA AppendToConcat ==
  ASSUME NEW a \in Seq(Packet), NEW u \in Seq(Packet), NEW x \in Packet
  PROVE  a \o Append(u, x) = Append(a \o u, x)
<1>1. <<x>> \in Seq(Packet) /\ a \o u \in Seq(Packet)
  BY ConcatProperties
<1>2. Append(u, x) = u \o <<x>> /\ Append(a \o u, x) = (a \o u) \o <<x>>
  BY <1>1, AppendIsConcat
<1>3. QED
  BY <1>1, <1>2, ConcatAssociative

(* mq_receive takes the first. *)
LEMMA PassingTail ==
  ASSUME NEW K, NEW s \in Seq(Packet), s # <<>>
  PROVE  /\ Head(s) \in Packet /\ Tail(s) \in Seq(Packet)
         /\ Head(s) \in K => Passing(K, s) = <<Head(s)>> \o Passing(K, Tail(s))
         /\ Head(s) \notin K => Passing(K, s) = Passing(K, Tail(s))
<1> DEFINE t == Tail(s)
           first == IF Head(s) \in K THEN <<Head(s)>> ELSE <<>>
<1>0. /\ Len(s) \in Nat /\ t \in Seq(Packet) /\ Len(t) = Len(s) - 1 /\ Len(t) \in Nat
      /\ Head(s) \in Packet /\ Head(s) = s[1]
      /\ \A n \in 1 .. Len(t) : t[n] = s[n + 1] /\ t[n] \in Packet
  BY LenProperties, HeadTailProperties, ElementOfSeq
<1> HIDE DEF t
<1>1. first \in Seq(Packet)
  BY <1>0, EmptySeq
<1> DEFINE T == {j \in Nat : j <= Len(t) /\ UpTo(K, s)[j + 1] # first \o UpTo(K, t)[j]}
<1>2. T = {}
  <2>1. SUFFICES ASSUME T # {} PROVE FALSE
    OBVIOUS
  <2>2. PICK j \in T : \A i \in T : j <= i
    BY <2>1, LeastNumber
  <2>3. j # 0
    <3>1. SUFFICES ASSUME j = 0 PROVE FALSE
      OBVIOUS
    <3>2. 1 \in 1 .. Len(s)
      BY <1>0
    <3> DEFINE f == UpTo(K, s)
    <3>3. /\ s[1] \in K => f[1] = Append(f[1 - 1], s[1])
          /\ s[1] \notin K => f[1] = f[1 - 1]
      BY <3>2, UpToIs
    <3>4. f[0] = <<>>
      BY UpToIs
    <3> HIDE DEF f
    <3>5. f[1] = IF s[1] \in K THEN Append(<<>>, s[1]) ELSE <<>>
      BY <3>3, <3>4
    <3>6. UpTo(K, s)[1] = IF s[1] \in K THEN Append(<<>>, s[1]) ELSE <<>>
      BY <3>5 DEF f
    <3>7. UpTo(K, s)[1] = first
      BY <1>0, <3>6
    <3>8. first \o UpTo(K, t)[0] = first
      BY <1>0, <1>1, UpToIs, ConcatEmptySeq
    <3>9. UpTo(K, s)[j + 1] # first \o UpTo(K, t)[j]
      BY <2>2
    <3> HIDE DEF first
    <3>10. UpTo(K, s)[0 + 1] # first \o UpTo(K, t)[0]
      BY <3>1, <3>9
    <3>11. QED
      BY <3>7, <3>8, <3>10
  <2> DEFINE u == UpTo(K, t)[j - 1]
  <2>4. u \in Seq(Packet)
    BY <1>0, <2>2, <2>3, PassingType
  <2>5. UpTo(K, s)[j] = first \o u
    <3>0. j \in Nat /\ j <= Len(t) /\ \A i \in T : j <= i
      BY <2>2
    <3> HIDE DEF T
    <3>1. j - 1 \in Nat /\ j - 1 <= Len(t) /\ j - 1 \notin T /\ (j - 1) + 1 = j
      BY <1>0, <3>0, <2>3
    <3> DEFINE i == j - 1
    <3>2. i \in Nat /\ i <= Len(t) /\ i \notin T /\ i + 1 = j /\ UpTo(K, t)[i] = u
      BY <3>1
    <3> HIDE DEF i, first, u
    <3>3. UpTo(K, s)[i + 1] = first \o UpTo(K, t)[i]
      BY <3>2 DEF T
    <3>4. QED
      BY <3>2, <3>3
  <2>6. j \in 1 .. Len(t) /\ j + 1 \in 1 .. Len(s) /\ t[j] = s[j + 1] /\ t[j] \in Packet
        /\ (j + 1) - 1 = j
    BY <1>0, <2>2, <2>3
  <2>7. UpTo(K, t)[j] = IF t[j] \in K THEN Append(u, t[j]) ELSE u
    BY <1>0, <2>6, UpToIs
  <2>8. UpTo(K, s)[j + 1] = IF t[j] \in K THEN Append(first \o u, t[j]) ELSE first \o u
    <3> DEFINE i == j + 1
    <3>1. i \in 1 .. Len(s) /\ i - 1 = j /\ s[i] = t[j]
      BY <2>6
    <3> HIDE DEF i
    <3>2. /\ s[i] \in K => UpTo(K, s)[i] = Append(UpTo(K, s)[i - 1], s[i])
          /\ s[i] \notin K => UpTo(K, s)[i] = UpTo(K, s)[i - 1]
      BY <3>1, UpToIs
    <3> HIDE DEF first, u
    <3>3. UpTo(K, s)[i] = IF t[j] \in K THEN Append(first \o u, t[j]) ELSE first \o u
      BY <2>5, <3>1, <3>2
    <3>4. QED
      BY <3>3 DEF i
  <2> HIDE DEF first, u
  <2>9. first \o Append(u, t[j]) = Append(first \o u, t[j])
    BY <1>1, <2>4, <2>6, AppendToConcat
  <2>10. QED
    BY <2>2, <2>7, <2>8, <2>9
<1>3. UpTo(K, s)[Len(s)] = first \o Passing(K, t)
  <2> DEFINE n == Len(t)
  <2>1. n \notin T
    BY <1>2
  <2>2. n \in Nat /\ n <= Len(t) /\ n + 1 = Len(s) /\ Passing(K, t) = UpTo(K, t)[n]
    BY <1>0 DEF Passing
  <2> HIDE DEF n, first
  <2>3. UpTo(K, s)[n + 1] = first \o UpTo(K, t)[n]
    BY <2>1, <2>2 DEF T
  <2>4. QED
    BY <2>2, <2>3
<1>4. Passing(K, t) \in Seq(Packet)
  BY <1>0, PassingType DEF Passing
<1>5. <<>> \o Passing(K, t) = Passing(K, t)
  BY <1>4, ConcatEmptySeq
<1>6. QED
  BY <1>0, <1>3, <1>5 DEF Passing, t

-----------------------------------------------------------------------------
(* The original queue without the dropped packets, and what mq_receive has *)
(* in its hand before it: the mapping of TransparentToDispatch.            *)
Passed == {p \in Packet : Passes(p)}
InHand == IF hand = None THEN <<>> ELSE <<hand>>
StillToReceive == InHand \o Passing(Passed, inbox)
Kept == INSTANCE FilteredReceive WITH inbox <- StillToReceive

LEMMA KeptInit == Init => Kept!Init
<1> SUFFICES ASSUME Init PROVE StillToReceive = <<>>
  BY DEF Kept!Init
<1>1. inbox = <<>> /\ hand = None /\ <<>> \in Seq(Packet)
  BY EmptySeq DEF Init
<1>2. Passing(Passed, <<>>) = <<>>
  BY <1>1, UpToIs, EmptySeq DEF Passing
<1>3. QED
  BY <1>1, <1>2, ConcatEmptySeq DEF StillToReceive, InHand

(* The choice of the environment is for ever.                              *)
LEMMA PassedStays == [Next]_vars => Passed' = Passed
<1> SUFFICES ASSUME [Next]_vars PROVE env' = env
  BY DEF Passed, Passes, is_cloud_event
<1> USE DEF dispatch, vars
<1>1. CASE Rmm \/ Dispatch
  BY <1>1 DEF Rmm, rmm_send, Dispatch, ipc_multiplex_initialize, mq_receive, mq_receive_return, mq_send
<1>2. ASSUME NEW p \in Pid, ipc2file(p) PROVE env' = env
  BY <1>2 DEF ipc2file, check_pid, create_pid, open_queue, clear_queue, main_loop, receive, terminate
<1>3. ASSUME NEW p \in Pid, sound_stop_thread(p) \/ Crash(p) \/ Reaped(p) PROVE env' = env
  BY <1>3 DEF sound_stop_thread, Crash, Reaped
<1>4. CASE ensure_ipc \/ release_ipc \/ StopAndLaunch \/ ServiceKilled
  BY <1>4 DEF ensure_ipc, release_ipc, StopAndLaunch, ServiceKilled, Terminate, Kill, Launch, ServiceOnly
<1>5. QED
  BY <1>1, <1>2, <1>3, <1>4 DEF Next

(* Only these steps touch the queue and the packet in the hand.            *)
LEMMA KeptStill == UNCHANGED <<inbox, hand>> /\ Passed' = Passed => UNCHANGED StillToReceive
BY DEF StillToReceive, InHand

LEMMA KeptStep == IInv /\ [Next]_vars => [Kept!Next]_StillToReceive
<1> SUFFICES ASSUME IInv, [Next]_vars PROVE [Kept!Next]_StillToReceive
  OBVIOUS
<1>1. Passed' = Passed
  BY PassedStays
<1>2. inbox \in Seq(Packet) /\ hand \in Packet \cup {None} /\ None \notin Packet
  BY PipelineConstants DEF IInv, Types
<1>3. Passing(Passed, inbox) \in Seq(Packet) /\ InHand \in Seq(Packet)
  BY <1>2, PassingType, LenProperties, EmptySeq DEF Passing, InHand
<1>4. ASSUME NEW p \in Sent, rmm_send(p) PROVE [Kept!Next]_StillToReceive
  <2>1. p \in Packet
    BY PipelineConstants
  <2>2. inbox' = Append(inbox, p) /\ hand' = hand
    BY <1>4 DEF rmm_send
  <2>3. Passing(Passed, inbox)' =
          IF p \in Passed THEN Append(Passing(Passed, inbox), p) ELSE Passing(Passed, inbox)
    BY <1>1, <1>2, <2>1, <2>2, PassingAppend
  <2>4. InHand' = InHand
    BY <2>2 DEF InHand
  <2>5. CASE p \in Passed
    <3>1. StillToReceive' = InHand \o Append(Passing(Passed, inbox), p)
      BY <2>3, <2>4, <2>5 DEF StillToReceive
    <3>2. StillToReceive' = Append(StillToReceive, p)
      BY <1>3, <2>1, <3>1, AppendToConcat DEF StillToReceive
    <3>3. QED
      BY <2>1, <3>2 DEF Kept!Next, Kept!Send
  <2>6. CASE p \notin Passed
    BY <2>3, <2>4, <2>6 DEF StillToReceive
  <2>7. QED
    BY <2>5, <2>6
<1>5. CASE mq_receive
  <2>1. hand = None /\ inbox # <<>> /\ inbox' = Tail(inbox)
    BY <1>5 DEF mq_receive
  <2>2. Head(inbox) \in Passed <=> ~is_cloud_event(Head(inbox))
    BY <1>2, <2>1, PassingTail DEF Passed, Passes
  <2>3. Passing(Passed, inbox)' = Passing(Passed, Tail(inbox))
    BY <1>1, <2>1
  <2>4. Passing(Passed, Tail(inbox)) \in Seq(Packet) /\ Head(inbox) \in Packet
    <3>1. Tail(inbox) \in Seq(Packet) /\ Head(inbox) \in Packet
      BY <1>2, <2>1, PassingTail
    <3>2. Len(Tail(inbox)) \in 0 .. Len(Tail(inbox))
      BY <3>1, LenProperties
    <3>3. QED
      BY <3>1, <3>2, PassingType DEF Passing
  <2>5. StillToReceive = Passing(Passed, inbox)
    BY <1>3, <2>1, ConcatEmptySeq DEF StillToReceive, InHand
  <2>6. CASE is_cloud_event(Head(inbox))
    <3>1. hand' = None
      BY <1>5, <2>1, <2>6 DEF mq_receive
    <3>2. StillToReceive' = Passing(Passed, Tail(inbox))
      BY <2>3, <2>4, <3>1, ConcatEmptySeq DEF StillToReceive, InHand
    <3>3. QED
      BY <1>2, <2>1, <2>2, <2>5, <2>6, <3>2, PassingTail
  <2>7. CASE ~is_cloud_event(Head(inbox))
    <3>1. hand' = Head(inbox) /\ hand' # None
      BY <1>2, <1>5, <2>4, <2>7 DEF mq_receive
    <3>2. StillToReceive' = <<Head(inbox)>> \o Passing(Passed, Tail(inbox))
      BY <2>3, <3>1 DEF StillToReceive, InHand
    <3>3. QED
      BY <1>2, <2>1, <2>2, <2>5, <2>7, <3>2, PassingTail
  <2>8. QED
    BY <2>6, <2>7
<1>6. CASE mq_receive_return
  <2>1. hand # None /\ hand' = None /\ inbox' = inbox
    BY <1>6 DEF mq_receive_return
  <2>2. StillToReceive = <<hand>> \o Passing(Passed, inbox)
    BY <2>1 DEF StillToReceive, InHand
  <2>3. StillToReceive' = Passing(Passed, inbox)
    BY <1>1, <1>3, <2>1, ConcatEmptySeq DEF StillToReceive, InHand
  <2>4. StillToReceive # <<>> /\ StillToReceive' = Tail(StillToReceive)
    BY <1>2, <1>3, <2>1, <2>2, <2>3
  <2>5. QED
    BY <2>4 DEF Kept!Next, Kept!Receive
<1>7. ASSUME UNCHANGED <<inbox, hand>> PROVE [Kept!Next]_StillToReceive
  BY <1>1, <1>7, KeptStill
<1> USE DEF dispatch, vars
<1>8. CASE ipc_multiplex_initialize \/ \E i \in Mirror : mq_send(i)
  BY <1>7, <1>8 DEF ipc_multiplex_initialize, mq_send
<1>9. ASSUME NEW p \in Pid, ipc2file(p) PROVE UNCHANGED <<inbox, hand>>
  BY <1>9 DEF ipc2file, check_pid, create_pid, open_queue, clear_queue, main_loop, receive, terminate
<1>10. ASSUME NEW p \in Pid, sound_stop_thread(p) \/ Crash(p) \/ Reaped(p) PROVE UNCHANGED <<inbox, hand>>
  BY <1>10 DEF sound_stop_thread, Crash, Reaped
<1>11. CASE ensure_ipc \/ release_ipc \/ StopAndLaunch \/ ServiceKilled
  BY <1>7, <1>11 DEF ensure_ipc, release_ipc, StopAndLaunch, ServiceKilled, Terminate, Kill, Launch, ServiceOnly
<1>12. QED
  BY <1>4, <1>5, <1>6, <1>7, <1>8, <1>9, <1>10, <1>11 DEF Next, Rmm, Dispatch

(* Whatever is killed, full or slow, and whatever is dropped: to dispatch  *)
(* the preloaded mq_receive is the original one on a queue without the     *)
(* dropped packets, each received once and in order.  (That it receives    *)
(* them in the end is the other half of TransparentToDispatch.)            *)
THEOREM MirroringIsInvisible == Spec => Kept!Init /\ [][Kept!Next]_StillToReceive
<1>1. IInv /\ [Next]_vars => [Kept!Next]_StillToReceive
  BY KeptStep
<1>2. QED
  BY KeptInit, <1>1, Invariant, PTL DEF Spec
=============================================================================
