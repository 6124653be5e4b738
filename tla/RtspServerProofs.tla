------------------------- MODULE RtspServerProofs -------------------------
(* Proofs about Backchannel, for any sessions, helpers and files, and      *)
(* about Audio, for any sizes of buffers, pipe and frames.                 *)
EXTENDS MCRtspServer, SequenceTheorems, FiniteSetTheorems, TLAPS

(* A helper has the lock from lock_speaker to close(lock). *)
Locked(p) == Writing(p) \/ pc[p] \in {"open", "unlock"}

PlayerOwns == \A p \in Player : Locked(p) <=> owner = p

(* createNew makes the only sink. *)
OneSink ==
  /\ handler.at = "open" => \A c \in Client : ~Sink(c)
  /\ \A c, d \in Client : Sink(c) /\ Sink(d) => c = d

(* A file is read only while blocks remain. *)
BlocksRemain ==
  \A p \in Player \ Stream : pc[p] = "fread" => remaining[p] # 0

IInv == TypeOK /\ PlayerOwns /\ BusyIsLock /\ OneSink /\ BlocksRemain

PC == {"gone", "lock", "open", "while", "fread", "waiting", "write_pcm", "close", "unlock"}

USE SpeakerConstants

-----------------------------------------------------------------------------
(* The server's part and the helpers' part are disturbed by different      *)
(* steps.                                                                  *)

HelperTypes ==
  /\ pc \in [Player -> PC] /\ remaining \in [Player -> 0..Blocks]
  /\ stopped \subseteq Player /\ missed \subseteq Stream

ServerTypes ==
  /\ up \in BOOLEAN /\ busy \in {0, 1}
  /\ handler \in {Idle} \cup [at : {"lock", "open"}, for : Client]
  /\ token \in [Client -> {"none", "idle", "playing", "spent"}]

OtherTypes ==
  /\ owner \in Player \cup {Server, None}
  /\ reader \in BOOLEAN /\ conn \subseteq Client
  /\ target \in Player \cup {None}

LEMMA TypesSplit == TypeOK <=> HelperTypes /\ ServerTypes /\ OtherTypes
BY DEF TypeOK, HelperTypes, ServerTypes, OtherTypes, PC

(* A step of the server that takes or gives up no helper's lock. *)
LEMMA ServerStep ==
  ASSUME IInv, UNCHANGED helpers, ServerTypes', OtherTypes',
         owner' = owner \/ {owner, owner'} \subseteq {Server, None},
         BusyIsLock', OneSink'
  PROVE  IInv'
<1>1. HelperTypes' BY TypesSplit DEF IInv, HelperTypes, helpers
<1>2. TypeOK' BY <1>1 DEF TypeOK, HelperTypes, ServerTypes, OtherTypes, PC
<1>3. PlayerOwns'
  BY DEF IInv, PlayerOwns, Locked, Writing, helpers
<1>4. BlocksRemain' BY DEF IInv, BlocksRemain, helpers
<1> QED BY <1>2, <1>3, <1>4 DEF IInv

(* A step of helper p. *)
LEMMA HelperStep ==
  ASSUME IInv, UNCHANGED server, HelperTypes', OtherTypes',
         PlayerOwns', BlocksRemain',
         owner' = owner \/ {owner, owner'} \subseteq Player \cup {None}
  PROVE  IInv'
<1>1. ServerTypes' BY TypesSplit DEF IInv, ServerTypes, server
<1>2. TypeOK' BY <1>1 DEF TypeOK, HelperTypes, ServerTypes, OtherTypes, PC
<1>3. BusyIsLock' BY DEF IInv, BusyIsLock, Sink, server
<1>4. OneSink' BY DEF IInv, OneSink, Sink, server
<1> QED BY <1>2, <1>3, <1>4 DEF IInv

(* Closing the sink of c leaves none, and the lock free. *)
LEMMA ReclaimFrees ==
  ASSUME IInv, NEW c \in Client, handler.at # "open", Reclaim(c),
         NEW t \in {"none", "spent"}, token' = [token EXCEPT ![c] = t],
         handler'.at # "open"
  PROVE  /\ busy' \in {0, 1} /\ owner' \in Player \cup {Server, None}
         /\ owner' = owner \/ {owner, owner'} \subseteq {Server, None}
         /\ BusyIsLock' /\ OneSink'
<1>1. /\ token \in [Client -> {"none", "idle", "playing", "spent"}] /\ busy \in {0, 1}
      /\ owner \in Player \cup {Server, None}
  BY DEF IInv, TypeOK
<1>2. \A d \in Client : Sink(d)' <=> Sink(d) /\ d # c
  BY <1>1 DEF Sink
<1>3. OneSink' BY <1>2 DEF IInv, OneSink
<1>4. CASE Sink(c)
  <2>1. owner = Server BY <1>4 DEF IInv, BusyIsLock
  <2>2. owner' = None /\ busy' = 0
    BY <1>4, <2>1 DEF Reclaim, CloseSink, Unlocked
  <2>3. \A d \in Client : ~Sink(d)' BY <1>2, <1>4 DEF IInv, OneSink
  <2> QED BY <1>3, <2>1, <2>2, <2>3 DEF BusyIsLock
<1>5. CASE ~Sink(c)
  <2>1. owner' = owner /\ busy' = busy BY <1>5 DEF Reclaim
  <2>2. \A d \in Client : Sink(d)' <=> Sink(d) BY <1>2, <1>5
  <2> QED BY <1>1, <1>3, <2>1, <2>2 DEF IInv, BusyIsLock
<1> QED BY <1>4, <1>5

-----------------------------------------------------------------------------
(* rRTSPServer's steps *)

LEMMA ServerFacts ==
  ASSUME IInv
  PROVE  ServerTypes /\ OtherTypes /\ HelperTypes
BY TypesSplit DEF IInv

LEMMA SETUPKeeps == ASSUME IInv, NEW c \in Client, SETUP(c) PROVE IInv'
<1> USE DEF SETUP, Handling, Idle
<1>1. handler.at # "open" /\ handler'.at # "open" /\ UNCHANGED helpers
  OBVIOUS
<1>2. /\ busy' \in {0, 1} /\ owner' \in Player \cup {Server, None}
      /\ owner' = owner \/ {owner, owner'} \subseteq {Server, None}
      /\ BusyIsLock' /\ OneSink'
  BY <1>1, ReclaimFrees
<1>3. ServerTypes' /\ OtherTypes'
  BY <1>2, ServerFacts DEF ServerTypes, OtherTypes
<1> QED BY <1>1, <1>2, <1>3, ServerStep

LEMMA DeleteKeeps ==
  ASSUME IInv, NEW c \in Client, Handling, deleteStream(c), UNCHANGED conn
  PROVE  IInv'
<1> USE DEF deleteStream, Handling, Idle
<1>1. handler.at # "open" /\ handler'.at # "open" /\ UNCHANGED helpers
  OBVIOUS
<1>2. /\ busy' \in {0, 1} /\ owner' \in Player \cup {Server, None}
      /\ owner' = owner \/ {owner, owner'} \subseteq {Server, None}
      /\ BusyIsLock' /\ OneSink'
  BY <1>1, ReclaimFrees
<1>3. ServerTypes' /\ OtherTypes'
  BY <1>2, ServerFacts DEF ServerTypes, OtherTypes
<1> QED BY <1>1, <1>2, <1>3, ServerStep

LEMMA OutputClosedKeeps ==
  ASSUME IInv, NEW c \in Client, OutputClosed(c) PROVE IInv'
<1> USE DEF OutputClosed, Handling, Idle
<1>1. handler.at # "open" /\ handler'.at # "open" /\ UNCHANGED helpers
  OBVIOUS
<1>2. /\ busy' \in {0, 1} /\ owner' \in Player \cup {Server, None}
      /\ owner' = owner \/ {owner, owner'} \subseteq {Server, None}
      /\ BusyIsLock' /\ OneSink'
  BY <1>1, ReclaimFrees
<1>3. ServerTypes' /\ OtherTypes'
  BY <1>2, ServerFacts DEF ServerTypes, OtherTypes
<1> QED BY <1>1, <1>2, <1>3, ServerStep

(* The flag is clear when the lock is taken: there is no sink. *)
LEMMA AcquireKeeps == ASSUME IInv, acquireSpeakerLock PROVE IInv'
<1> USE DEF acquireSpeakerLock, FlagClear
<1>1. PICK c \in Client : handler = [at |-> "lock", for |-> c]
  BY ServerFacts DEF ServerTypes, Idle
<1>2. ServerTypes' /\ UNCHANGED helpers /\ \A d \in Client : Sink(d)' <=> Sink(d)
  BY <1>1, ServerFacts DEF ServerTypes, Idle, Sink
<1>3. owner # Server => owner' = owner \/ (owner = None /\ owner' = Server)
  BY DEF Unlocked, Lockable
<1>4. CASE ~(busy = 0 /\ Lockable(Server))
  <2>1. owner' = owner /\ busy' = busy /\ handler' = Idle
    BY <1>4, ServerFacts DEF ServerTypes, OtherTypes, Unlocked, Lockable, IInv, BusyIsLock
  <2>2. OtherTypes' BY <2>1, ServerFacts DEF OtherTypes
  <2>3. BusyIsLock' /\ OneSink'
    BY <1>1, <1>2, <2>1 DEF IInv, BusyIsLock, OneSink, Idle
  <2> QED BY <1>2, <2>1, <2>2, <2>3, ServerStep
<1>5. CASE busy = 0 /\ Lockable(Server)
  <2>1. owner' = Server /\ busy' = 1 /\ handler'.at = "open"
    BY <1>5
  <2>2. owner \in {Server, None} BY <1>5 DEF Lockable
  <2>3. OtherTypes' BY <2>1, ServerFacts DEF OtherTypes
  <2>4. \A d \in Client : ~Sink(d) BY <1>5 DEF IInv, BusyIsLock
  <2>5. BusyIsLock' /\ OneSink'
    BY <1>2, <2>1, <2>4 DEF BusyIsLock, OneSink
  <2> QED BY <1>2, <2>1, <2>2, <2>3, <2>5, ServerStep
<1> QED BY <1>4, <1>5

LEMMA CreateKeeps == ASSUME IInv, createNew PROVE IInv'
<1> USE DEF createNew
<1>1. PICK c \in Client : handler = [at |-> "open", for |-> c]
  BY ServerFacts DEF ServerTypes, Idle
<1>2. /\ busy = 1 /\ owner = Server /\ handler' = Idle /\ handler'.at # "open"
      /\ \A d \in Client : ~Sink(d)
  BY <1>1 DEF IInv, BusyIsLock, OneSink, Idle
<1>3. CASE token' = [token EXCEPT ![c] = "idle"] /\ UNCHANGED <<owner, busy>>
  <2>1. ServerTypes' /\ OtherTypes'
    BY <1>2, <1>3, ServerFacts DEF ServerTypes, OtherTypes
  <2>2. \A d \in Client : Sink(d)' <=> d = c
    BY <1>2, <1>3, ServerFacts DEF ServerTypes, Sink
  <2>3. BusyIsLock' /\ OneSink'
    BY <1>2, <1>3, <2>2 DEF BusyIsLock, OneSink
  <2> QED BY <1>3, <2>1, <2>3, ServerStep
<1>4. CASE CloseSink /\ UNCHANGED token
  <2>1. owner' = None /\ busy' = 0 BY <1>2, <1>4 DEF CloseSink, Unlocked
  <2>2. ServerTypes' /\ OtherTypes'
    BY <1>2, <1>4, <2>1, ServerFacts DEF ServerTypes, OtherTypes
  <2>3. \A d \in Client : ~Sink(d)' BY <1>2, <1>4 DEF Sink
  <2>4. BusyIsLock' /\ OneSink' BY <1>2, <2>1, <2>3 DEF BusyIsLock, OneSink
  <2> QED BY <1>2, <2>1, <2>2, <2>4, ServerStep
<1> QED BY <1>1, <1>3, <1>4

(* Steps that leave the lock, the flag and the set of sinks alone. *)
LEMMA SinksKept ==
  ASSUME IInv, UNCHANGED helpers, UNCHANGED <<owner, busy, handler>>,
         \A c \in Client : Sink(c)' <=> Sink(c), ServerTypes', OtherTypes'
  PROVE  IInv'
<1>1. BusyIsLock' /\ OneSink' BY DEF IInv, BusyIsLock, OneSink
<1> QED BY <1>1, ServerStep

LEMMA PlayPauseKeeps ==
  ASSUME IInv, NEW c \in Client, PLAY(c) \/ PAUSE(c) PROVE IInv'
<1> USE DEF PLAY, PAUSE
<1>1. UNCHANGED <<owner, busy, handler, up, reader, conn, target>> /\ UNCHANGED helpers
  OBVIOUS
<1>2. Sink(c) /\ Sink(c)' /\ token' \in [Client -> {"none", "idle", "playing", "spent"}]
      /\ \A d \in Client \ {c} : token'[d] = token[d]
  BY ServerFacts DEF ServerTypes, Sink
<1>3. \A d \in Client : Sink(d)' <=> Sink(d) BY <1>2 DEF Sink
<1>4. ServerTypes' /\ OtherTypes'
  BY <1>1, <1>2, ServerFacts DEF ServerTypes, OtherTypes
<1> QED BY <1>1, <1>3, <1>4, SinksKept

LEMMA EnvironmentKeeps ==
  ASSUME IInv, ServerStarts \/ rmm \/ \E c \in Client : Connect(c) \/ Leave(c)
  PROVE  IInv'
<1>1. UNCHANGED <<owner, busy, handler, token, target>> /\ UNCHANGED helpers
  BY DEF ServerStarts, rmm, Connect, Leave, server
<1>2. up' \in BOOLEAN /\ reader' \in BOOLEAN /\ conn' \subseteq Client
  BY ServerFacts DEF ServerStarts, rmm, Connect, Leave, server, ServerTypes, OtherTypes
<1>3. ServerTypes' /\ OtherTypes'
  BY <1>1, <1>2, ServerFacts DEF ServerTypes, OtherTypes
<1>4. \A c \in Client : Sink(c)' <=> Sink(c) BY <1>1 DEF Sink
<1> QED BY <1>1, <1>3, <1>4, SinksKept

(* The kernel takes back the lock of a dead server, and no other. *)
LEMMA ServerDiesKeeps == ASSUME IInv, ServerDies PROVE IInv'
<1> USE DEF ServerDies
<1>1. /\ owner' # Server
      /\ owner' = owner \/ (owner = Server /\ owner' = None)
      /\ busy' = 0 /\ handler'.at # "open" /\ UNCHANGED helpers
  BY DEF Unlocked, Idle
<1>2. \A c \in Client : ~Sink(c)' BY DEF Sink
<1>3. ServerTypes' /\ OtherTypes'
  BY <1>1, ServerFacts DEF ServerTypes, OtherTypes
<1>4. BusyIsLock' /\ OneSink' BY <1>1, <1>2 DEF BusyIsLock, OneSink
<1> QED BY <1>1, <1>3, <1>4, ServerStep

-----------------------------------------------------------------------------
(* The helpers' steps *)

(* Between lock_speaker and close(lock). *)
AfterLock == {"open", "while", "fread", "waiting", "write_pcm", "close", "unlock"}

(* A step that stays on the same side of both. *)
LEMMA MoveKeeps ==
  ASSUME IInv, NEW p \in Player, NEW l \in PC,
         pc' = [pc EXCEPT ![p] = l],
         pc[p] \in AfterLock <=> l \in AfterLock,
         l = "fread" => p \in Stream \/ remaining'[p] # 0,
         \A q \in Player \ {p} : remaining'[q] = remaining[q],
         HelperTypes', OtherTypes', UNCHANGED server, UNCHANGED owner
  PROVE  IInv'
<1>1. \A q \in Player : pc'[q] = IF q = p THEN l ELSE pc[q]
  BY ServerFacts DEF HelperTypes
<1>2. PlayerOwns'
  BY <1>1 DEF IInv, PlayerOwns, Locked, Writing, AfterLock
<1>3. BlocksRemain' BY <1>1 DEF IInv, BlocksRemain
<1> QED BY <1>2, <1>3, HelperStep

(* Steps along the loop, with one block fewer or as many. *)
LEMMA GotoKeeps ==
  ASSUME IInv, NEW p \in Player, NEW l \in PC, Goto(p, l),
         pc[p] \in AfterLock <=> l \in AfterLock,
         l = "fread" => p \in Stream \/ remaining[p] # 0,
         UNCHANGED <<owner, reader, server, conn, target>>
  PROVE  IInv'
<1>1. HelperTypes' /\ OtherTypes'
  BY ServerFacts DEF Goto, Only, HelperTypes, OtherTypes
<1> QED BY <1>1, MoveKeeps DEF Goto, Only

LEMMA LoopKeeps ==
  ASSUME IInv, NEW p \in Player,
         open_fifo(p) \/ while(p) \/ fread(p) \/ Input(p) \/ write_pcm(p) \/ close_fifo(p)
  PROVE  IInv'
<1> USE DEF AfterLock, PC
<1>1. CASE open_fifo(p) BY <1>1, GotoKeeps DEF open_fifo
<1>2. CASE while(p)
  <2>1. CASE Done(p) BY <1>2, <2>1, GotoKeeps DEF while
  <2>2. CASE ~Done(p)
    <3>1. p \in Stream \/ remaining[p] # 0 BY <2>2 DEF Done
    <3> QED BY <1>2, <2>2, <3>1, GotoKeeps DEF while
  <2> QED BY <2>1, <2>2
<1>3. CASE fread(p)
  <2>1. CASE \E l \in {"waiting", "close"} : Goto(p, l)
    BY <1>3, <2>1, GotoKeeps DEF fread
  <2>2. CASE /\ p \notin Stream /\ Only(p, "write_pcm")
             /\ remaining' = [remaining EXCEPT ![p] = @ - 1]
             /\ UNCHANGED <<stopped, missed>>
    <3>1. remaining[p] \in 0..Blocks /\ remaining[p] # 0
      BY <1>3, <2>2, ServerFacts DEF fread, HelperTypes, IInv, BlocksRemain
    <3>2. HelperTypes' /\ OtherTypes'
      BY <1>3, <2>2, <3>1, ServerFacts DEF fread, Only, HelperTypes, OtherTypes
    <3>3. \A q \in Player \ {p} : remaining'[q] = remaining[q]
      BY <2>2, ServerFacts DEF HelperTypes
    <3> QED BY <1>3, <2>2, <3>2, <3>3, MoveKeeps DEF fread, Only
  <2> QED BY <1>3, <2>1, <2>2 DEF fread
<1>4. CASE Input(p) BY <1>4, GotoKeeps DEF Input
<1>5. CASE write_pcm(p) BY <1>5, GotoKeeps DEF write_pcm
<1>6. CASE close_fifo(p) BY <1>6, GotoKeeps DEF close_fifo
<1> QED BY <1>1, <1>2, <1>3, <1>4, <1>5, <1>6

LEMMA LaunchKeeps == ASSUME IInv, NEW p \in Player, Launch(p) PROVE IInv'
<1> USE DEF Launch, Only
<1>1. PICK n \in 0..Blocks : remaining' = [remaining EXCEPT ![p] = n]
  OBVIOUS
<1>2. HelperTypes' /\ OtherTypes'
  BY <1>1, ServerFacts DEF HelperTypes, OtherTypes, PC
<1>3. \A q \in Player \ {p} : remaining'[q] = remaining[q]
  BY <1>1, ServerFacts DEF HelperTypes
<1> QED BY <1>2, <1>3, MoveKeeps DEF AfterLock, PC

(* The steps at which a helper takes or loses the lock. *)
LEMMA HandoverKeeps ==
  ASSUME IInv, NEW p \in Player, NEW l \in {"gone", "open"}, Goto(p, l),
         owner' = IF l = "open" THEN p ELSE Unlocked(p),
         l = "open" => owner = None,
         UNCHANGED <<reader, server, conn, target>>
  PROVE  IInv'
<1>1. HelperTypes' /\ OtherTypes'
  BY ServerFacts DEF Goto, Only, HelperTypes, OtherTypes, Unlocked, PC
<1>2. \A q \in Player : pc'[q] = IF q = p THEN l ELSE pc[q]
  BY ServerFacts DEF HelperTypes, Goto, Only
<1>3. owner' = owner \/ {owner, owner'} \subseteq Player \cup {None}
  BY DEF Unlocked
<1>4. PlayerOwns'
  BY <1>2 DEF IInv, PlayerOwns, Locked, Writing, Unlocked
<1>5. BlocksRemain' BY <1>2 DEF IInv, BlocksRemain, Goto
<1> QED BY <1>1, <1>3, <1>4, <1>5, HelperStep

LEMMA LockKeeps ==
  ASSUME IInv, NEW p \in Player, lock_speaker(p) \/ close_lock(p) \/ Kill(p)
  PROVE  IInv'
<1>1. CASE lock_speaker(p)
  <2>1. ~Locked(p) /\ owner # p
    BY <1>1 DEF lock_speaker, Locked, Writing, IInv, PlayerOwns
  <2>2. CASE ~Lockable(p)
    BY <1>1, <2>1, <2>2, HandoverKeeps DEF lock_speaker, Unlocked
  <2>3. CASE Lockable(p)
    BY <1>1, <2>1, <2>3, HandoverKeeps DEF lock_speaker, Lockable
  <2> QED BY <2>2, <2>3
<1>2. CASE close_lock(p) BY <1>2, HandoverKeeps DEF close_lock
<1>3. CASE Kill(p) BY <1>3, HandoverKeeps DEF Kill
<1> QED BY <1>1, <1>2, <1>3

LEMMA TerminateKeeps ==
  ASSUME IInv, NEW p \in Player, Terminate(p), target' \in {target, None},
         UNCHANGED <<owner, reader, server, conn>>
  PROVE  IInv'
<1> USE DEF Terminate, Interrupted
<1>1. pc[p] \in PC /\ remaining' = remaining BY ServerFacts DEF HelperTypes
<1>2. HelperTypes' /\ OtherTypes'
  BY ServerFacts DEF HelperTypes, OtherTypes, PC
<1>3. CASE Interrupted(p)
  BY <1>1, <1>2, <1>3, MoveKeeps DEF AfterLock, PC
<1>4. CASE ~Interrupted(p)
  <2>1. pc' = [pc EXCEPT ![p] = pc[p]] BY <1>4
  <2>2. pc[p] = "fread" => p \in Stream \/ remaining[p] # 0
    BY DEF IInv, BlocksRemain
  <2> QED BY <1>1, <1>2, <2>1, <2>2, MoveKeeps
<1> QED BY <1>3, <1>4

LEMMA CancelKeeps == ASSUME IInv, cancel_speaker \/ cancel_signal PROVE IInv'
<1>1. ASSUME UNCHANGED <<owner, reader, server, conn, helpers>>,
             target' \in Player \cup {None}
      PROVE  IInv'
  <2>1. \A c \in Client : Sink(c)' <=> Sink(c) BY <1>1 DEF server, Sink
  <2>2. ServerTypes' /\ OtherTypes'
    BY <1>1, ServerFacts DEF ServerTypes, OtherTypes, server
  <2> QED BY <1>1, <2>1, <2>2, SinksKept DEF server
<1>2. CASE cancel_speaker BY <1>1, <1>2 DEF cancel_speaker
<1>3. CASE cancel_signal
  <2>1. target \in Player BY <1>3, ServerFacts DEF cancel_signal, OtherTypes
  <2>2. CASE Terminate(target) BY <1>3, <2>1, <2>2, TerminateKeeps DEF cancel_signal
  <2>3. CASE UNCHANGED helpers BY <1>1, <1>3, <2>3 DEF cancel_signal
  <2> QED BY <1>3, <2>2, <2>3 DEF cancel_signal
<1> QED BY <1>2, <1>3

-----------------------------------------------------------------------------
LEMMA InitHolds == Init => IInv
<1> SUFFICES ASSUME Init PROVE IInv
  OBVIOUS
<1> USE DEF Init, Idle
<1>1. TypeOK BY DEF TypeOK
<1>2. PlayerOwns BY DEF PlayerOwns, Locked, Writing
<1>3. BusyIsLock BY DEF BusyIsLock, Sink
<1>4. OneSink BY DEF OneSink, Sink
<1>5. BlocksRemain BY DEF BlocksRemain
<1> QED BY <1>1, <1>2, <1>3, <1>4, <1>5 DEF IInv

LEMMA StepKeeps == IInv /\ [Next]_vars => IInv'
<1> SUFFICES ASSUME IInv, [Next]_vars PROVE IInv'
  OBVIOUS
<1>1. CASE rRTSPServer BY <1>1, AcquireKeeps, CreateKeeps DEF rRTSPServer
<1>2. CASE ServerDies BY <1>2, ServerDiesKeeps
<1>3. CASE ServerStarts \/ rmm BY <1>3, EnvironmentKeeps
<1>4. ASSUME NEW c \in Client, Request(c) \/ Notice(c) PROVE IInv'
  <2>1. CASE SETUP(c) BY <2>1, SETUPKeeps
  <2>2. CASE PLAY(c) \/ PAUSE(c) BY <2>2, PlayPauseKeeps
  <2>3. CASE OutputClosed(c) BY <2>3, OutputClosedKeeps
  <2>4. CASE TEARDOWN(c) BY <2>4, DeleteKeeps DEF TEARDOWN
  <2>5. CASE Notice(c) BY <2>5, DeleteKeeps DEF Notice
  <2>6. CASE Connect(c) \/ Leave(c) BY <2>6, EnvironmentKeeps
  <2> QED BY <1>4, <2>1, <2>2, <2>3, <2>4, <2>5, <2>6 DEF Request
<1>5. ASSUME NEW p \in Player,
             Launch(p) \/ speaker(p) \/ Input(p) \/ killsignal(p) \/ Kill(p)
      PROVE  IInv'
  <2>1. CASE Launch(p) BY <2>1, LaunchKeeps
  <2>2. CASE speaker(p) \/ Input(p) \/ Kill(p)
    BY <2>2, LoopKeeps, LockKeeps DEF speaker
  <2>3. CASE killsignal(p) BY <2>3, TerminateKeeps DEF killsignal
  <2> QED BY <1>5, <2>1, <2>2, <2>3
<1>6. CASE cancel_speaker \/ cancel_signal BY <1>6, CancelKeeps
<1>7. CASE UNCHANGED vars
  <2>1. UNCHANGED <<owner, reader, server, conn, helpers, target>> BY <1>7 DEF vars
  <2>2. \A c \in Client : Sink(c)' <=> Sink(c) BY <2>1 DEF server, Sink
  <2>3. ServerTypes' /\ OtherTypes'
    BY <2>1, ServerFacts DEF ServerTypes, OtherTypes, server
  <2> QED BY <2>1, <2>2, <2>3, SinksKept DEF server
<1> QED BY <1>1, <1>2, <1>3, <1>4, <1>5, <1>6, <1>7 DEF Next

LEMMA Invariance == Spec => []IInv
BY InitHolds, StepKeeps, PTL DEF Spec

(* The types of rRTSPServer's state, the lock and the helpers: a file of   *)
(* any length is never read past its end.                                  *)
THEOREM Typing == Spec => []TypeOK
<1>1. IInv => TypeOK BY DEF IInv
<1> QED BY <1>1, Invariance, PTL

(* For any number of sessions and helpers, killed or cancelled at any      *)
(* step: whoever has the FIFO open for audio holds the lock, and one       *)
(* session at most has it inside rRTSPServer.                              *)
THEOREM NoTwoVoices == Spec => []OneVoice
<1>1. IInv => OneVoice
  BY DEF IInv, OneVoice, OneSink, BusyIsLock, PlayerOwns, Locked
<1> QED BY <1>1, Invariance, PTL

(* yiSpeakerBusy, the kernel's record and the sinks never disagree. *)
THEOREM FlagAgrees == Spec => []BusyIsLock
<1>1. IInv => BusyIsLock BY DEF IInv
<1> QED BY <1>1, Invariance, PTL
-----------------------------------------------------------------------------
(* Audio: the options and the audio pipe's existence never change, so what *)
(* a source makes of the samples does not change either.                   *)
Byte == [half : 0 .. 1, old : BOOLEAN]
Encoded == (0 .. 2) \X Nat

(* The pipe holds whole samples, the reader takes whole samples, and what  *)
(* waited in the pipe is thrown away when reading starts.                  *)
WavInv ==
  /\ pipe \in Seq(Byte) /\ got \in Seq(Byte) /\ out \in Seq(Byte)
  /\ Len(pipe) % 2 = 0 /\ \A i \in DOMAIN pipe : pipe[i].half = (i + 1) % 2 /\ ~pipe[i].old
  /\ awaiting => got = <<>> /\ room = Room
  /\ Sound!WholeAndFresh

(* What was sent last and what is held back are what was due.              *)
AdtsInv ==
  /\ due \in Seq(Encoded) /\ held \in Seq(Encoded) /\ out \in Seq(Encoded) /\ frame \in 0 .. 2
  /\ Sound!EncodedInOrder

AudioInv == (Sound!kind = "wav" => WavInv) /\ (Sound!kind = "adts" => AdtsInv)

LEMMA AudioSizes ==
  ASSUME Sound!AudioConstants
  PROVE  /\ Room \in Nat /\ Room >= 2 /\ AacMax \in Nat /\ AacSizes \subseteq Nat
<1>1. {Room, PipeMax, AacFrame, AacMax} \subseteq Nat \ {0}
  BY DEF Sound!AudioConstants
<1>2. Room \in Nat \ {0} /\ AacMax \in Nat \ {0}
  BY <1>1
<1>3. AacSizes \subseteq Nat
  BY DEF Sound!AudioConstants
<1>4. Room >= 2
  BY DEF Sound!AudioConstants
<1>5. QED
  BY <1>2, <1>3, <1>4

LEMMA Kinds == Sound!kind \in {"wav", "adts"} /\ (Sound!kind = "wav" <=> Sound!kind # "adts")
BY DEF Sound!kind

(* The first m elements and the rest make up the sequence.                 *)
LEMMA Halves ==
  ASSUME NEW S, NEW s \in Seq(S), NEW m \in 0 .. Len(s)
  PROVE  /\ SubSeq(s, 1, m) \in Seq(S) /\ Len(SubSeq(s, 1, m)) = m
         /\ \A i \in 1 .. m : SubSeq(s, 1, m)[i] = s[i]
         /\ SubSeq(s, m + 1, Len(s)) \in Seq(S) /\ Len(SubSeq(s, m + 1, Len(s))) = Len(s) - m
         /\ \A i \in 1 .. Len(s) - m : SubSeq(s, m + 1, Len(s))[i] = s[m + i]
         /\ Sound!IsPrefix(SubSeq(s, 1, m), s)
<1> DEFINE n == Len(s)
           a == SubSeq(s, 1, m)
           b == SubSeq(s, m + 1, n)
<1>1. n \in Nat /\ m \in Nat /\ m <= n /\ m \in Int /\ n \in Int /\ 1 \in Int /\ m + 1 \in Int
  OBVIOUS
<1>2. /\ \A i \in 1 .. n : s[i] \in S
      /\ \A i \in 1 .. m : i \in 1 .. n
      /\ \A i \in m + 1 .. n : i \in 1 .. n
  BY <1>1
<1>3. /\ a \in Seq(S) /\ Len(a) = (IF 1 <= m THEN (m - 1) + 1 ELSE 0)
      /\ \A i \in 1 .. m - 1 + 1 : a[i] = s[1 + i - 1]
  BY <1>1, <1>2, SubSeqProperties
<1>4. /\ b \in Seq(S) /\ Len(b) = (IF m + 1 <= n THEN (n - (m + 1)) + 1 ELSE 0)
      /\ \A i \in 1 .. (n - (m + 1)) + 1 : b[i] = s[((m + 1) + i) - 1]
  BY <1>1, <1>2, SubSeqProperties
<1> HIDE DEF n, a, b
<1>5. Len(a) = m /\ Len(b) = n - m
  BY <1>1, <1>3, <1>4
<1>6. \A i \in 1 .. m : a[i] = s[i]
  <2>1. ASSUME NEW i \in 1 .. m PROVE a[i] = s[i]
    <3>1. i \in 1 .. m - 1 + 1 /\ 1 + i - 1 = i
      BY <1>1
    <3>2. QED
      BY <1>3, <3>1
  <2>2. QED
    BY <2>1
<1>7. \A i \in 1 .. n - m : b[i] = s[m + i]
  <2>1. ASSUME NEW i \in 1 .. n - m PROVE b[i] = s[m + i]
    <3>1. i \in 1 .. (n - (m + 1)) + 1 /\ ((m + 1) + i) - 1 = m + i
      BY <1>1
    <3>2. QED
      BY <1>4, <3>1
  <2>2. QED
    BY <2>1
<1>8. Sound!IsPrefix(a, s)
  <2>1. SubSeq(a, 1, Len(a)) = a
    BY <1>3, SubSeqFull
  <2>2. a = SubSeq(s, 1, Len(a))
    BY <1>5 DEF a
  <2>3. Len(a) <= Len(s)
    BY <1>1, <1>5 DEF n
  <2>4. QED
    BY <2>1, <2>2, <2>3 DEF Sound!IsPrefix
<1>9. QED
  BY <1>3, <1>4, <1>5, <1>6, <1>7, <1>8 DEF a, b, n

LEMMA AudioInitially == ASSUME Sound!AudioConstants, Sound!Init PROVE AudioInv
<1>1. /\ pipe = <<>> /\ got = <<>> /\ out = <<>> /\ held = <<>> /\ due = <<>> /\ frame = 0
      /\ awaiting = FALSE
  BY DEF Sound!Init
<1>2. Len(pipe) = 0 /\ Len(out) = 0 /\ Len(due) = 0 /\ DOMAIN pipe = {} /\ DOMAIN out = {}
      /\ 0 % 2 = 0
  BY <1>1
<1>3. Sound!WholeAndFresh
  BY <1>2 DEF Sound!WholeAndFresh
<1>4. WavInv
  BY <1>1, <1>2, <1>3 DEF WavInv
<1>5. SubSeq(due, 1, 0) = <<>> /\ SubSeq(out, 1, 0) = <<>>
  BY SubSeqEmpty
<1>6. Sound!EncodedInOrder
  BY <1>1, <1>2, <1>5 DEF Sound!EncodedInOrder, Sound!IsPrefix
<1>7. AdtsInv
  BY <1>1, <1>6 DEF AdtsInv
<1>8. QED
  BY <1>4, <1>7 DEF AudioInv

(* Steps that deliver nothing. *)
LEMMA AdtsKept ==
  ASSUME AudioInv, UNCHANGED settings, UNCHANGED Sound!aac, UNCHANGED out
  PROVE  (Sound!kind = "adts")' => AdtsInv'
<1>1. Sound!kind' = Sound!kind /\ held' = held /\ due' = due /\ frame' = frame /\ out' = out
  BY DEF Sound!kind, Sound!aac
<1>2. QED
  BY <1>1 DEF AudioInv, AdtsInv, Sound!EncodedInOrder

LEMMA WavKept ==
  ASSUME AudioInv, UNCHANGED settings, UNCHANGED out,
         Sound!kind = "wav" =>
           /\ pipe' \in {pipe, <<>>} /\ got' \in {got, <<>>}
           /\ awaiting' => got' = <<>> /\ room' = Room
  PROVE  (Sound!kind = "wav")' => WavInv'
<1>1. Sound!kind' = Sound!kind /\ out' = out
  BY DEF Sound!kind
<1>2. SUFFICES ASSUME Sound!kind = "wav" PROVE WavInv'
  BY <1>1
<1>3. WavInv
  BY <1>2 DEF AudioInv
<1>4. Sound!WholeAndFresh'
  BY <1>1, <1>3 DEF WavInv, Sound!WholeAndFresh
<1>5. /\ Len(pipe') % 2 = 0 /\ pipe' \in Seq(Byte) /\ got' \in Seq(Byte)
      /\ \A i \in DOMAIN pipe' : pipe'[i].half = (i + 1) % 2 /\ ~pipe'[i].old
  <2> DEFINE Good(p) == /\ Len(p) % 2 = 0 /\ p \in Seq(Byte)
                        /\ \A i \in DOMAIN p : p[i].half = (i + 1) % 2 /\ ~p[i].old
  <2>1. Good(pipe) /\ got \in Seq(Byte)
    BY <1>3 DEF WavInv
  <2>2. Good(<<>>)
    <3>1. DOMAIN <<>> = {} /\ Len(<<>>) = 0 /\ 0 % 2 = 0 /\ <<>> \in Seq(Byte)
      OBVIOUS
    <3>2. QED
      BY <3>1
  <2> HIDE DEF Good
  <2>3. got' \in Seq(Byte)
    <3>1. <<>> \in Seq(Byte)
      OBVIOUS
    <3>2. got' = got \/ got' = <<>>
      BY <1>2
    <3>3. QED
      BY <2>1, <3>1, <3>2
  <2>4. Good(pipe')
    BY <1>2, <2>1, <2>2
  <2>5. QED
    BY <2>3, <2>4 DEF Good
<1>6. QED
  BY <1>1, <1>2, <1>3, <1>4, <1>5 DEF WavInv

LEMMA WritesSample == ASSUME AudioInv, Sound!Write PROVE AudioInv'
<1>1. UNCHANGED settings /\ UNCHANGED Sound!aac /\ UNCHANGED out /\ Sound!kind' = Sound!kind
      /\ UNCHANGED <<got, awaiting, room>>
  BY DEF Sound!Write, Sound!side, Sound!asked, Sound!kind
<1>2. (Sound!kind = "adts")' => AdtsInv'
  BY <1>1, AdtsKept
<1>3. CASE pipe' = pipe
  <2>1. Sound!kind = "wav" => (awaiting' => got' = <<>> /\ room' = Room)
    BY <1>1 DEF AudioInv, WavInv
  <2>2. QED
    BY <1>1, <1>2, <1>3, <2>1, WavKept DEF AudioInv
<1>4. CASE pipe' = pipe \o Sound!Bytes(FALSE)
  <2>1. SUFFICES ASSUME Sound!kind = "wav" PROVE WavInv'
    BY <1>1, <1>2 DEF AudioInv
  <2>2. WavInv
    BY <2>1 DEF AudioInv
  <2>3. Sound!WholeAndFresh'
    BY <1>1, <2>2 DEF WavInv, Sound!WholeAndFresh
  <2> DEFINE S == Byte
             b == Sound!Bytes(FALSE)
             n == Len(pipe)
  <2>4. /\ b = <<[half |-> 0, old |-> FALSE], [half |-> 1, old |-> FALSE]>>
        /\ [half |-> 0, old |-> FALSE] \in S /\ [half |-> 1, old |-> FALSE] \in S
    BY DEF Sound!Bytes, Byte
  <2>5. pipe \in Seq(S) /\ n % 2 = 0 /\ \A i \in DOMAIN pipe : pipe[i].half = (i + 1) % 2
        /\ ~pipe[i].old
    BY <2>2 DEF WavInv
  <2> HIDE DEF S
  <2>6. b \in Seq(S) /\ Len(b) = 2 /\ b[1].half = 0 /\ b[2].half = 1 /\ ~b[1].old /\ ~b[2].old
    <3> DEFINE x == [half |-> 0, old |-> FALSE]
               y == [half |-> 1, old |-> FALSE]
    <3>1. b = <<x, y>> /\ x \in S /\ y \in S
      BY <2>4
    <3>2. x.half = 0 /\ y.half = 1 /\ ~x.old /\ ~y.old
      OBVIOUS
    <3> HIDE DEF x, y, b
    <3>3. b \in Seq(S) /\ Len(b) = 2 /\ b[1] = x /\ b[2] = y
      BY <3>1
    <3>4. QED
      BY <3>2, <3>3
  <2> HIDE DEF b
  <2>7. /\ pipe' \in Seq(S) /\ Len(pipe') = n + 2 /\ n \in Nat
        /\ \A i \in 1 .. n + 2 : pipe'[i] = IF i <= n THEN pipe[i] ELSE b[i - n]
    <3>1. pipe' = pipe \o b /\ pipe \in Seq(S) /\ b \in Seq(S) /\ Len(b) = 2
      BY <1>4, <2>5, <2>6 DEF b
    <3>2. n \in Nat /\ n + Len(b) = n + 2
      BY <3>1
    <3>3. /\ pipe' \in Seq(S) /\ Len(pipe') = n + Len(b)
          /\ \A i \in 1 .. n + Len(b) : pipe'[i] = IF i <= n THEN pipe[i] ELSE b[i - n]
      BY <3>1, ConcatProperties
    <3> HIDE DEF n
    <3>4. QED
      BY <3>2, <3>3
  <2>8. DOMAIN pipe = 1 .. n /\ DOMAIN pipe' = 1 .. n + 2
    <3>1. pipe \in Seq(S) /\ pipe' \in Seq(S) /\ Len(pipe') = n + 2
      BY <2>5, <2>7
    <3>2. DOMAIN pipe = 1 .. Len(pipe)
      BY <3>1
    <3>3. DOMAIN pipe' = 1 .. Len(pipe')
      BY <3>1
    <3>4. QED
      BY <3>1, <3>2, <3>3
  <2> HIDE DEF n
  <2>9. (n + 2) % 2 = 0 /\ ((n + 1) + 1) % 2 = 0 /\ ((n + 2) + 1) % 2 = 1
    <3>1. n \in Nat
      BY <2>7
    <3>2. n % 2 = 0
      BY <2>5
    <3>3. QED
      BY <3>1, <3>2
  <2>10. ASSUME NEW i \in 1 .. n + 2 PROVE pipe'[i].half = (i + 1) % 2 /\ ~pipe'[i].old
    <3>1. CASE i <= n
      <4>1. i \in 1 .. n /\ pipe'[i] = pipe[i]
        BY <2>7, <3>1
      <4>2. QED
        BY <2>5, <2>8, <4>1
    <3>2. CASE i = n + 1
      <4>1. i - n = 1 /\ ~(i <= n)
        BY <2>7, <3>2
      <4>2. QED
        BY <2>6, <2>7, <2>9, <3>2, <4>1
    <3>3. CASE i = n + 2
      <4>1. i - n = 2 /\ ~(i <= n)
        BY <2>7, <3>3
      <4>2. QED
        BY <2>6, <2>7, <2>9, <3>3, <4>1
    <3>4. i <= n \/ i = n + 1 \/ i = n + 2
      BY <2>7
    <3>5. QED
      BY <3>1, <3>2, <3>3, <3>4
  <2>11. QED
    BY <1>1, <2>2, <2>3, <2>7, <2>8, <2>9, <2>10 DEF WavInv, S
<1>5. QED
  BY <1>3, <1>4 DEF Sound!Write

(* The camera's end, time, and the end of a reading. *)
LEMMA QuietStep ==
  ASSUME AudioInv,
         Sound!WriterGoes \/ Sound!FiveSeconds \/ Sound!StopGettingFrames
         \/ Sound!NotReady \/ Sound!TooLate
  PROVE  AudioInv'
<1>1. /\ UNCHANGED settings /\ UNCHANGED Sound!aac /\ UNCHANGED out /\ Sound!kind' = Sound!kind
      /\ pipe' \in {pipe, <<>>} /\ got' = got /\ room' = room /\ awaiting' \in {awaiting, FALSE}
  BY DEF Sound!WriterGoes, Sound!FiveSeconds, Sound!StopGettingFrames, Sound!NotReady,
         Sound!TooLate, Sound!Stop, Sound!side, Sound!asked, Sound!kind
<1>2. Sound!kind = "wav" => (awaiting' => got' = <<>> /\ room' = Room)
  BY <1>1 DEF AudioInv, WavInv
<1>3. QED
  BY <1>1, <1>2, AdtsKept, WavKept DEF AudioInv

LEMMA AsksForFrame == ASSUME AudioInv, Sound!GetNextFrame PROVE AudioInv'
<1>1. /\ UNCHANGED settings /\ UNCHANGED Sound!aac /\ UNCHANGED out /\ Sound!kind' = Sound!kind
         /\ room' = Room
      /\ Sound!kind = "wav" => got' = <<>> /\ pipe' \in {pipe, <<>>}
  BY DEF Sound!GetNextFrame, Sound!Start, Sound!side, Sound!asked, Sound!kind
<1>2. QED
  BY <1>1, AdtsKept, WavKept DEF AudioInv

(* Room for an even number of bytes, and an even number of bytes wait.     *)
LEMMA ReadsWav == ASSUME Sound!AudioConstants, AudioInv, Sound!ReadWav PROVE AudioInv'
<1> DEFINE r == Sound!BytesToRead(room)
           len == Len(pipe)
           n == Sound!Least(r, len)
           new == SubSeq(pipe, 1, n)
           rest == SubSeq(pipe, n + 1, len)
<1>1. /\ Sound!kind = "wav" /\ Sound!kind' = Sound!kind /\ awaiting /\ got = got
      /\ pipe' = rest /\ got' = got \o new
      /\ awaiting' = (n > 0 /\ ~(n > 0 /\ Len(got \o new) % 2 = 0))
      /\ out' = (IF n > 0 /\ Len(got \o new) % 2 = 0 THEN got \o new ELSE out)
  BY DEF Sound!ReadWav, Sound!side, Sound!asked, Sound!kind
<1>2. WavInv
  BY <1>1 DEF AudioInv
<1> DEFINE S == Byte
<1>3. /\ got = <<>> /\ room = Room /\ pipe \in Seq(S) /\ out \in Seq(S) /\ len % 2 = 0
      /\ \A i \in DOMAIN pipe : pipe[i].half = (i + 1) % 2 /\ ~pipe[i].old
      /\ \A i \in DOMAIN out : out[i].half = (i + 1) % 2 /\ ~out[i].old
      /\ Len(out) % 2 = 0
  BY <1>1, <1>2 DEF WavInv, Sound!WholeAndFresh
<1> HIDE DEF S
<1>4. /\ len \in Nat /\ DOMAIN pipe = 1 .. len
  BY <1>3
<1>5. r \in Nat /\ r % 2 = 0
  <2>1. r = Room - (Room % 2) /\ Room \in Nat
    BY <1>3, AudioSizes DEF Sound!BytesToRead
  <2> HIDE DEF r
  <2>2. QED
    BY <2>1
<1>6. n \in 0 .. len /\ n % 2 = 0 /\ n \in Nat
  <2> HIDE DEF r, len
  <2>1. n = IF r < len THEN r ELSE len
    BY DEF Sound!Least
  <2> HIDE DEF n
  <2>2. QED
    <3>1. len \in Nat /\ len % 2 = 0
      BY <1>3, <1>4
    <3>2. CASE r < len
      BY <1>5, <2>1, <3>1, <3>2
    <3>3. CASE ~(r < len)
      BY <2>1, <3>1, <3>3
    <3>4. QED
      BY <3>2, <3>3
<1> HIDE DEF r, n
<1>7. /\ new \in Seq(S) /\ Len(new) = n /\ rest \in Seq(S) /\ Len(rest) = len - n
      /\ \A i \in 1 .. n : new[i] = pipe[i]
      /\ \A i \in 1 .. len - n : rest[i] = pipe[n + i]
  BY <1>3, <1>6, Halves
<1> HIDE DEF new, rest
<1>8. got \o new = new
  BY <1>3, <1>7
<1>9. DOMAIN new = 1 .. n /\ DOMAIN rest = 1 .. len - n
  BY <1>7
<1> HIDE DEF len
<1>10. \A i \in DOMAIN new : new[i].half = (i + 1) % 2 /\ ~new[i].old
  <2>1. \A i \in 1 .. n : i \in 1 .. len
    BY <1>4, <1>6
  <2>2. QED
    BY <1>3, <1>4, <1>7, <1>9, <2>1
<1>11. \A i \in DOMAIN rest : rest[i].half = (i + 1) % 2 /\ ~rest[i].old
  <2>1. ASSUME NEW i \in 1 .. len - n PROVE rest[i].half = (i + 1) % 2 /\ ~rest[i].old
    <3>1. n + i \in 1 .. len /\ ((n + i) + 1) % 2 = (i + 1) % 2
      BY <1>4, <1>6
    <3>2. pipe[n + i].half = ((n + i) + 1) % 2 /\ ~pipe[n + i].old
      BY <1>3, <1>4, <3>1
    <3>3. QED
      BY <1>7, <3>1, <3>2
  <2>2. QED
    BY <1>9, <2>1
<1>12. Len(rest) % 2 = 0
  <2>1. (len - n) % 2 = 0
    <3>1. len \in Nat /\ len % 2 = 0 /\ n \in Nat /\ n % 2 = 0 /\ n <= len
      BY <1>3, <1>4, <1>6
    <3>2. QED
      BY <3>1
  <2>2. QED
    BY <1>7, <2>1
<1>13. awaiting' = FALSE
  BY <1>1, <1>6, <1>7, <1>8
<1>14. out' \in Seq(S) /\ Len(out') % 2 = 0 /\ \A i \in DOMAIN out' : out'[i].half = (i + 1) % 2
       /\ ~out'[i].old
  <2>1. out' = new \/ out' = out
    BY <1>1, <1>8
  <2>2. Len(new) % 2 = 0
    BY <1>6, <1>7
  <2>3. CASE out' = new
    BY <1>7, <1>10, <2>2, <2>3
  <2>4. CASE out' = out
    BY <1>3, <2>4
  <2>5. QED
    BY <2>1, <2>3, <2>4
<1>15. WavInv'
  <2>1. Sound!WholeAndFresh'
    BY <1>14 DEF Sound!WholeAndFresh
  <2>2. got' \in Seq(Byte) /\ pipe' \in Seq(Byte) /\ out' \in Seq(Byte)
    BY <1>1, <1>7, <1>8, <1>14 DEF S
  <2>3. QED
    BY <1>1, <1>11, <1>12, <1>13, <2>1, <2>2 DEF WavInv
<1>16. QED
  BY <1>1, <1>15 DEF AudioInv

(* What was held back comes first, then what the encoder made now.         *)
LEMMA ReadsAdts == ASSUME Sound!AudioConstants, AudioInv, Sound!ReadAdts PROVE AudioInv'
<1>1. Sound!kind = "adts" /\ Sound!kind' = Sound!kind /\ Sound!kind # "wav" /\ UNCHANGED settings
  BY DEF Sound!ReadAdts, Sound!side, Sound!asked, Sound!kind
<1>2. AdtsInv
  BY <1>1 DEF AudioInv
<1> DEFINE S == Encoded
           n == Len(due)
           o == Len(out)
<1>3. /\ due \in Seq(S) /\ held \in Seq(S) /\ out \in Seq(S) /\ frame \in 0 .. 2
      /\ held = SubSeq(due, o + 1, n)
  BY <1>1, <1>2 DEF AdtsInv, Sound!EncodedInOrder
<1> HIDE DEF S
<1>4. CASE UNCHANGED Sound!aac /\ UNCHANGED out
  BY <1>1, <1>4, AdtsKept DEF AudioInv
<1>5. CASE out' = <<>> /\ due' = Sound!Carry(due, o) /\ held' = held /\ frame' = frame
  <2>1. due' = held
    BY <1>3, <1>5 DEF Sound!Carry
  <2>2. SubSeq(due', 1, Len(due')) = due'
    BY <1>3, <2>1, SubSeqFull
  <2>3. Len(out') = 0 /\ Len(due') \in Nat /\ 0 + 1 = 1
    BY <1>3, <1>5, <2>1
  <2>4. SubSeq(out', 1, 0) = <<>> /\ SubSeq(due', 1, 0) = <<>>
    BY SubSeqEmpty
  <2>5. Sound!IsPrefix(out', due')
    BY <2>3, <2>4 DEF Sound!IsPrefix
  <2>6. Sound!EncodedInOrder'
    BY <1>5, <2>1, <2>2, <2>3, <2>5 DEF Sound!EncodedInOrder
  <2>7. out' \in Seq(S)
    BY <1>5
  <2>8. QED
    BY <1>1, <1>3, <1>5, <2>1, <2>6, <2>7 DEF AdtsInv, AudioInv, S
<1>6. ASSUME NEW size \in AacSizes,
             due' = Sound!Carry(due, o) \o Sound!Payload(size), frame' = (frame + 1) % 3,
             out' = SubSeq(held \o Sound!Payload(size), 1,
               Sound!Least(AacMax, Len(held \o Sound!Payload(size)))),
             held' = Sound!Carry(held \o Sound!Payload(size),
               Sound!Least(AacMax, Len(held \o Sound!Payload(size))))
      PROVE  AudioInv'
  <2> DEFINE p == Sound!Payload(size)
             h == held \o p
             m == Sound!Least(AacMax, Len(h))
  <2>1. size \in Nat /\ AacMax \in Nat
    BY AudioSizes
  <2>2. p \in Seq(S)
    <3>1. p = [i \in 1 .. size |-> <<frame, i>>]
      BY DEF Sound!Payload
    <3>2. \A i \in 1 .. size : <<frame, i>> \in S
      BY <1>3, <2>1 DEF S, Encoded
    <3>3. p \in [1 .. size -> S]
      BY <3>1, <3>2
    <3> HIDE DEF p
    <3>4. QED
      BY <2>1, <3>3
  <2> HIDE DEF p
  <2>3. h \in Seq(S)
    BY <1>3, <2>2
  <2>4. due' = h
    BY <1>3, <1>6 DEF Sound!Carry, p
  <2> HIDE DEF h
  <2>5. m \in 0 .. Len(h)
    <3>1. Len(h) \in Nat
      BY <2>3
    <3>2. m = IF AacMax < Len(h) THEN AacMax ELSE Len(h)
      BY DEF Sound!Least
    <3> HIDE DEF m
    <3>3. QED
      BY <2>1, <3>1, <3>2
  <2> HIDE DEF m
  <2>6. out' = SubSeq(h, 1, m) /\ held' = SubSeq(h, m + 1, Len(h))
    BY <1>6 DEF Sound!Carry, h, m, p
  <2>7. /\ out' \in Seq(S) /\ Len(out') = m /\ held' \in Seq(S) /\ Sound!IsPrefix(out', h)
    BY <2>3, <2>5, <2>6, Halves
  <2>8. Sound!EncodedInOrder'
    BY <2>4, <2>6, <2>7 DEF Sound!EncodedInOrder
  <2>9. frame' \in 0 .. 2
    BY <1>3, <1>6
  <2>10. QED
    BY <1>1, <2>3, <2>4, <2>7, <2>8, <2>9 DEF AdtsInv, AudioInv, S
<1>7. QED
  <2>1. \/ UNCHANGED Sound!aac /\ UNCHANGED out
        \/ \E size \in AacSizes :
             \/ out' = <<>> /\ due' = Sound!Carry(due, o) /\ held' = held /\ frame' = frame
             \/ /\ due' = Sound!Carry(due, o) \o Sound!Payload(size) /\ frame' = (frame + 1) % 3
                /\ out' = SubSeq(held \o Sound!Payload(size), 1,
                     Sound!Least(AacMax, Len(held \o Sound!Payload(size))))
                /\ held' = Sound!Carry(held \o Sound!Payload(size),
                     Sound!Least(AacMax, Len(held \o Sound!Payload(size))))
    BY DEF Sound!ReadAdts
  <2>2. QED
    BY <1>4, <1>5, <1>6, <2>1

LEMMA AudioInductive == ASSUME Sound!AudioConstants, AudioInv,
  [Sound!Next]_Sound!vars PROVE AudioInv'
<1>1. CASE UNCHANGED Sound!vars
  <2>1. /\ UNCHANGED settings /\ UNCHANGED Sound!aac /\ UNCHANGED out /\ Sound!kind' = Sound!kind
        /\ pipe' = pipe /\ got' = got /\ room' = room /\ awaiting' = awaiting
    BY <1>1 DEF Sound!vars, Sound!aac, Sound!kind
  <2>2. Sound!kind = "wav" => (awaiting' => got' = <<>> /\ room' = Room)
    BY <2>1 DEF AudioInv, WavInv
  <2>3. QED
    BY <2>1, <2>2, AdtsKept, WavKept DEF AudioInv
<1>2. QED
  BY <1>1, WritesSample, QuietStep, AsksForFrame, ReadsWav, ReadsAdts DEF Sound!Next

-----------------------------------------------------------------------------
(* The options, whatever words were given for them.                        *)
OptionsInv ==
  /\ settings["r"] \in {"low", "high", "both"} /\ fifo \in BOOLEAN
  /\ settings["a"] \in {"no", "yes", "alaw", "ulaw", "pcm", "aac"}
  /\ settings["b"] \in {"alaw", "ulaw", "aac", "none"}

(* A session's tracks: sound only as x, and the back channel as track      *)
(* number at, or nowhere if that is 0.                                     *)
GoodTracks(tracks, sound, at, x) ==
  /\ DOMAIN tracks \subseteq 1 .. 3
  /\ \A m \in DOMAIN tracks : tracks[m].kind = "audio" => sound /\ tracks[m].sink = x
  /\ \A m \in DOMAIN tracks : tracks[m].kind = "back" <=> m = at
  /\ at # 0 => at \in DOMAIN tracks
  /\ sound => \E m \in DOMAIN tracks : tracks[m].kind = "audio"

(* The back channel comes behind picture and sound.                        *)
BackAt(back, sound) == IF ~back THEN 0 ELSE IF sound THEN 3 ELSE 2

LEMMA OptionsInitially == ASSUME Sound!Init PROVE OptionsInv
<1>1. PICK arg, env : settings = Sound!Settings(arg, env)
  BY DEF Sound!Init
<1>2. DOMAIN Sound!Words = {"r", "c", "C", "a", "b"}
      /\ DOMAIN Sound!Default = {"r", "c", "C", "a", "b"}
  BY DEF Sound!Words, Sound!Default
<1>3. /\ Sound!Words["r"] = {"low", "high", "both"} /\ Sound!Default["r"] = "high"
      /\ Sound!Words["a"] = {"no", "yes", "alaw", "ulaw", "pcm", "aac"}
         /\ Sound!Default["a"] = "yes"
      /\ Sound!Words["b"] = {"alaw", "ulaw", "aac"} /\ Sound!Default["b"] = "none"
  BY DEF Sound!Words, Sound!Default
<1>4. \A o \in {"r", "a", "b"} :
        settings[o] = Sound!Read(o, Sound!Read(o, Sound!Default[o], arg[o]), env[o])
  BY <1>1, <1>2 DEF Sound!Settings
<1>5. settings["r"] \in {"low", "high", "both"}
  BY <1>3, <1>4 DEF Sound!Read
<1>6. settings["a"] \in {"no", "yes", "alaw", "ulaw", "pcm", "aac"}
  BY <1>3, <1>4 DEF Sound!Read
<1>7. settings["b"] \in {"alaw", "ulaw", "aac", "none"}
  BY <1>3, <1>4 DEF Sound!Read
<1>8. QED
  BY <1>5, <1>6, <1>7 DEF OptionsInv, Sound!Init

LEMMA OptionsStay == [Sound!Next]_Sound!vars => UNCHANGED <<settings, fifo>>
BY DEF Sound!Next, Sound!vars, Sound!Write, Sound!WriterGoes, Sound!FiveSeconds,
       Sound!GetNextFrame, Sound!StopGettingFrames, Sound!NotReady,
       Sound!TooLate, Sound!ReadWav, Sound!ReadAdts, Sound!side, Sound!asked

(* Short sequences, put together and taken apart.                          *)
LEMMA TwoJoined == ASSUME NEW p, NEW a PROVE <<p>> \o <<a>> = <<p, a>>
<1> DEFINE S == {p, a}
           u == <<p>> \o <<a>>
           w == <<p, a>>
<1>1. <<p>> \in Seq(S) /\ <<a>> \in Seq(S) /\ w \in Seq(S) /\ Len(w) = 2 /\ w[1] = p /\ w[2] = a
  OBVIOUS
<1>2. u \in Seq(S) /\ Len(u) = 2 /\ u[1] = p /\ u[2] = a
  BY <1>1
<1> HIDE DEF u, w, S
<1>3. u = w
  BY <1>1, <1>2, SeqEqual
<1>4. QED
  BY <1>3 DEF u, w

LEMMA ThreeJoined == ASSUME NEW p, NEW a, NEW b PROVE <<p, a>> \o <<b>> = <<p, a, b>>
<1> DEFINE S == {p, a, b}
           u == <<p, a>> \o <<b>>
           w == <<p, a, b>>
<1>1. /\ <<p, a>> \in Seq(S) /\ <<b>> \in Seq(S) /\ w \in Seq(S)
      /\ Len(w) = 3 /\ w[1] = p /\ w[2] = a /\ w[3] = b
  OBVIOUS
<1>2. u \in Seq(S) /\ Len(u) = 3 /\ u[1] = p /\ u[2] = a /\ u[3] = b
  BY <1>1
<1> HIDE DEF u, w, S
<1>3. u = w
  BY <1>1, <1>2, SeqEqual
<1>4. QED
  BY <1>3 DEF u, w

LEMMA NothingJoined ==
  ASSUME NEW p, NEW a
  PROVE  <<>> \o <<p>> = <<p>> /\ <<p>> \o <<>> = <<p>> /\ <<p, a>> \o <<>> = <<p, a>>
<1>1. <<>> \o <<p>> = <<p>>
  OBVIOUS
<1>2. <<p>> \o <<>> = <<p>>
  OBVIOUS
<1>3. <<p, a>> \o <<>> = <<p, a>>
  OBVIOUS
<1>4. QED
  BY <1>1, <1>2, <1>3

LEMMA OneOf == ASSUME NEW p PROVE DOMAIN <<p>> = 1 .. 1 /\ <<p>>[1] = p
OBVIOUS

LEMMA TwoOf ==
  ASSUME NEW p, NEW a PROVE DOMAIN <<p, a>> = 1 .. 2 /\ <<p, a>>[1] = p /\ <<p, a>>[2] = a
OBVIOUS

LEMMA ThreeOf ==
  ASSUME NEW p, NEW a, NEW b
  PROVE  /\ DOMAIN <<p, a, b>> = 1 .. 3
         /\ <<p, a, b>>[1] = p /\ <<p, a, b>>[2] = a /\ <<p, a, b>>[3] = b
OBVIOUS

LEMMA PictureTracks ==
  ASSUME NEW v, NEW x, NEW y, NEW sound \in BOOLEAN, NEW back \in BOOLEAN
  PROVE  GoodTracks(Sound!Track("video", v) \o Sound!When(sound, Sound!Track("audio", x))
                      \o Sound!When(back, Sound!Track("back", y)),
                    sound, BackAt(back, sound), x)
<1> DEFINE p == [kind |-> "video", sink |-> v]
           a == [kind |-> "audio", sink |-> x]
           b == [kind |-> "back", sink |-> y]
           ma == IF sound THEN <<a>> ELSE <<>>
           mb == IF back THEN <<b>> ELSE <<>>
           t == (<<p>> \o ma) \o mb
<1>1. t = Sound!Track("video", v) \o Sound!When(sound, Sound!Track("audio", x))
            \o Sound!When(back, Sound!Track("back", y))
  BY DEF Sound!Track, Sound!When
<1>2. p.kind = "video" /\ a.kind = "audio" /\ b.kind = "back" /\ a.sink = x
  OBVIOUS
<1>3. (sound => ma = <<a>>) /\ (~sound => ma = <<>>) /\ (back => mb = <<b>>) /\ (~back => mb = <<>>)
  OBVIOUS
<1> HIDE DEF p, a, b, ma, mb
<1>4. CASE sound /\ back
  <2>1. <<p>> \o ma = <<p, a>>
    BY <1>3, <1>4, TwoJoined
  <2>2. t = <<p, a, b>>
    BY <1>3, <1>4, <2>1, ThreeJoined
  <2> HIDE DEF t
  <2>3. DOMAIN t = 1 .. 3 /\ t[1] = p /\ t[2] = a /\ t[3] = b
    BY <2>2, ThreeOf
  <2>4. \A m \in DOMAIN t : m = 1 \/ m = 2 \/ m = 3
    BY <2>3
  <2>5. DOMAIN t \subseteq 1 .. 3
    BY <2>3
  <2>6. GoodTracks(t, sound, BackAt(back, sound), x)
    <3> DEFINE at == BackAt(back, sound)
    <3>1. at = 3
      BY <1>4 DEF BackAt
    <3> HIDE DEF at
    <3>2. \A m \in DOMAIN t : t[m].kind = "audio" => sound /\ t[m].sink = x
      BY <1>2, <1>4, <2>3, <2>4
    <3>3. \A m \in DOMAIN t : t[m].kind = "back" <=> m = at
      BY <1>2, <2>3, <2>4, <3>1
    <3>4. at # 0 => at \in DOMAIN t
      BY <2>3, <3>1
    <3>5. sound => \E m \in DOMAIN t : t[m].kind = "audio"
      BY <1>2, <1>4, <2>3
    <3>6. QED
      BY <2>5, <3>2, <3>3, <3>4, <3>5 DEF GoodTracks, at
  <2>7. QED
    BY <1>1, <2>6 DEF t
<1>5. CASE sound /\ ~back
  <2>1. <<p>> \o ma = <<p, a>>
    BY <1>3, <1>5, TwoJoined
  <2>2. t = <<p, a>>
    BY <1>3, <1>5, <2>1, NothingJoined
  <2> HIDE DEF t
  <2>3. DOMAIN t = 1 .. 2 /\ t[1] = p /\ t[2] = a
    BY <2>2, TwoOf
  <2>4. \A m \in DOMAIN t : m = 1 \/ m = 2
    BY <2>3
  <2>5. DOMAIN t \subseteq 1 .. 3
    BY <2>3
  <2>6. GoodTracks(t, sound, BackAt(back, sound), x)
    <3> DEFINE at == BackAt(back, sound)
    <3>1. at = 0
      BY <1>5 DEF BackAt
    <3> HIDE DEF at
    <3>2. \A m \in DOMAIN t : t[m].kind = "audio" => sound /\ t[m].sink = x
      BY <1>2, <1>5, <2>3, <2>4
    <3>3. \A m \in DOMAIN t : t[m].kind = "back" <=> m = at
      BY <1>2, <2>3, <2>4, <3>1
    <3>4. at # 0 => at \in DOMAIN t
      BY <2>3, <3>1
    <3>5. sound => \E m \in DOMAIN t : t[m].kind = "audio"
      BY <1>2, <1>5, <2>3
    <3>6. QED
      BY <2>5, <3>2, <3>3, <3>4, <3>5 DEF GoodTracks, at
  <2>7. QED
    BY <1>1, <2>6 DEF t
<1>6. CASE ~sound /\ back
  <2>1. <<p>> \o ma = <<p>>
    BY <1>3, <1>6, NothingJoined
  <2>2. t = <<p, b>>
    BY <1>3, <1>6, <2>1, TwoJoined
  <2> HIDE DEF t
  <2>3. DOMAIN t = 1 .. 2 /\ t[1] = p /\ t[2] = b
    BY <2>2, TwoOf
  <2>4. \A m \in DOMAIN t : m = 1 \/ m = 2
    BY <2>3
  <2>5. DOMAIN t \subseteq 1 .. 3
    BY <2>3
  <2>6. GoodTracks(t, sound, BackAt(back, sound), x)
    <3> DEFINE at == BackAt(back, sound)
    <3>1. at = 2
      BY <1>6 DEF BackAt
    <3> HIDE DEF at
    <3>2. \A m \in DOMAIN t : t[m].kind = "audio" => sound /\ t[m].sink = x
      BY <1>2, <1>6, <2>3, <2>4
    <3>3. \A m \in DOMAIN t : t[m].kind = "back" <=> m = at
      BY <1>2, <2>3, <2>4, <3>1
    <3>4. at # 0 => at \in DOMAIN t
      BY <2>3, <3>1
    <3>5. sound => \E m \in DOMAIN t : t[m].kind = "audio"
      BY <1>2, <1>6, <2>3
    <3>6. QED
      BY <2>5, <3>2, <3>3, <3>4, <3>5 DEF GoodTracks, at
  <2>7. QED
    BY <1>1, <2>6 DEF t
<1>7. CASE ~sound /\ ~back
  <2>1. <<p>> \o ma = <<p>>
    BY <1>3, <1>7, NothingJoined
  <2>2. t = <<p>>
    BY <1>3, <1>7, <2>1, NothingJoined
  <2> HIDE DEF t
  <2>3. DOMAIN t = 1 .. 1 /\ t[1] = p
    BY <2>2, OneOf
  <2>4. \A m \in DOMAIN t : m = 1
    BY <2>3
  <2>5. DOMAIN t \subseteq 1 .. 3
    BY <2>3
  <2>6. GoodTracks(t, sound, BackAt(back, sound), x)
    <3> DEFINE at == BackAt(back, sound)
    <3>1. at = 0
      BY <1>7 DEF BackAt
    <3> HIDE DEF at
    <3>2. \A m \in DOMAIN t : t[m].kind = "audio" => sound /\ t[m].sink = x
      BY <1>2, <1>7, <2>3, <2>4
    <3>3. \A m \in DOMAIN t : t[m].kind = "back" <=> m = at
      BY <1>2, <2>3, <2>4, <3>1
    <3>4. at # 0 => at \in DOMAIN t
      BY <2>3, <3>1
    <3>5. sound => \E m \in DOMAIN t : t[m].kind = "audio"
      BY <1>2, <1>7, <2>3
    <3>6. QED
      BY <2>5, <3>2, <3>3, <3>4, <3>5 DEF GoodTracks, at
  <2>7. QED
    BY <1>1, <2>6 DEF t
<1>8. QED
  BY <1>4, <1>5, <1>6, <1>7

LEMMA SoundTrack == ASSUME NEW x PROVE GoodTracks(Sound!Track("audio", x), TRUE, 0, x)
<1> DEFINE a == [kind |-> "audio", sink |-> x]
           t == <<a>>
<1>1. t = Sound!Track("audio", x) /\ DOMAIN t = 1 .. 1 /\ t[1] = a /\ a.kind = "audio" /\ a.sink = x
  BY DEF Sound!Track
<1> HIDE DEF t, a
<1>2. \A m \in DOMAIN t : m = 1
  BY <1>1
<1>3. GoodTracks(t, TRUE, 0, x)
  BY <1>1, <1>2 DEF GoodTracks
<1>4. QED
  BY <1>1, <1>3

(* The sessions: the back channel in the first of them.                    *)
LEMMA SessionTracks ==
  ASSUME NEW s, NEW f \in BOOLEAN, s["r"] \in {"low", "high", "both"}
  PROVE  /\ 1 \in DOMAIN Sound!Sessions(s, f)
         /\ \A i \in DOMAIN Sound!Sessions(s, f) :
              GoodTracks(Sound!Sessions(s, f)[i].tracks, Sound!Replicator(s, f) # "none",
                         IF i = 1 THEN BackAt(s["b"] # "none", Sound!Replicator(s, f) # "none")
                           ELSE 0,
                         Sound!Sink(s))
<1> DEFINE A == Sound!Replicator(s, f) # "none"
           B == s["b"] # "none"
           x == Sound!Sink(s)
           C == B /\ s["r"] = "low"
           y == s["b"]
           at == BackAt(B, A)
           high == Sound!Track("video", s["C"]) \o Sound!AudioTrack(s, f) \o Sound!BackTrack(s)
           low == Sound!Track("video", s["c"]) \o Sound!AudioTrack(s, f)
                    \o Sound!When(s["r"] = "low", Sound!BackTrack(s))
           e0 == [name |-> "ch0_0.h264", tracks |-> high]
           e1 == [name |-> "ch0_1.h264", tracks |-> low]
           e2 == [name |-> "ch0_2.h264", tracks |-> Sound!AudioTrack(s, f)]
           m0 == IF s["r"] \in {"high", "both"} THEN <<e0>> ELSE <<>>
           m1 == IF s["r"] \in {"low", "both"} THEN <<e1>> ELSE <<>>
           m2 == IF A THEN <<e2>> ELSE <<>>
           ss == (m0 \o m1) \o m2
<1>1. ss = Sound!Sessions(s, f)
  BY DEF Sound!Sessions, Sound!When
<1>2. A \in BOOLEAN /\ B \in BOOLEAN /\ C \in BOOLEAN
  OBVIOUS
<1>3. GoodTracks(high, A, at, x)
  <2>1. high = Sound!Track("video", s["C"]) \o Sound!When(A, Sound!Track("audio", x))
                 \o Sound!When(B, Sound!Track("back", y))
    BY DEF Sound!AudioTrack, Sound!BackTrack
  <2>2. QED
    BY <1>2, <2>1, PictureTracks
<1>4. GoodTracks(low, A, BackAt(C, A), x)
  <2>1. low = Sound!Track("video", s["c"]) \o Sound!When(A, Sound!Track("audio", x))
                \o Sound!When(C, Sound!Track("back", y))
    BY DEF Sound!AudioTrack, Sound!BackTrack, Sound!When
  <2> HIDE DEF A, C, x, y, low
  <2>2. QED
    BY <1>2, <2>1, PictureTracks
<1>5. BackAt(C, A) = IF s["r"] = "low" THEN at ELSE 0
  BY DEF BackAt
<1>6. A => GoodTracks(Sound!AudioTrack(s, f), A, 0, x)
  <2>1. A => Sound!AudioTrack(s, f) = Sound!Track("audio", x) /\ A = TRUE
    BY DEF Sound!AudioTrack, Sound!When
  <2>2. QED
    BY <2>1, SoundTrack
<1>7. e0.tracks = high /\ e1.tracks = low /\ e2.tracks = Sound!AudioTrack(s, f)
  OBVIOUS
<1> DEFINE At(i) == IF i = 1 THEN at ELSE 0
           Good(i) == GoodTracks(ss[i].tracks, A, At(i), x)
<1> SUFFICES 1 \in DOMAIN ss /\ \A i \in DOMAIN ss : Good(i)
  BY <1>1
<1> HIDE DEF high, low, e0, e1, e2, A, B, C, x, at, m0, m1, m2
<1>8. (A => m2 = <<e2>>) /\ (~A => m2 = <<>>) /\ At(1) = at /\ At(2) = 0 /\ At(3) = 0
  BY DEF m2
<1> HIDE DEF At
<1>9. CASE s["r"] = "high" /\ A
  <2>1. m0 = <<e0>> /\ m1 = <<>>
    BY <1>9 DEF m0, m1
  <2>2. m0 \o m1 = <<e0>>
    BY <2>1, NothingJoined
  <2>3. ss = <<e0, e2>>
    BY <1>8, <1>9, <2>2, TwoJoined
  <2> HIDE DEF ss
  <2>4. DOMAIN ss = 1 .. 2 /\ ss[1] = e0 /\ ss[2] = e2
    BY <2>3, TwoOf
  <2>5. Good(1)
    BY <1>2, <1>3, <1>7, <1>8, <1>9, <2>4
  <2>6. Good(2)
    BY <1>2, <1>6, <1>7, <1>8, <1>9, <2>4
  <2>7. QED
    BY <2>4, <2>5, <2>6
<1>10. CASE s["r"] = "high" /\ ~A
  <2>1. m0 = <<e0>> /\ m1 = <<>>
    BY <1>10 DEF m0, m1
  <2>2. m0 \o m1 = <<e0>>
    BY <2>1, NothingJoined
  <2>3. ss = <<e0>>
    BY <1>8, <1>10, <2>2, NothingJoined
  <2> HIDE DEF ss
  <2>4. DOMAIN ss = 1 .. 1 /\ ss[1] = e0
    BY <2>3, OneOf
  <2>5. Good(1)
    BY <1>2, <1>3, <1>7, <1>8, <1>10, <2>4
  <2>6. QED
    BY <2>4, <2>5
<1>11. CASE s["r"] = "low" /\ A
  <2>1. m0 = <<>> /\ m1 = <<e1>>
    BY <1>11 DEF m0, m1
  <2>2. m0 \o m1 = <<e1>>
    BY <2>1, NothingJoined
  <2>3. ss = <<e1, e2>>
    BY <1>8, <1>11, <2>2, TwoJoined
  <2> HIDE DEF ss
  <2>4. DOMAIN ss = 1 .. 2 /\ ss[1] = e1 /\ ss[2] = e2
    BY <2>3, TwoOf
  <2>5. Good(1)
    BY <1>2, <1>4, <1>5, <1>7, <1>8, <1>11, <2>4
  <2>6. Good(2)
    BY <1>2, <1>6, <1>7, <1>8, <1>11, <2>4
  <2>7. QED
    BY <2>4, <2>5, <2>6
<1>12. CASE s["r"] = "low" /\ ~A
  <2>1. m0 = <<>> /\ m1 = <<e1>>
    BY <1>12 DEF m0, m1
  <2>2. m0 \o m1 = <<e1>>
    BY <2>1, NothingJoined
  <2>3. ss = <<e1>>
    BY <1>8, <1>12, <2>2, NothingJoined
  <2> HIDE DEF ss
  <2>4. DOMAIN ss = 1 .. 1 /\ ss[1] = e1
    BY <2>3, OneOf
  <2>5. Good(1)
    BY <1>2, <1>4, <1>5, <1>7, <1>8, <1>12, <2>4
  <2>6. QED
    BY <2>4, <2>5
<1>13. CASE s["r"] = "both" /\ A
  <2>1. m0 = <<e0>> /\ m1 = <<e1>>
    BY <1>13 DEF m0, m1
  <2>2. m0 \o m1 = <<e0, e1>>
    BY <2>1, TwoJoined
  <2>3. ss = <<e0, e1, e2>>
    BY <1>8, <1>13, <2>2, ThreeJoined
  <2> HIDE DEF ss
  <2>4. DOMAIN ss = 1 .. 3 /\ ss[1] = e0 /\ ss[2] = e1 /\ ss[3] = e2
    BY <2>3, ThreeOf
  <2>5. Good(1)
    BY <1>2, <1>3, <1>7, <1>8, <1>13, <2>4
  <2>6. Good(2)
    BY <1>2, <1>4, <1>5, <1>7, <1>8, <1>13, <2>4
  <2>7. Good(3)
    BY <1>2, <1>6, <1>7, <1>8, <1>13, <2>4
  <2>8. QED
    BY <2>4, <2>5, <2>6, <2>7
<1>14. CASE s["r"] = "both" /\ ~A
  <2>1. m0 = <<e0>> /\ m1 = <<e1>>
    BY <1>14 DEF m0, m1
  <2>2. m0 \o m1 = <<e0, e1>>
    BY <2>1, TwoJoined
  <2>3. ss = <<e0, e1>>
    BY <1>8, <1>14, <2>2, NothingJoined
  <2> HIDE DEF ss
  <2>4. DOMAIN ss = 1 .. 2 /\ ss[1] = e0 /\ ss[2] = e1
    BY <2>3, TwoOf
  <2>5. Good(1)
    BY <1>2, <1>3, <1>7, <1>8, <1>14, <2>4
  <2>6. Good(2)
    BY <1>2, <1>4, <1>5, <1>7, <1>8, <1>14, <2>4
  <2>7. QED
    BY <2>4, <2>5, <2>6
<1>15. QED
  BY <1>9, <1>10, <1>11, <1>12, <1>13, <1>14

(* A track is described as what the source's frames hold.                  *)
LEMMA SinkCarries ==
  ASSUME NEW s, NEW f \in BOOLEAN, Sound!Replicator(s, f) # "none",
         s["a"] \in {"no", "yes", "alaw", "ulaw", "pcm", "aac"}
  PROVE  Sound!Carries(Sound!Sink(s).mime) = Sound!Replicator(s, f)
<1>1. f /\ s["a"] # "no"
  BY DEF Sound!Replicator
<1>2. CASE s["a"] = "aac"
  BY <1>1, <1>2 DEF Sound!Replicator, Sound!Sink, Sound!Carries
<1>3. CASE s["a"] = "alaw"
  BY <1>1, <1>3 DEF Sound!Replicator, Sound!Sink, Sound!Carries
<1>4. CASE s["a"] \in {"yes", "ulaw"}
  BY <1>1, <1>4 DEF Sound!Replicator, Sound!Sink, Sound!Carries
<1>5. CASE s["a"] = "pcm"
  BY <1>1, <1>5 DEF Sound!Replicator, Sound!Sink, Sound!Carries
<1>6. QED
  BY <1>1, <1>2, <1>3, <1>4, <1>5

LEMMA OptionsMatch ==
  ASSUME OptionsInv
  PROVE  /\ \A t \in Sound!OfKind(Sound!Sessions(settings, fifo), "audio") :
              Sound!Carries(Sound!Sessions(settings, fifo)[t[1]].tracks[t[2]].sink.mime)
                = Sound!Replicator(settings, fifo)
         /\ Sound!OfKind(Sound!Sessions(settings, fifo),
              "audio") # {} <=> Sound!Replicator(settings, fifo) # "none"
         /\ Cardinality(Sound!OfKind(Sound!Sessions(settings, fifo), "back"))
              = (IF settings["b"] # "none" THEN 1 ELSE 0)
<1> DEFINE A == Sound!Replicator(settings, fifo) # "none"
           B == settings["b"] # "none"
           x == Sound!Sink(settings)
           ss == Sound!Sessions(settings, fifo)
           at == BackAt(B, A)
<1>1. 1 \in DOMAIN ss
      /\ \A i \in DOMAIN ss : GoodTracks(ss[i].tracks, A, IF i = 1 THEN at ELSE 0, x)
  BY SessionTracks DEF OptionsInv
<1>2. A => Sound!Carries(x.mime) = Sound!Replicator(settings, fifo)
  BY SinkCarries DEF OptionsInv
<1> HIDE DEF x, ss, at
<1>3. \A t \in Sound!OfKind(ss, "audio") :
        Sound!Carries(ss[t[1]].tracks[t[2]].sink.mime) = Sound!Replicator(settings, fifo)
  <2>1. SUFFICES
          ASSUME NEW t \in Sound!OfKind(ss, "audio")
          PROVE  Sound!Carries(ss[t[1]].tracks[t[2]].sink.mime) = Sound!Replicator(settings, fifo)
    OBVIOUS
  <2>2. /\ t[1] \in DOMAIN ss /\ t[2] \in DOMAIN ss[t[1]].tracks
        /\ ss[t[1]].tracks[t[2]].kind = "audio"
    BY DEF Sound!OfKind
  <2>3. GoodTracks(ss[t[1]].tracks, A, IF t[1] = 1 THEN at ELSE 0, x)
    BY <1>1, <2>2
  <2>4. A /\ ss[t[1]].tracks[t[2]].sink = x
    BY <2>2, <2>3 DEF GoodTracks
  <2>5. QED
    BY <1>2, <2>4
<1>4. Sound!OfKind(ss, "audio") # {} <=> A
  <2>1. ASSUME NEW t \in Sound!OfKind(ss, "audio") PROVE A
    <3>1. /\ t[1] \in DOMAIN ss /\ t[2] \in DOMAIN ss[t[1]].tracks
          /\ ss[t[1]].tracks[t[2]].kind = "audio"
      BY DEF Sound!OfKind
    <3>2. GoodTracks(ss[t[1]].tracks, A, IF t[1] = 1 THEN at ELSE 0, x)
      BY <1>1, <3>1
    <3>3. QED
      BY <3>1, <3>2 DEF GoodTracks
  <2>2. ASSUME A PROVE Sound!OfKind(ss, "audio") # {}
    <3>1. GoodTracks(ss[1].tracks, A, at, x)
      BY <1>1
    <3>2. PICK m \in DOMAIN ss[1].tracks : ss[1].tracks[m].kind = "audio"
      BY <2>2, <3>1 DEF GoodTracks
    <3>3. m \in 1 .. 3
      BY <3>1 DEF GoodTracks
    <3>4. <<1, m>> \in Sound!OfKind(ss, "audio")
      BY <1>1, <3>2, <3>3 DEF Sound!OfKind
    <3>5. QED
      BY <3>4
  <2>3. QED
    BY <2>1, <2>2
<1>5. at \in {0, 2, 3} /\ (B <=> at # 0)
  BY DEF at, BackAt
<1>6. Sound!OfKind(ss, "back") = IF B THEN {<<1, at>>} ELSE {}
  <2>1. ASSUME NEW t \in Sound!OfKind(ss, "back") PROVE B /\ t = <<1, at>>
    <3>1. t \in (DOMAIN ss) \X (1 .. 3)
      BY DEF Sound!OfKind
    <3>2. t[1] \in DOMAIN ss /\ t = <<t[1], t[2]>>
      BY <3>1
    <3>3. t[2] \in DOMAIN ss[t[1]].tracks /\ ss[t[1]].tracks[t[2]].kind = "back" /\ t[2] \in 1 .. 3
      BY DEF Sound!OfKind
    <3>4. GoodTracks(ss[t[1]].tracks, A, IF t[1] = 1 THEN at ELSE 0, x)
      BY <1>1, <3>2
    <3>5. t[2] = IF t[1] = 1 THEN at ELSE 0
      BY <3>3, <3>4 DEF GoodTracks
    <3>6. t[1] = 1 /\ t[2] = at /\ at # 0
      BY <3>3, <3>5
    <3>7. t = <<1, at>>
      BY <3>2, <3>6
    <3>8. QED
      BY <1>5, <3>6, <3>7
  <2>2. ASSUME B PROVE <<1, at>> \in Sound!OfKind(ss, "back")
    <3>1. GoodTracks(ss[1].tracks, A, at, x)
      BY <1>1
    <3>2. at \in DOMAIN ss[1].tracks /\ at \in 1 .. 3
      BY <1>5, <2>2, <3>1 DEF GoodTracks
    <3>3. ss[1].tracks[at].kind = "back"
      BY <3>1, <3>2 DEF GoodTracks
    <3>4. QED
      BY <1>1, <3>2, <3>3 DEF Sound!OfKind
  <2> HIDE DEF A, B
  <2>3. CASE B
    <3>1. Sound!OfKind(ss, "back") = {<<1, at>>}
      BY <2>1, <2>2, <2>3
    <3>2. QED
      BY <2>3, <3>1
  <2>4. CASE ~B
    <3>1. Sound!OfKind(ss, "back") = {}
      BY <2>1, <2>4
    <3>2. QED
      BY <2>4, <3>1
  <2>5. QED
    BY <2>3, <2>4
<1>7. Cardinality(Sound!OfKind(ss, "back")) = IF B THEN 1 ELSE 0
  <2> HIDE DEF A, B
  <2>1. CASE B
    BY <1>6, <2>1, FS_Singleton
  <2>2. CASE ~B
    BY <1>6, <2>2, FS_EmptySet
  <2>3. QED
    BY <2>1, <2>2
<1>8. QED
  BY <1>3, <1>4, <1>7 DEF ss

-----------------------------------------------------------------------------
(* The run of both directions: one of them goes on at a time.              *)
LEMMA AudioOk == Sound!AudioConstants
BY SoundAssumption DEF SoundAssumption

LEMMA AudioSteps == [RtspNext]_bothVars => [Sound!Next]_Sound!vars
<1>1. UNCHANGED soundVars => UNCHANGED Sound!vars
  BY DEF soundVars, Sound!vars
<1>2. QED
  BY <1>1 DEF RtspNext, bothVars, Other

LEMMA AudioInvariance == RtspSpec => []AudioInv
<1>1. RtspInit => AudioInv
  BY AudioInitially, AudioOk DEF RtspInit
<1>2. AudioInv /\ [RtspNext]_bothVars => AudioInv'
  BY AudioSteps, AudioInductive, AudioOk
<1>3. QED
  BY <1>1, <1>2, PTL DEF RtspSpec

(* For any room in the reader's buffer, any size of the pipe and of the    *)
(* encoder's frames: a PCM frame is whole samples recorded after reading   *)
(* had started, and what the encoder made is sent once and in order.       *)
THEOREM SoundStaysIntact == RtspSpec => []SoundIntact
<1>1. AudioInv => SoundIntact
  BY DEF AudioInv, WavInv, AdtsInv, SoundIntact, Sound!WholeAndFresh, Sound!EncodedInOrder
<1>2. QED
  BY <1>1, AudioInvariance, PTL

(* Audio counts with its own copy of Cardinality.                          *)
LEMMA SameCount == ASSUME NEW S PROVE Sound!Cardinality(S) = Cardinality(S)
BY DEF Sound!Cardinality, Cardinality

(* For every choice of options, by argument or environment, and with or    *)
(* without the pipe: each session's sound is described as what is sent, it *)
(* is offered exactly if some is, and the back channel is offered once.    *)
THEOREM StreamsAlwaysMatch == RtspSpec => []StreamsMatch
<1>1. RtspInit => OptionsInv
  BY OptionsInitially DEF RtspInit
<1>2. OptionsInv /\ [RtspNext]_bothVars => OptionsInv'
  BY AudioSteps, OptionsStay DEF OptionsInv
<1>3. OptionsInv => StreamsMatch
  BY OptionsMatch, SameCount DEF StreamsMatch, Sound!StreamsMatch
<1>4. QED
  BY <1>1, <1>2, <1>3, PTL DEF RtspSpec

-----------------------------------------------------------------------------
(* A-law.  What a byte expands to, by its segment and step: the middle of  *)
(* what was companded to it.                                               *)
Level(e, k) == IF e = 0 THEN 16 * k + 8 ELSE (16 * k + 264) * 2 ^ (e - 1)

LEMMA Powers ==
  /\ 2 ^ 0 = 1 /\ 2 ^ 1 = 2 /\ 2 ^ 2 = 4 /\ 2 ^ 3 = 8 /\ 2 ^ 4 = 16 /\ 2 ^ 5 = 32 /\ 2 ^ 6 = 64 /\ 2 ^ 7 = 128
  /\ 2 ^ 8 = 256 /\ 2 ^ 9 = 512 /\ 2 ^ 10 = 1024 /\ 2 ^ 11 = 2048 /\ 2 ^ 12 = 4096 /\ 2 ^ 13 = 8192
  /\ 2 ^ 14 = 16384 /\ 2 ^ 15 = 32768
  BY SMT

(* The table, segment after segment.                                       *)
LEMMA TableExpands ==
  ASSUME NEW e \in 0 .. 7, NEW k \in 0 .. 15
  PROVE  Sound!alaw_decode[Sound!Flip(16 * e + k, 85) + 1] = Level(e, k)
<1>0. CASE e = 0 BY <1>0, Powers, SMTT(60) DEF Sound!alaw_decode, Sound!Flip, Sound!Bit, Level
<1>1. CASE e = 1 BY <1>1, Powers, SMTT(60) DEF Sound!alaw_decode, Sound!Flip, Sound!Bit, Level
<1>2. CASE e = 2 BY <1>2, Powers, SMTT(60) DEF Sound!alaw_decode, Sound!Flip, Sound!Bit, Level
<1>3. CASE e = 3 BY <1>3, Powers, SMTT(60) DEF Sound!alaw_decode, Sound!Flip, Sound!Bit, Level
<1>4. CASE e = 4 BY <1>4, Powers, SMTT(60) DEF Sound!alaw_decode, Sound!Flip, Sound!Bit, Level
<1>5. CASE e = 5 BY <1>5, Powers, SMTT(60) DEF Sound!alaw_decode, Sound!Flip, Sound!Bit, Level
<1>6. CASE e = 6 BY <1>6, Powers, SMTT(60) DEF Sound!alaw_decode, Sound!Flip, Sound!Bit, Level
<1>7. CASE e = 7 BY <1>7, Powers, SMTT(60) DEF Sound!alaw_decode, Sound!Flip, Sound!Bit, Level
<1>. QED BY <1>0, <1>1, <1>2, <1>3, <1>4, <1>5, <1>6, <1>7

(* The sign goes to the upper half of the table.                           *)
LEMMA FlippedCode ==
  ASSUME NEW c \in 0 .. 127
  PROVE  /\ Sound!Flip(c, 85) \in 0 .. 127
         /\ Sound!Flip(c, 213) = 128 + Sound!Flip(c, 85)
         /\ Sound!Flip(128 + c, 213) = Sound!Flip(c, 85)
  BY Powers, SMTT(60) DEF Sound!Flip, Sound!Bit

(* The segment and the step a magnitude is in.                             *)
LEMMA SegmentOf ==
  ASSUME NEW m \in Nat, 256 <= m, m <= 32767
  PROVE  /\ Sound!Exponent(m) \in 1 .. 7
         /\ 2 ^ (Sound!Exponent(m) + 7) <= m /\ m < 2 ^ (Sound!Exponent(m) + 8)
<1> DEFINE In(e) == 2 ^ (e + 7) <= m /\ m < 2 ^ (e + 8)
           Segments == 1 .. 7
           segment == CHOOSE e \in Segments : In(e)
<1>1. \E e \in Segments : In(e)
  <2>1. CASE m < 512 BY <2>1, Powers
  <2>2. CASE 512 <= m /\ m < 1024 BY <2>2, Powers
  <2>3. CASE 1024 <= m /\ m < 2048 BY <2>3, Powers
  <2>4. CASE 2048 <= m /\ m < 4096 BY <2>4, Powers
  <2>5. CASE 4096 <= m /\ m < 8192 BY <2>5, Powers
  <2>6. CASE 8192 <= m /\ m < 16384 BY <2>6, Powers
  <2>7. CASE 16384 <= m BY <2>7, Powers
  <2>. QED BY <2>1, <2>2, <2>3, <2>4, <2>5, <2>6, <2>7
<1>2. ~(m < 256) BY SMT
<1>3. Sound!Exponent(m) = segment BY <1>2 DEF Sound!Exponent
<1>4. segment \in Segments /\ In(segment)
  <2>. HIDE DEF In, Segments
  <2>1. \A S : (\E e \in S : In(e)) => (CHOOSE e \in S : In(e)) \in S /\ In(CHOOSE e \in S : In(e)) OBVIOUS
  <2>. QED BY <1>1, <2>1
<1>. HIDE DEF segment
<1>. QED BY <1>3, <1>4

LEMMA LevelNear ==
  ASSUME NEW m \in Nat, m <= 32767, NEW e, e = Sound!Exponent(m), NEW k, k = Sound!Mantissa(m, e)
  PROVE  /\ e \in 0 .. 7 /\ k \in 0 .. 15 /\ Level(e, k) \in Nat
         /\ 32 * (Level(e, k) - m) <= 256 + m /\ 32 * (m - Level(e, k)) <= 256 + m
<1>0. CASE m < 256
  <2>1. e = 0 BY <1>0 DEF Sound!Exponent
  <2>. QED BY <1>0, <2>1 DEF Sound!Mantissa, Level
<1>. SUFFICES ASSUME 256 <= m
              PROVE  /\ e \in 0 .. 7 /\ k \in 0 .. 15 /\ Level(e, k) \in Nat
                     /\ 32 * (Level(e, k) - m) <= 256 + m /\ 32 * (m - Level(e, k)) <= 256 + m
  BY <1>0, SMT
<1>8. e \in 1 .. 7 /\ 2 ^ (e + 7) <= m /\ m < 2 ^ (e + 8) BY SegmentOf
<1>1. CASE e = 1 BY <1>1, <1>8, Powers DEF Sound!Mantissa, Level
<1>2. CASE e = 2 BY <1>2, <1>8, Powers DEF Sound!Mantissa, Level
<1>3. CASE e = 3 BY <1>3, <1>8, Powers DEF Sound!Mantissa, Level
<1>4. CASE e = 4 BY <1>4, <1>8, Powers DEF Sound!Mantissa, Level
<1>5. CASE e = 5 BY <1>5, <1>8, Powers DEF Sound!Mantissa, Level
<1>6. CASE e = 6 BY <1>6, <1>8, Powers DEF Sound!Mantissa, Level
<1>7. CASE e = 7 BY <1>7, <1>8, Powers DEF Sound!Mantissa, Level
<1>. QED BY <1>1, <1>2, <1>3, <1>4, <1>5, <1>6, <1>7, <1>8

LEMMA SampleRange == ASSUME NEW s \in MCSamples PROVE s \in Int /\ -32768 <= s /\ s <= 32767
  BY SMTT(150) DEF MCSamples

LEMMA EverySampleReturns == Sound!CompandingOk
<1> SUFFICES ASSUME NEW s \in MCSamples
             PROVE  LET d == Sound!Linear(Sound!ALaw(s)) - s
                        m == IF s < 0 THEN -s ELSE s
                    IN 32 * d <= 256 + m /\ -32 * d <= 256 + m
  BY DEF Sound!CompandingOk
<1> DEFINE size == IF s < 0 THEN -s ELSE s
           m == Sound!Least(size, 32767)
           e == Sound!Exponent(m)
           k == Sound!Mantissa(m, e)
           c == 16 * e + k
           byte == Sound!Flip(c, 85)
           level == Sound!alaw_decode[byte + 1]
<1>1. s \in Int /\ size \in Nat /\ m \in Nat /\ m <= 32767 /\ (size # m => size = 32768 /\ m = 32767)
  <2>1. s \in Int /\ -32768 <= s /\ s <= 32767 BY SampleRange
  <2>2. size \in Nat /\ size <= 32768 BY <2>1, SMT
  <2>3. m = IF size < 32767 THEN size ELSE 32767 BY DEF Sound!Least
  <2>. HIDE DEF m, size
  <2>. QED BY <2>1, <2>2, <2>3, SMT
<1>2. Sound!ALaw(s) = Sound!Flip((IF s < 0 THEN 128 ELSE 0) + 16 * e + k, 213) BY DEF Sound!ALaw
<1>. HIDE DEF m, size, e, k
<1>3. /\ e \in 0 .. 7 /\ k \in 0 .. 15 /\ Level(e, k) \in Nat
      /\ 32 * (Level(e, k) - m) <= 256 + m /\ 32 * (m - Level(e, k)) <= 256 + m
  <2>1. e = Sound!Exponent(m) /\ k = Sound!Mantissa(m, e) BY DEF e, k
  <2>. QED BY <1>1, <2>1, LevelNear
<1>4. level = Level(e, k) BY <1>3, TableExpands
<1>5. c \in 0 .. 127 /\ (IF s < 0 THEN 128 ELSE 0) + 16 * e + k = (IF s < 0 THEN 128 + c ELSE c) BY <1>3
<1>. HIDE DEF c
<1>6. byte \in 0 .. 127 /\ Sound!ALaw(s) = (IF s < 0 THEN byte ELSE 128 + byte) BY <1>2, <1>5, FlippedCode
<1>. HIDE DEF byte
<1>7. Sound!Linear(Sound!ALaw(s)) = (IF s < 0 THEN -level ELSE level)
  <2>1. byte + 128 - 127 = byte + 1 /\ 128 + byte - 127 = byte + 1 BY <1>6
  <2>. QED BY <1>6, <2>1 DEF Sound!Linear
<1>. HIDE DEF level
<1>8. 32 * (level - size) <= 256 + size /\ 32 * (size - level) <= 256 + size BY <1>1, <1>3, <1>4
<1>9. CASE s < 0
  <2>1. size = -s BY <1>9 DEF size
  <2>. QED BY <1>1, <1>3, <1>4, <1>7, <1>8, <1>9, <2>1
<1>10. CASE ~(s < 0)
  <2>1. size = s BY <1>10 DEF size
  <2>. QED BY <1>1, <1>3, <1>4, <1>7, <1>8, <1>10, <2>1
<1>. QED BY <1>9, <1>10

(* Where A-law is sent or received, every sample comes back within the     *)
(* step of its segment: the table written by hand inverts the companding   *)
(* (aLawAudioFilter.cpp 73-94, 179-212).                                   *)
THEOREM ALawAlwaysInverted == RtspSpec => []ALawInverted
<1>1. ALawInverted BY EverySampleReturns DEF ALawInverted, Companding
<1>. QED BY <1>1, PTL
=============================================================================
