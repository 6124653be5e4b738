---------------------------- MODULE Backchannel ----------------------------
(***************************************************************************)
(* The camera has one speaker: a FIFO that rmm reads.  rRTSPServer writes  *)
(* into it for the RTSP client that has set up the backchannel, and the    *)
(* `speaker' helper for a web page (play) or for go2rtc (stream).  A       *)
(* record lock on /tmp/yi-speaker.lock, which belongs to a PROCESS and     *)
(* goes with any descriptor of the file the process closes, and inside     *)
(* rRTSPServer the flag yiSpeakerBusy, decide who may.                     *)
(*                                                                         *)
(* rRTSPServer is one event loop: a handler is not interrupted by another  *)
(* handler, but its system calls interleave with those of the helpers.     *)
(* DESCRIBE uses a preview sink on /dev/null without the lock and changes  *)
(* nothing here.  `missed' is a history variable.                          *)
(***************************************************************************)
EXTENDS Integers, FiniteSets

CONSTANTS
  Client,   (* RTSP sessions                                               *)
  Player,   (* processes of the speaker helper                             *)
  Stream,   (* those that read a stream; the others play a file            *)
  Blocks,   (* bound on the blocks of a file                               *)
  Server,   (* the process rRTSPServer                                     *)
  None

ASSUME SpeakerConstants ==
  /\ Stream \subseteq Player /\ Blocks \in Nat
  /\ Server \notin Player /\ None \notin Client \cup Player \cup {Server}

VARIABLES
  owner,      (* the process that holds the record lock, or None           *)
  reader,     (* rmm has the FIFO open                                     *)
  up,         (* rRTSPServer runs                                          *)
  busy,       (* yiSpeakerBusy                                             *)
  handler,    (* the SETUP in progress: at "lock" or "open", for a client  *)
  token,      (* a session's StreamState: a sink that is idle or playing,  *)
              (* or spent, when it has been reclaimed                      *)
  conn,       (* sessions whose client is there                            *)
  pc,         (* where a helper is                                         *)
  remaining,  (* blocks a helper still has to play; of a stream unknown    *)
  stopped,    (* helpers whose signal handler has run                      *)
  target,     (* the helper `speaker stop' has found, or None              *)
  missed      (* streams whose SIGTERM came between the test of `stopped'  *)
              (* and the read                                              *)

server == <<up, busy, handler, token>>
helpers == <<pc, remaining, stopped, missed>>
vars == <<owner, reader, server, conn, helpers, target>>

Idle == [at |-> "loop", for |-> None]
Sink(c) == token[c] \in {"idle", "playing"}

-----------------------------------------------------------------------------
(* fcntl(F_SETLK) and close on the lock file, by process q *)

Lockable(q) == owner \in {None, q}
Unlocked(q) == IF owner = q THEN None ELSE owner

-----------------------------------------------------------------------------
(* rRTSPServer *)

(* The destructor of a sink: ::close(fSpeakerLockFd); yiSpeakerBusy = 0.   *)
CloseSinkStaysBusy == owner' = Unlocked(Server) /\ UNCHANGED busy
CloseSink == owner' = Unlocked(Server) /\ busy' = 0

(* reclaim, by the end of a stream or the destructor of its StreamState:   *)
(* the sink, if there still is one, is closed.                             *)
Reclaim(c) == IF Sink(c) THEN CloseSink ELSE UNCHANGED <<owner, busy>>

Handling == up /\ handler = Idle

(* live555 deletes the stream of an earlier SETUP of the track first.      *)
SETUP(c) ==
  /\ Handling /\ c \in conn
  /\ Reclaim(c)
  /\ token' = [token EXCEPT ![c] = "none"]
  /\ handler' = [at |-> "lock", for |-> c]
  /\ UNCHANGED <<reader, up, conn, helpers, target>>

(* The process's own record never refuses it: without the flag a second    *)
(* session would lock what the first one has.                              *)
FlagIgnored == TRUE
FlagClear == busy = 0

(* No sink, no token: the client gets 503. *)
acquireSpeakerLock ==
  /\ handler.at = "lock"
  /\ \/ /\ ~FlagClear
        /\ handler' = Idle /\ UNCHANGED <<owner, busy>>
     \/ /\ FlagClear /\ ~Lockable(Server)
        /\ owner' = Unlocked(Server) /\ handler' = Idle /\ UNCHANGED busy
     \/ /\ FlagClear /\ Lockable(Server)
        /\ owner' = Server /\ busy' = 1
        /\ handler' = [at |-> "open", for |-> handler.for]
  /\ UNCHANGED <<reader, up, token, conn, helpers, target>>

(* open(O_WRONLY) without O_NONBLOCK waits for a reader. *)
OpenFailsBlocking == FALSE
(* A FIFO without a reader, or no FIFO. *)
OpenFails == ~reader

(* The rest of createNew: without a FIFO, or without an AAC decoder, the   *)
(* lock is given back.                                                     *)
createNew ==
  /\ handler.at = "open"
  /\ handler' = Idle
  /\ \/ /\ reader
        /\ token' = [token EXCEPT ![handler.for] = "idle"]
        /\ UNCHANGED <<owner, busy>>
     \/ (reader \/ OpenFails) /\ CloseSink /\ UNCHANGED token
  /\ UNCHANGED <<reader, up, conn, helpers, target>>

(* startPlaying; a spent stream has no sink to start. *)
PLAY(c) ==
  /\ Handling /\ c \in conn /\ token[c] = "idle"
  /\ token' = [token EXCEPT ![c] = "playing"]
  /\ UNCHANGED <<owner, reader, up, busy, handler, conn, helpers, target>>

PAUSE(c) ==
  /\ Handling /\ c \in conn /\ token[c] = "playing"
  /\ token' = [token EXCEPT ![c] = "idle"]
  /\ UNCHANGED <<owner, reader, up, busy, handler, conn, helpers, target>>

(* afterGettingFrame: a write without a reader closes the output, which    *)
(* ends the stream as the end of its source would.  Other writes, partial  *)
(* or dropped (EAGAIN) ones among them, change nothing.                    *)
OutputClosed(c) ==
  /\ Handling /\ token[c] = "playing" /\ ~reader
  /\ Reclaim(c)
  /\ token' = [token EXCEPT ![c] = "spent"]
  /\ UNCHANGED <<reader, up, handler, conn, helpers, target>>

deleteStream(c) ==
  /\ Reclaim(c)
  /\ token' = [token EXCEPT ![c] = "none"]
  /\ UNCHANGED <<reader, up, handler, helpers, target>>

TEARDOWN(c) ==
  /\ Handling /\ c \in conn /\ token[c] # "none"
  /\ deleteStream(c) /\ UNCHANGED conn

(* live555 sees the connection closed, or hears nothing from the client    *)
(* for too long.                                                           *)
Notice(c) ==
  /\ Handling /\ c \notin conn /\ token[c] # "none"
  /\ deleteStream(c) /\ UNCHANGED conn

(* rRTSPServer is killed, or ended by service.sh; the kernel drops what it *)
(* held.                                                                   *)
ServerDies ==
  /\ up /\ up' = FALSE
  /\ busy' = 0 /\ handler' = Idle
  /\ token' = [c \in Client |-> "none"] /\ conn' = {}
  /\ owner' = Unlocked(Server)
  /\ UNCHANGED <<reader, helpers, target>>

ServerStarts ==
  /\ ~up /\ up' = TRUE
  /\ UNCHANGED <<owner, reader, busy, handler, token, conn, helpers, target>>

(* The test of handler.for keeps a SETUP in progress its client. *)
Connect(c) ==
  /\ up /\ c \notin conn /\ token[c] = "none" /\ handler.for # c
  /\ conn' = conn \cup {c}
  /\ UNCHANGED <<owner, reader, server, helpers, target>>

Leave(c) ==
  /\ c \in conn /\ conn' = conn \ {c}
  /\ UNCHANGED <<owner, reader, server, helpers, target>>

(* rmm opens and closes the FIFO. *)
rmm ==
  /\ reader' = ~reader
  /\ UNCHANGED <<owner, server, conn, helpers, target>>

-----------------------------------------------------------------------------
(* speaker.c *)

Only(p, l) == pc' = [pc EXCEPT ![p] = l]
Goto(p, l) == Only(p, l) /\ UNCHANGED <<remaining, stopped, missed>>

(* main up to lock_speaker.  `speaker stop' does not meet a new process    *)
(* with the number it has read.                                            *)
Launch(p) ==
  /\ pc[p] = "gone" /\ target # p
  /\ Only(p, "lock")
  /\ \E n \in 0..Blocks : remaining' = [remaining EXCEPT ![p] = n]
  /\ stopped' = stopped \ {p} /\ missed' = missed \ {p}
  /\ UNCHANGED <<owner, reader, server, conn, target>>

lock_speaker(p) ==
  /\ pc[p] = "lock"
  /\ \/ ~Lockable(p) /\ Goto(p, "gone") /\ UNCHANGED owner
     \/ Lockable(p) /\ owner' = p /\ Goto(p, "open")
  /\ UNCHANGED <<reader, server, conn, target>>

open_fifo(p) ==
  /\ pc[p] = "open"
  /\ Goto(p, IF reader THEN "while" ELSE "unlock")
  /\ UNCHANGED <<owner, reader, server, conn, target>>

DoneUncounted(p) == p \in stopped
(* while (!stopped && remaining!=0) *)
Done(p) == p \in stopped \/ (p \notin Stream /\ remaining[p] = 0)

while(p) ==
  /\ pc[p] = "while"
  /\ Goto(p, IF Done(p) THEN "close" ELSE "fread")
  /\ UNCHANGED <<owner, reader, server, conn, target>>

(* fread: a file is read at once, or cannot be read any more (the SD card  *)
(* is gone); a stream may have to wait.                                    *)
fread(p) ==
  /\ pc[p] = "fread"
  /\ \/ p \in Stream /\ Goto(p, "waiting")
     \/ p \notin Stream /\ Goto(p, "close")
     \/ /\ p \notin Stream /\ Only(p, "write_pcm")
        /\ remaining' = [remaining EXCEPT ![p] = @ - 1]
        /\ UNCHANGED <<stopped, missed>>
  /\ UNCHANGED <<owner, reader, server, conn, target>>

(* Input, or the end of it. *)
Input(p) ==
  /\ pc[p] = "waiting"
  /\ \E l \in {"write_pcm", "close"} : Goto(p, l)
  /\ UNCHANGED <<owner, reader, server, conn, target>>

(* write_pcm: a stop, the loss of the reader, or two seconds of a full     *)
(* FIFO end it.                                                            *)
write_pcm(p) ==
  /\ pc[p] = "write_pcm"
  /\ \/ p \notin stopped /\ reader /\ Goto(p, "while")
     \/ Goto(p, "close")
  /\ UNCHANGED <<owner, reader, server, conn, target>>

(* done: close(fd), then close(lock). *)
close_fifo(p) ==
  /\ pc[p] = "close" /\ Goto(p, "unlock")
  /\ UNCHANGED <<owner, reader, server, conn, target>>

close_lock(p) ==
  /\ pc[p] = "unlock" /\ Goto(p, "gone")
  /\ owner' = Unlocked(p)
  /\ UNCHANGED <<reader, server, conn, target>>

InterruptedRestart(p) == FALSE
(* sigaction without SA_RESTART: a read that waits fails with EINTR. *)
Interrupted(p) == pc[p] = "waiting"

(* kill(pid, SIGTERM), once the handler is installed. *)
Terminate(p) ==
  /\ stopped' = stopped \cup {p}
  /\ missed' = IF pc[p] = "fread" /\ p \in Stream THEN missed \cup {p} ELSE missed
  /\ pc' = [pc EXCEPT ![p] = IF Interrupted(p) THEN "close" ELSE @]
  /\ UNCHANGED remaining

(* go2rtc ends its stream with SIGTERM. *)
killsignal(p) ==
  /\ p \in Stream /\ pc[p] # "gone" /\ p \notin stopped
  /\ Terminate(p)
  /\ UNCHANGED <<owner, reader, server, conn, target>>

(* killtimeout of go2rtc, or the OOM killer. *)
Kill(p) ==
  /\ pc[p] # "gone" /\ Goto(p, "gone")
  /\ owner' = Unlocked(p)
  /\ UNCHANGED <<reader, server, conn, target>>

(* cancel_speaker: F_GETLK names the process, and only one that is called  *)
(* speaker is signalled.                                                   *)
cancel_speaker ==
  /\ target = None /\ owner \in Player
  /\ target' = owner
  /\ UNCHANGED <<owner, reader, server, conn, helpers>>

cancel_signal ==
  /\ target # None /\ target' = None
  /\ \/ pc[target] # "gone" /\ Terminate(target)
     \/ pc[target] = "gone" /\ UNCHANGED helpers
  /\ UNCHANGED <<owner, reader, server, conn>>

-----------------------------------------------------------------------------
Init ==
  /\ owner = None /\ reader \in BOOLEAN
  /\ up = TRUE /\ busy = 0 /\ handler = Idle
  /\ token = [c \in Client |-> "none"] /\ conn = {}
  /\ pc = [p \in Player |-> "gone"]
  /\ remaining = [p \in Player |-> 0]
  /\ stopped = {} /\ missed = {} /\ target = None

rRTSPServer == acquireSpeakerLock \/ createNew

Request(c) ==
  SETUP(c) \/ PLAY(c) \/ PAUSE(c) \/ OutputClosed(c) \/ TEARDOWN(c) \/ Connect(c) \/ Leave(c)

speaker(p) ==
  \/ lock_speaker(p) \/ open_fifo(p) \/ while(p) \/ fread(p) \/ write_pcm(p)
  \/ close_fifo(p) \/ close_lock(p)

Next ==
  \/ rRTSPServer \/ ServerDies \/ ServerStarts \/ rmm
  \/ \E c \in Client : Request(c) \/ Notice(c)
  \/ \E p \in Player : Launch(p) \/ speaker(p) \/ Input(p) \/ killsignal(p) \/ Kill(p)
  \/ cancel_speaker \/ cancel_signal

(* Every process runs on, and live555 comes to each socket and timer       *)
(* between whatever other requests there are, so that a lost client is     *)
(* noticed.  Clients, go2rtc and the input of a stream owe nothing.        *)
Fairness ==
  /\ WF_vars(rRTSPServer)
  /\ \A c \in Client : SF_vars(Notice(c))
  /\ \A p \in Player : WF_vars(speaker(p))
  /\ WF_vars(cancel_signal)

Spec == Init /\ [][Next]_vars /\ Fairness

-----------------------------------------------------------------------------
(* Every variable has its type; a file is not read past its end. *)
TypeOK ==
  /\ owner \in Player \cup {Server, None}
  /\ reader \in BOOLEAN /\ up \in BOOLEAN /\ busy \in {0, 1}
  /\ handler \in {Idle} \cup [at : {"lock", "open"}, for : Client]
  /\ token \in [Client -> {"none", "idle", "playing", "spent"}]
  /\ conn \subseteq Client
  /\ pc \in [Player -> {"gone", "lock", "open", "while", "fread", "waiting",
                        "write_pcm", "close", "unlock"}]
  /\ remaining \in [Player -> 0..Blocks]
  /\ stopped \subseteq Player /\ missed \subseteq Stream
  /\ target \in Player \cup {None}

(* The helpers that have the FIFO open for writing. *)
Writing(p) == pc[p] \in {"while", "fread", "waiting", "write_pcm", "close"}

(* Whoever has the FIFO open for audio holds the lock, and inside          *)
(* rRTSPServer, whose lock is the process's and not the session's, only    *)
(* one session has it: no two voices ever mix.                             *)
OneVoice ==
  /\ \A c \in Client : Sink(c) => owner = Server
  /\ \A p \in Player : Writing(p) => owner = p
  /\ \A c, d \in Client : Sink(c) /\ Sink(d) => c = d

(* yiSpeakerBusy, the kernel's record and the sinks say the same: after    *)
(* any failed SETUP, end of stream, second SETUP, TEARDOWN or loss the     *)
(* flag does not outlive the lock, nor the lock its sink.                  *)
BusyIsLock ==
  /\ busy = 1 <=> owner = Server
  /\ busy = 1 <=> handler.at = "open" \/ \E c \in Client : Sink(c)

(* `speaker stop' and go2rtc's SIGTERM end the playback: all but the one   *)
(* that comes between the test of `stopped' and the read of a stream,      *)
(* which takes effect with the next input only.                            *)
StopEndsPlayback ==
  \A p \in Player : p \in stopped ~> pc[p] = "gone" \/ p \in missed

(* Nobody keeps the speaker but a client that is there and a stream that   *)
(* waits for its input: whatever fails, is lost or is killed, the lock     *)
(* comes free again, and the event loop never waits for rmm.               *)
FreedWhenUnused ==
  []<>(\/ owner = None
       \/ \E c \in conn : Sink(c)
       \/ \E p \in Player : owner = p /\ pc[p] = "waiting")
=============================================================================
