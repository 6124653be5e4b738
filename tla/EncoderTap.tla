----------------------------- MODULE EncoderTap -----------------------------
(***************************************************************************)
(* h264grabber: copies each frame of a hardware encoder to a FIFO or to    *)
(* stdout.  The encoder has one output buffer and publishes a timestamp    *)
(* and a length in /proc; nothing tells the program when the buffer        *)
(* changes, so it polls the timestamp, reads the length, once, copies that *)
(* many bytes, and copies again until two copies agree on 64 samples.      *)
(* Frames are numbered modulo Cycle, as the 32-bit timestamps wrap, and a  *)
(* frame occupies the first pieces of the buffer, which memcpy reads in    *)
(* order; what is behind it is left of an older one.                       *)
(***************************************************************************)
EXTENDS Integers, Sequences

CONSTANTS
  Cycle,      \* frame numbers (and timestamps) are 0 .. Cycle - 1
  Chunks,     \* pieces of the buffer
  Span,       \* Span[k]: the pieces of frame k, that is, its length
  Compared,   \* Compared[n]: of n pieces, those a sampled byte of which tells frames apart
  Content,    \* Content[k]: what frame k starts with
  LagMax,     \* bound: frames the encoder may be ahead of the last one read
  LostGap,    \* frames ahead that mean "sync lost": more than 125 ms
  Option,     \* command lines: records of the switches ssf0 and noti
  None

Frame == 0 .. Cycle - 1
Starts == {"sps 1080", "sps 360", "sps", "vps", "sei 02", "sei 2c", "slice"}
Piece == 1 .. Chunks
Length == 0             \* the other two parts of an update: length, timestamp
Stamp == Chunks + 1
Part == Piece \cup {Length, Stamp}

(* What is written: of one frame, with the frame of each piece.            *)
Sent == {"all", "ti", "pps", "idr", "rest", "sps pps", "after sei"}
Output == [frame : Frame, of : [Piece -> Frame], len : Frame, late : BOOLEAN,
           start : BOOLEAN, parts : Seq(Sent)]

TapConstants ==
  /\ Cycle \in Nat /\ Chunks \in Nat \ {0} /\ LagMax \in Nat
  /\ LostGap \in 1 .. LagMax /\ LagMax + 1 < Cycle
  /\ Content \in [Frame -> Starts]
  /\ Option \subseteq [ssf0 : BOOLEAN, noti : BOOLEAN]
  /\ Span \in [Frame -> Piece] /\ Compared \in [Piece -> SUBSET Piece]
  /\ \A n \in Piece : Compared[n] \subseteq 1 .. n
  /\ None \notin Frame /\ None \notin Output

VARIABLES
  buf,      \* the encoder's buffer: the frame each piece belongs to
  len,      \* OBUF_nFilledLen: the frame whose length it is
  stamp,    \* OBUF_nTimeStamp
  storing,  \* what the encoder has still to store for its newest frame
  newest,   \* its newest frame
  opt,      \* ssf0 and noti
  pc,       \* where the program is
  phase,    \* "start" until a key frame was written, then "stream"
  old, time, got, copied, before,  \* oldTime, time, len (as a frame), buffer, check1
  at,       \* pieces copied so far
  out       \* history: the last frame written

encoder == <<buf, len, stamp, storing, newest>>
locals == <<old, time, got, copied, before, at>>
vars == <<buf, len, stamp, storing, newest, opt, pc, phase, old, time, got, copied,
          before, at, out>>

-----------------------------------------------------------------------------
(* Time differences are unsigned 32-bit. *)
Ahead(a, b) == (a - b + Cycle) % Cycle

(* The encoder: the parts of a new frame appear in any order.  At most one *)
(* frame comes up while the program copies: 50 ms against a few.           *)
NewFrame ==
  /\ storing = {}
  /\ pc \in {"nap", "copy"} => newest = time
  /\ Ahead(newest, old) < LagMax
  /\ newest' = (newest + 1) % Cycle
  /\ storing' = 1 .. Span[newest'] \cup {Length, Stamp}
  /\ UNCHANGED <<buf, len, stamp>>

StorePart(x) ==
  /\ x \in storing /\ storing' = storing \ {x}
  /\ buf' = IF x \in Piece THEN [buf EXCEPT ![x] = newest] ELSE buf
  /\ len' = IF x = Length THEN newest ELSE len
  /\ stamp' = IF x = Stamp THEN newest ELSE stamp
  /\ UNCHANGED newest

Encoder ==
  /\ NewFrame \/ \E x \in Part : StorePart(x)
  /\ UNCHANGED <<opt, pc, phase, locals, out>>

(* The program relies on a millisecond being enough for one update.        *)
Settled == storing = {}

-----------------------------------------------------------------------------
(* The program. *)

(* Opening the FIFO waits for a client. *)
OpenOutput ==
  /\ pc = "open" /\ pc' = "first"
  /\ UNCHANGED <<encoder, opt, phase, locals, out>>

(* The outer loop: also after the sync was lost. *)
FirstStamp ==
  /\ pc = "first"
  /\ old' = stamp /\ phase' = "start" /\ pc' = "poll"
  /\ UNCHANGED <<encoder, opt, time, got, copied, before, at, out>>

PollSigned ==
  /\ pc = "poll" /\ stamp # old
  /\ IF phase = "stream" /\ stamp - old >= LostGap
     THEN pc' = "first" /\ UNCHANGED time
     ELSE pc' = "nap" /\ time' = stamp
  /\ UNCHANGED <<encoder, opt, phase, old, got, copied, before, at, out>>
Poll ==
  /\ pc = "poll" /\ stamp # old
  /\ IF phase = "stream" /\ Ahead(stamp, old) >= LostGap
     THEN pc' = "first" /\ UNCHANGED time
     ELSE pc' = "nap" /\ time' = stamp
  /\ UNCHANGED <<encoder, opt, phase, old, got, copied, before, at, out>>

(* A piece that is not among the compared ones looks like any other frame's,*)
(* and like the zeros check1 begins with; of less than 64 bytes only the   *)
(* first is sampled, which is the zero of the start code.                  *)
Zeros(n) == [p \in Compared[n] |-> None]
fillCheck(buffer, n) == [p \in Compared[n] |-> buffer[p]]

(* usleep(1000), then the length: every copy and the write go by it.       *)
ReadLen ==
  /\ pc = "nap" /\ Settled
  /\ got' = len /\ at' = 0 /\ pc' = "copy" /\ before' = Zeros(Span[len])
  /\ UNCHANGED <<encoder, opt, phase, old, time, copied, out>>

Filled == pc = "copy" /\ at = Span[got]
check2 == fillCheck(copied, Span[got])

CopyPiece ==
  /\ pc = "copy" /\ at < Span[got]
  /\ at' = at + 1
  /\ copied' = [copied EXCEPT ![at + 1] = buf[at + 1]]
  /\ UNCHANGED <<encoder, opt, pc, phase, old, time, got, before, out>>

IsKey(c) == Content[c] \in {"sps 1080", "sps 360", "sps", "vps"}

(* What is written of a frame that starts with c, by the switches: the     *)
(* parts of a key frame, SPS timing information (ti) in place of the SPS.  *)
Whole == <<"all">>
Retimed(o, c, start) ==
  CASE c \in {"sps 1080", "sps 360"} -> IF o.ssf0 THEN <<"ti", "pps", "idr">> ELSE <<"ti", "rest">>
    [] c = "sps" /\ o.ssf0 /\ ~start -> <<>>
    [] OTHER -> Whole
Written(o, c, start) ==
  CASE ~o.noti /\ c \in {"sps 1080", "sps 360", "sps"} -> Retimed(o, c, start)
    [] o.ssf0 /\ o.noti /\ c \in {"sps 1080", "sps 360", "sps"} -> <<"sps pps", "idr">>
    [] o.ssf0 /\ ~start /\ c \in {"sei 02", "sei 2c"} -> <<"after sei">>
    [] OTHER -> Whole

(* The copy is not looked at again. *)
Forget == got' = 0 /\ copied' = [p \in Piece |-> 0] /\ before' = None /\ at' = 0

Emit ==
  /\ out' = [frame |-> copied[1], of |-> copied, len |-> got, start |-> phase = "start",
             late |-> newest # got,
             parts |-> Written(opt, Content[copied[1]], phase = "start")]
  /\ old' = time /\ pc' = "poll" /\ Forget

(* Until a key frame comes, one copy is enough; only a key frame is sent.  *)
StartStream ==
  /\ Filled /\ phase = "start"
  /\ IF IsKey(copied[1])
     THEN Emit /\ phase' = "stream"
     ELSE old' = time /\ pc' = "poll" /\ Forget /\ UNCHANGED <<phase, out>>
  /\ UNCHANGED <<encoder, opt, time>>

(* The second loop: usleep(1000) and another copy until two agree.         *)
CopyAgain ==
  /\ Filled /\ phase = "stream"
  /\ before # check2 /\ Settled
  /\ before' = check2 /\ at' = 0
  /\ UNCHANGED <<encoder, opt, pc, phase, old, time, got, copied, out>>

WriteOnce ==
  /\ Filled /\ phase = "stream"
  /\ Emit
  /\ UNCHANGED <<encoder, opt, phase, time>>
WriteFrame ==
  /\ Filled /\ phase = "stream"
  /\ before = check2
  /\ Emit
  /\ UNCHANGED <<encoder, opt, phase, time>>

Init ==
  /\ buf = [p \in Piece |-> 0] /\ len = 0 /\ stamp = 0 /\ storing = {} /\ newest = 0
  /\ opt \in Option
  /\ pc = "open" /\ phase = "start"
  /\ old = 0 /\ time = 0 /\ got = 0 /\ copied = [p \in Piece |-> 0] /\ before = None /\ at = 0
  /\ out = None

Next ==
  \/ Encoder \/ OpenOutput \/ FirstStamp \/ Poll \/ ReadLen \/ CopyPiece
  \/ StartStream \/ CopyAgain \/ WriteFrame
Spec == Init /\ [][Next]_vars

-----------------------------------------------------------------------------
(* Properties *)

(* After the first frame of a stream, a frame during whose copying no other*)
(* came up is written whole and with its own length, whatever the encoder  *)
(* had left in the buffer.  If one came up (late), the length read before  *)
(* (line 507) still rules the copies and the write: what is written is of  *)
(* the first frame wherever it was compared (515-523), or it is the second *)
(* one, cut to the length of the first or followed by the first's tail; it *)
(* never mixes two frames that the samples tell apart.  A key frame comes  *)
(* with its IDR picture, for all switches but one combination: with ssf0   *)
(* and without noti a key frame whose SPS is of another size than the two  *)
(* known is left out.                                                      *)
Following(f) == (f + 1) % Cycle
WholeFrames ==
  out # None /\ ~out.start =>
    LET n == Span[out.len]
        next == Following(out.len)
    IN /\ ~out.late => \A p \in 1 .. n : out.of[p] = out.len
       /\ \/ \A p \in Compared[n] : out.of[p] = out.len
          \/ \A p \in 1 .. n : out.of[p] = IF p <= Span[next] THEN next ELSE out.len
       /\ IsKey(out.frame) /\ ~(opt.ssf0 /\ ~opt.noti)
            => \E i \in DOMAIN out.parts : out.parts[i] \in {"all", "idr", "rest"}

(* A stream starts with a key frame, and a gap in it is closed by one: the *)
(* frames a decoder gets are never further apart than the code calls in    *)
(* sync.                                                                   *)
KeyAfterGap ==
  [][out' # out =>
       IF out = None \/ out'.start THEN IsKey(out'.frame)
       ELSE Ahead(out'.frame, out.frame) <= LostGap]_out
=============================================================================
