---------------------------- MODULE GrabberRing ----------------------------
(***************************************************************************)
(* h264grabber2: copies the frames the camera program writes into a ring   *)
(* in shared memory to stdout or to FIFOs.  Nothing synchronises the two   *)
(* programs: the reader samples three words of the ring's head one after   *)
(* the other and trusts them when they agree.  A cell stands for a run of  *)
(* bytes; a frame is one header cell and len payload cells, and an address *)
(* counts the cells from addr + buf_offset, so RingSize is addr + buf_size.*)
(***************************************************************************)
EXTENDS Integers, Sequences

CONSTANTS
  RingSize,    \* buf_size - buf_offset
  FhsSize,     \* entries of fhs[] (10 in the code)
  Kind,        \* the frames the camera program writes: stream and sps flag
  MaxLen,      \* payload cells of the longest frame
  Standard,    \* streams whose SPS is one of the two the program knows
  Invocation,  \* command lines: the streams asked for, fifo and sti
  None

VideoStream == {"low", "high"}
Stream == VideoStream \cup {"aac"}
Address == 0 .. RingSize
FrameNo == 1 .. Len(Kind)

RingConstants ==
  /\ RingSize \in Nat \ {0} /\ FhsSize \in Nat \ {0}
  /\ MaxLen \in Nat /\ MaxLen < RingSize
  /\ Kind \in Seq([stream : Stream, sps : BOOLEAN])
  /\ Standard \subseteq VideoStream
  /\ Invocation \subseteq [wanted : SUBSET Stream, fifo : BOOLEAN, sti : BOOLEAN]
  /\ None \notin FrameNo \X (0 .. MaxLen)

VARIABLES
  frames,   \* every frame begun so far: its address and length
  ring,     \* what each cell holds: <<frame, cell of the frame>>
  head,     \* the words +16 (last frame), +4 (its size), +12 (write position)
  pending,  \* what the writer has still to store for its last frame
  args,     \* the command line
  rpc,      \* where the reader is
  sample,   \* its copies of the words
  endPrev,  \* buf_idx_end_prev
  todo,     \* headers of the frames of this pass that are not written yet
  codec,    \* stream_type: what was seen of each video stream
  out,      \* history: the frames handed to stdio
  tracked,  \* history: the frame that starts at endPrev, 0 if unknown
  fifos,    \* FIFOs that exist
  opened,   \* FIFOs the program holds open for writing
  unlockers \* FIFOs whose unlock_fifo_thread waits for the writer

shared == <<frames, ring, head, pending>>
starting == <<args, fifos, opened, unlockers>>
vars == <<frames, ring, head, pending, args, rpc, sample, endPrev, todo, codec,
          out, tracked, fifos, opened, unlockers>>

-----------------------------------------------------------------------------
(* The camera program.  It writes a frame's header first; the payload and  *)
(* the three words may be stored in any order (the reader leaves the last  *)
(* frame alone because "it could be corrupted").                           *)

At(k) == IF k <= Len(frames) THEN frames[k].at
         ELSE IF frames = <<>> THEN 0
         ELSE (frames[k - 1].at + 1 + frames[k - 1].len) % RingSize

Begin(len) ==
  LET k == Len(frames) + 1 IN
  /\ pending = {} /\ k \in FrameNo
  /\ Kind[k].sps => len >= 2
  /\ frames' = Append(frames, [at |-> At(k), len |-> len])
  /\ ring' = [ring EXCEPT ![At(k)] = <<k, 0>>]
  /\ pending' = {"payload", "idx", "len", "pos"}
  /\ UNCHANGED head

Store(what) ==
  LET k == Len(frames)
      f == frames[k]
      cell(p) == (p - f.at + RingSize) % RingSize
  IN
  /\ what \in pending
  /\ pending' = pending \ {what}
  /\ ring' = IF what # "payload" THEN ring
             ELSE [p \in 0 .. RingSize - 1 |->
                     IF cell(p) \in 1 .. f.len THEN <<k, cell(p)>> ELSE ring[p]]
  /\ head' = CASE what = "idx" -> [head EXCEPT !.idx = f.at]
               [] what = "len" -> [head EXCEPT !.len = f.len + 1]
               [] what = "pos" -> [head EXCEPT !.pos = (f.at + 1 + f.len) % RingSize]
               [] what = "payload" -> head
  /\ UNCHANGED frames

(* What it writes before the program first looks makes no difference.     *)
Writer ==
  /\ rpc \notin {"start", "fifos"}
  /\ \/ \E len \in 1 .. MaxLen : Begin(len)
     \/ \E what \in {"payload", "idx", "len", "pos"} : Store(what)
  /\ UNCHANGED <<args, rpc, sample, endPrev, todo, codec, out, tracked,
                 fifos, opened, unlockers>>

-----------------------------------------------------------------------------
(* Start: the command line, the shared memory, the FIFOs.                  *)

(* One stdout carries one stream. *)
Refused(a) ==
  ~a.fifo /\ (VideoStream \subseteq a.wanted \/ (a.wanted \cap VideoStream # {} /\ "aac" \in a.wanted))

Start ==
  /\ rpc = "start"
  /\ \/ rpc' = "exit"                   \* refused, or the ring cannot be mapped
     \/ ~Refused(args) /\ rpc' = IF args.fifo THEN "fifos" ELSE "first idx"
  /\ UNCHANGED <<shared, starting, sample, endPrev, todo, codec, out, tracked>>

(* A FIFO and the thread that opens its read end, so that the open for     *)
(* writing below need not wait for a client.                               *)
MakeFifoAlone(s) ==
  /\ rpc = "fifos" /\ s \in args.wanted \ fifos
  /\ fifos' = fifos \cup {s}
  /\ UNCHANGED <<shared, args, unlockers, opened, rpc, sample, endPrev, todo, codec,
                 out, tracked>>
MakeFifo(s) ==
  /\ rpc = "fifos" /\ s \in args.wanted \ fifos
  /\ fifos = opened                    \* one FIFO after the other
  /\ \/ /\ fifos' = fifos \cup {s} /\ unlockers' = unlockers \cup {s}
        /\ UNCHANGED <<opened, rpc>>
     \/ rpc' = "exit" /\ opened' = {} /\ UNCHANGED <<fifos, unlockers>>
  /\ UNCHANGED <<shared, args, sample, endPrev, todo, codec, out, tracked>>

(* fopen(.., "w") waits for a reader; the writes are non-blocking after it,*)
(* and the thread leaves with the first bytes.                             *)
OpenFifo(s) ==
  /\ rpc = "fifos" /\ s \in fifos \ opened
  /\ s \in unlockers
  /\ opened' = opened \cup {s} /\ unlockers' = unlockers \ {s}
  /\ UNCHANGED <<shared, args, fifos, rpc, sample, endPrev, todo, codec, out, tracked>>

FifosReady ==
  /\ rpc = "fifos" /\ opened = args.wanted
  /\ rpc' = "first idx"
  /\ UNCHANGED <<shared, starting, sample, endPrev, todo, codec, out, tracked>>

-----------------------------------------------------------------------------
(* Addresses in the ring. *)

End(idx, n) == IF idx + n >= RingSize THEN idx + n - RingSize ELSE idx + n

CbMovePast(p, n) == IF p + n > RingSize THEN p + n - RingSize + 1 ELSE p + n

CbMove(p, n) == IF p + n > RingSize THEN p + n - RingSize ELSE p + n

(* n cells from p on, in two pieces when they pass the end of the buffer. *)
CopyOut(p, n) ==
  [i \in 1 .. n |-> ring[IF p + i - 1 >= RingSize THEN p + i - 1 - RingSize ELSE p + i - 1]]

(* What the reader takes for the header at p: that of a frame, or noise.   *)
HeaderAt(p, noise) ==
  LET c == CopyOut(p, 1)[1] IN
  IF c # None /\ c[2] = 0
  THEN [at |-> p, frame |-> c[1], len |-> frames[c[1]].len,
        stream |-> Kind[c[1]].stream, sps |-> Kind[c[1]].sps, followed |-> FALSE]
  ELSE [noise EXCEPT !.at = p]

Noise == [at : {0}, frame : {0}, len : {0, 1, RingSize}, stream : {"low", "aac"},
          sps : {FALSE}, followed : {FALSE}]

Live(k) == ring[At(k)] = <<k, 0>>
Boundary(p) ==
  LET ks == {k \in 1 .. Len(frames) + 1 : At(k) = p % RingSize /\ (k > Len(frames) \/ Live(k))}
  IN IF ks = {} THEN 0 ELSE CHOOSE k \in ks : \A j \in ks : j <= k

-----------------------------------------------------------------------------
(* The capture loop. *)

NoSample == [idx |-> 0, end |-> 0]

ReadIdx ==
  /\ \/ rpc = "first idx" /\ rpc' = "first len"
     \/ rpc = "idx" /\ rpc' = "len"
  /\ sample' = [sample EXCEPT !.idx = head.idx]
  /\ UNCHANGED <<shared, starting, endPrev, todo, codec, out, tracked>>

(* Before the loop the position is taken without the check made in it. *)
FirstLen ==
  /\ rpc = "first len"
  /\ endPrev' = End(sample.idx, head.len)
  /\ tracked' = Boundary(endPrev')
  /\ rpc' = "idx" /\ sample' = NoSample
  /\ UNCHANGED <<shared, starting, todo, codec, out>>

ReadLen ==
  /\ rpc = "len"
  /\ sample' = [idx |-> 0, end |-> End(sample.idx, head.len)]
  /\ rpc' = "pos"
  /\ UNCHANGED <<shared, starting, endPrev, todo, codec, out, tracked>>

(* "Check if the header is ok" *)
CheckHead ==
  /\ rpc = "pos"
  /\ IF sample.end = head.pos /\ sample.end # endPrev
     THEN rpc' = "parse" /\ UNCHANGED sample
     ELSE rpc' = "idx" /\ sample' = NoSample
  /\ UNCHANGED <<shared, starting, endPrev, todo, codec, out, tracked>>

(* Of n frames the last is left for the next pass, which starts at it:     *)
(* "it could be corrupted".                                                *)
ReadyAll(n) == n               
Ready(n) == n - 1
ResumeEarly(n) == n - 2        
Resume(n) == n - 1

(* Follow the headers from endPrev: where the i-th of them would be.       *)
Walk(noise) ==
  LET w[i \in 0 .. FhsSize] ==
        IF i = 0 THEN endPrev ELSE CbMove(w[i - 1], HeaderAt(w[i - 1], noise).len + 1)
  IN w

(* Go on to the sampled end.  A length that cannot be, or FhsSize headers, *)
(* is a lost sync: go on from the end.                                     *)
Parse ==
  /\ rpc = "parse"
  /\ \E noise \in Noise :
       LET walk == Walk(noise)
           fhs(i) == HeaderAt(walk[i], noise)
           reached == {i \in 0 .. FhsSize - 1 :
                         /\ walk[i] = sample.end
                         /\ \A j \in 0 .. i - 1 : walk[j] # sample.end /\ fhs(j).len < RingSize}
           n == CHOOSE i \in reached : TRUE
           onTrack == /\ tracked # 0
                      /\ \A i \in 0 .. n - 1 : fhs(i).frame = tracked + i
       IN \/ /\ reached = {}
             /\ endPrev' = sample.end /\ tracked' = Boundary(sample.end)
             /\ rpc' = "idx" /\ UNCHANGED todo
          \/ /\ reached # {} /\ n > 1
             /\ todo' = [i \in 1 .. Ready(n) |-> [fhs(i - 1) EXCEPT !.followed = onTrack]]
             /\ endPrev' = walk[Resume(n)]
             /\ tracked' = IF onTrack THEN tracked + Resume(n) ELSE 0
             /\ rpc' = "write"
          \/ /\ reached # {} /\ n <= 1
             /\ rpc' = "idx" /\ UNCHANGED <<todo, endPrev, tracked>>
  /\ sample' = NoSample
  /\ UNCHANGED <<shared, starting, codec, out>>

(* The payload; six bytes, one cell here, precede the one of an SPS.       *)
Payload(h) == IF h.sps THEN CopyOut(CbMove(h.at, 2), h.len - 1) ELSE CopyOut(CbMove(h.at, 1), h.len)

(* The stream type, "only the 1st time": by the first bytes of an SPS.     *)
Detected(h) ==
  IF ~h.sps \/ h.stream \notin VideoStream \/ codec[h.stream] # None THEN codec
  ELSE LET c == CopyOut(CbMove(h.at, 2), 1)[1] IN
       IF c = None \/ ~Kind[c[1]].sps \/ c[2] # 2 THEN codec
       ELSE [codec EXCEPT ![h.stream] =
               IF Kind[c[1]].stream = h.stream /\ h.stream \in Standard THEN "standard" ELSE "other"]

Destination(h) == h.stream \in args.wanted /\ (h.stream \in VideoStream => codec'[h.stream] # None)

(* An SPS of a known size is replaced by one with timing info.             *)
Retimed(h) == args.sti /\ h.sps /\ codec'[h.stream] = "standard"

Whole(h) ==
  LET first == IF h.sps THEN 1 ELSE 0 IN
  Payload(h) = [j \in 1 .. h.len - first |-> <<h.frame, first + j>>]

WriteFrame ==
  /\ rpc = "write" /\ todo # <<>>
  /\ LET h == Head(todo) IN
     /\ codec' = Detected(h)
     /\ out' = IF Destination(h)
               THEN Append(out, [frame |-> h.frame, stream |-> h.stream, sps |-> h.sps,
                                 whole |-> Retimed(h) \/ Whole(h),
                                 live |-> h.followed /\ Live(h.frame)])
               ELSE out
  /\ todo' = Tail(todo)
  /\ rpc' = IF Len(todo) = 1 THEN "idx" ELSE "write"
  /\ UNCHANGED <<shared, starting, sample, endPrev, tracked>>

(* SIGTERM or SIGINT set exit_main, which the loop reads once per pass.    *)
Finish ==
  /\ rpc = "idx"
  /\ rpc' = "exit"
  /\ fifos' = fifos \ args.wanted /\ opened' = {}
  /\ UNCHANGED <<shared, args, unlockers, sample, endPrev, todo, codec, out, tracked>>

Startup == Start \/ FifosReady \/ \E s \in Stream : MakeFifo(s) \/ OpenFifo(s)
Reader == Startup \/ ReadIdx \/ FirstLen \/ ReadLen \/ CheckHead \/ Parse \/ WriteFrame

Init ==
  /\ frames = <<>> /\ pending = {}
  /\ ring = [p \in 0 .. RingSize - 1 |-> None]
  /\ head = [idx |-> 0, len |-> 0, pos |-> 0]
  /\ args \in Invocation
  /\ rpc = "start"
  /\ sample = NoSample /\ endPrev = 0 /\ todo = <<>>
  /\ codec = [s \in VideoStream |-> None]
  /\ out = <<>> /\ tracked = 0
  /\ fifos = {} /\ opened = {} /\ unlockers = {}

Next == Writer \/ Reader \/ Finish
(* The thread that starts the program up is scheduled. *)
Fairness == WF_vars(Startup)
Spec == Init /\ [][Next]_vars /\ Fairness

-----------------------------------------------------------------------------
(* Properties                                                              *)

(* A frame the writer has not lapped is handed on with every one of its    *)
(* bytes, also when it passes the end of the buffer and while the writer   *)
(* is storing the next one.                                                *)
IntactUnlessLapped == \A i \in DOMAIN out : out[i].live => out[i].whole

(* No frame twice and none after a later one, and a decoder is given an    *)
(* SPS before any other frame of its stream.                               *)
OrderedOutput ==
  /\ \A i, j \in DOMAIN out : i < j /\ out[i].live /\ out[j].live => out[i].frame < out[j].frame
  /\ \A i \in DOMAIN out :
       out[i].stream \in VideoStream =>
         \E j \in 1 .. i : out[j].stream = out[i].stream /\ out[j].sps

(* A reader that was not lapped skips frames only when FhsSize of them     *)
(* waited, or when the frames end exactly where the buffer does.           *)
LossExplained ==
  [][(rpc = "parse" /\ rpc' = "idx" /\ endPrev' # endPrev /\ tracked # 0 /\ Live(tracked))
       => (tracked' - tracked \notin 1 .. FhsSize - 1 \/ sample.end = 0)]_vars

(* The program gets to its capture loop, or gives up, although no client   *)
(* ever opens its FIFOs.                                                   *)
CaptureStarts == (rpc = "fifos") ~> (rpc # "fifos")
=============================================================================
