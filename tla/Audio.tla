-------------------------------- MODULE Audio -------------------------------
(***************************************************************************)
(* The audio that rRTSPServer sends.  The camera writes samples into       *)
(* /tmp/audio_fifo whether or not somebody listens; one source reads them  *)
(* for all listeners, as PCM (WAVAudioFifoSource) or through the AAC       *)
(* encoder (ADTSFromWAVAudioFifoSource), when the event loop finds the     *)
(* pipe readable.  The event loop and the replicator are live555's.        *)
(***************************************************************************)
EXTENDS MediaSessions, SequencesExt

CONSTANTS
  Room,        \* bytes the reader has room for, at most the preferred 512
  PipeMax,     \* samples the pipe holds
  AacFrame,    \* samples of an AAC frame, 1024 in the program
  AacMax,      \* bytes the reader of the encoder has room for
  AacSizes,    \* sizes of an encoded frame, with 0 for none
  AacCap,      \* bound: encoded bytes held back
  Samples,     \* samples the companding is checked on
  Options      \* the options given on the command line, or in the environment

AudioConstants ==
  /\ {Room, PipeMax, AacFrame, AacMax} \subseteq Nat \ {0} /\ AacSizes \subseteq Nat
  /\ AacCap \in Nat /\ Room >= 2 /\ Samples \subseteq -(2 ^ 15) .. 2 ^ 15 - 1

VARIABLES
  settings,  \* what the options and the environment ask for
  fifo,      \* the audio pipe exists
  pipe,      \* bytes: the half of a sample, and whether it is from before the start
  writer,    \* the camera's end of the pipe is open
  reading,   \* the event loop watches the pipe
  started,   \* fHaveStartedReading
  awaiting,  \* somebody waits for a frame
  room,      \* fMaxSize
  got,       \* the bytes of the frame so far, or the encoder's input
  late,      \* five seconds since fPresentationTime
  held,      \* fPermanentOutputBuffer
  out, due,  \* the last frame delivered; history: what was due then
  frame      \* number of the next AAC frame, modulo 3

vars == <<settings, fifo, pipe, writer, reading, started, awaiting, room, got, late, held, out, due, frame>>
aac == <<held, due, frame>>
asked == <<settings, fifo>>
side == <<asked, writer>>

kind == IF settings["a"] = "aac" THEN "adts" ELSE "wav"

Bytes(old) == <<[half |-> 0, old |-> old], [half |-> 1, old |-> old]>>

-----------------------------------------------------------------------------
(* The camera writes whole samples and drops one the pipe has no room for. *)
Write ==
  /\ fifo /\ writer
  /\ pipe' = IF Len(pipe) + 2 <= 2 * PipeMax THEN pipe \o Bytes(FALSE) ELSE pipe
  /\ UNCHANGED <<side, reading, started, awaiting, room, got, late, aac, out>>

WriterGoes ==
  /\ writer' = ~writer
  /\ UNCHANGED <<settings, fifo, pipe, reading, started, awaiting, room, got, late, aac, out>>

(* While somebody waits an open writer is never silent for five seconds.   *)
FiveSeconds ==
  /\ ~awaiting \/ ~writer
  /\ late' = TRUE
  /\ UNCHANGED <<side, pipe, reading, started, awaiting, room, got, aac, out>>

-----------------------------------------------------------------------------
(* doGetNextFrame and doStopGettingFrames.  What is in the pipe when       *)
(* reading starts is old.                                                  *)
Old(p) == [i \in DOMAIN p |-> [p[i] EXCEPT !.old = TRUE]]

StartKept == pipe' = Old(pipe)
Start == IF kind = "wav" THEN pipe' = <<>> ELSE pipe' = Old(pipe)

GetNextFrame ==
  /\ Replicator(settings, fifo) # "none"
  /\ ~awaiting /\ awaiting' = TRUE
  /\ room' = Room
  /\ got' = IF kind = "wav" THEN <<>> ELSE got
  /\ IF ~started THEN Start /\ started' = TRUE /\ reading' = TRUE
     ELSE UNCHANGED <<pipe, started, reading>>
  /\ UNCHANGED <<side, late, aac, out>>

StopKept == reading' = FALSE /\ UNCHANGED started
Stop == reading' = FALSE /\ started' = FALSE

StopGettingFrames ==
  /\ awaiting' = FALSE /\ Stop
  /\ UNCHANGED <<side, pipe, room, got, late, aac, out>>

-----------------------------------------------------------------------------
(* fileReadableHandler: the pipe has data, or no writer.                   *)
Readable == reading /\ (pipe # <<>> \/ ~writer)

NotReady ==
  /\ Readable /\ ~awaiting /\ Stop
  /\ UNCHANGED <<side, pipe, awaiting, room, got, late, aac, out>>

TooLate ==
  /\ Readable /\ awaiting /\ kind = "wav" /\ late
  /\ pipe' = <<>> /\ late' = FALSE
  /\ UNCHANGED <<side, reading, started, awaiting, room, got, aac, out>>

Least(a, b) == IF a < b THEN a ELSE b
BytesToRead(r) == r - (r % 2)

(* Nothing read ends the stream; half a sample waits for the other half.   *)
ReadWav ==
  /\ Readable /\ awaiting /\ kind = "wav" /\ ~late
  /\ LET n == Least(BytesToRead(room), Len(pipe))
         all == got \o SubSeq(pipe, 1, n)
         ready == n > 0 /\ Len(all) % 2 = 0
     IN /\ pipe' = SubSeq(pipe, n + 1, Len(pipe))
        /\ awaiting' = (n > 0 /\ ~ready)
        /\ got' = all /\ room' = room - n
        /\ out' = IF ready THEN all ELSE out
  /\ UNCHANGED <<side, reading, started, late, aac>>

(* The encoder takes whole samples, of 2 bytes, until it has a frame; the  *)
(* closed pipe reads as nothing.  What does not fit waits for the next.    *)
Payload(n) == [i \in 1 .. n |-> <<frame, i>>]

CarryAll(all, n) == all
Carry(all, n) == SubSeq(all, n + 1, Len(all))

ReadAdts ==
  /\ Readable /\ awaiting /\ kind = "adts"
  /\ LET n == Least(2 * AacFrame - Len(got), Len(pipe))
         all == got \o SubSeq(pipe, 1, n - (n % 2))
     IN /\ pipe' = SubSeq(pipe, n + 1, Len(pipe))
        /\ IF Len(all) < 2 * AacFrame
           THEN got' = all /\ UNCHANGED <<awaiting, late, aac, out>>
           ELSE /\ got' = <<>> /\ awaiting' = FALSE /\ late' = FALSE
                /\ \E size \in AacSizes :
                     /\ Len(held) + size <= AacCap
                     /\ IF size = 0
                        THEN out' = <<>> /\ due' = Carry(due, Len(out)) /\ UNCHANGED <<held, frame>>
                        ELSE /\ due' = Carry(due, Len(out)) \o Payload(size)
                             /\ frame' = (frame + 1) % 3
                             /\ LET h == held \o Payload(size) IN
                                  /\ out' = SubSeq(h, 1, Least(AacMax, Len(h)))
                                  /\ held' = Carry(h, Least(AacMax, Len(h)))
  /\ UNCHANGED <<side, reading, started, room>>

-----------------------------------------------------------------------------
(* aLawFrom16BitLinear and its inverse, a table of 256 values of which the *)
(* upper half is the lower one with the other sign.                        *)
Bit(n, b) == (n \div 2 ^ b) % 2
Flip(n, m) ==
  LET bit(b) == IF Bit(n, b) = Bit(m, b) THEN 0 ELSE 2 ^ b
  IN bit(0) + bit(1) + bit(2) + bit(3) + bit(4) + bit(5) + bit(6) + bit(7)

Exponent(m) ==
  IF m < 256 THEN 0 ELSE CHOOSE e \in 1 .. 7 : 2 ^ (e + 7) <= m /\ m < 2 ^ (e + 8)

MantissaFlat(m, e) == (m \div 16) % 16
Mantissa(m, e) == IF e < 2 THEN (m \div 16) % 16 ELSE (m \div 2 ^ (e + 3)) % 16

ALaw(s) ==
  LET m == Least(IF s < 0 THEN -s ELSE s, 32767)
      e == Exponent(m)
  IN Flip((IF s < 0 THEN 128 ELSE 0) + 16 * e + Mantissa(m, e), 213)

alaw_decode ==
  <<5504, 5248, 6016, 5760, 4480, 4224, 4992, 4736, 7552, 7296, 8064, 7808, 6528, 6272, 7040, 6784,
    2752, 2624, 3008, 2880, 2240, 2112, 2496, 2368, 3776, 3648, 4032, 3904, 3264, 3136, 3520, 3392,
    22016, 20992, 24064, 23040, 17920, 16896, 19968, 18944, 30208, 29184, 32256, 31232, 26112, 25088, 28160, 27136,
    11008, 10496, 12032, 11520, 8960, 8448, 9984, 9472, 15104, 14592, 16128, 15616, 13056, 12544, 14080, 13568,
    344, 328, 376, 360, 280, 264, 312, 296, 472, 456, 504, 488, 408, 392, 440, 424,
    88, 72, 120, 104, 24, 8, 56, 40, 216, 200, 248, 232, 152, 136, 184, 168,
    1376, 1312, 1504, 1440, 1120, 1056, 1248, 1184, 1888, 1824, 2016, 1952, 1632, 1568, 1760, 1696,
    688, 656, 752, 720, 560, 528, 624, 592, 944, 912, 1008, 976, 816, 784, 880, 848>>

Linear(a) == IF a < 128 THEN -alaw_decode[a + 1] ELSE alaw_decode[a - 127]

-----------------------------------------------------------------------------
Init ==
  /\ \E arg, env \in Options : settings = Settings(arg, env)
  /\ fifo \in BOOLEAN
  /\ pipe = <<>> /\ writer \in BOOLEAN
  /\ reading = FALSE /\ started = FALSE /\ awaiting = FALSE
  /\ room = Room /\ got = <<>> /\ late = TRUE
  /\ held = <<>> /\ out = <<>> /\ due = <<>> /\ frame = 0

Next ==
  \/ Write \/ WriterGoes \/ FiveSeconds
  \/ GetNextFrame \/ StopGettingFrames
  \/ NotReady \/ TooLate \/ ReadWav \/ ReadAdts

Serve == TooLate \/ ReadWav \/ ReadAdts

(* The event loop serves a readable pipe; an open writer goes on writing.  *)
Spec == Init /\ [][Next]_vars /\ WF_vars(Write) /\ WF_vars(Serve)

-----------------------------------------------------------------------------
(* Whatever the options and the environment, every audio track of every    *)
(* session is described as what the one source really sends, and the back  *)
(* channel, if asked for, is in exactly one session, so that two sessions  *)
(* never both write to the speaker (rRTSPServer.cpp lines 72-123, 194-607, *)
(* WAVAudioFifoServerMediaSubsession.cpp lines 151-220).                   *)
StreamsMatch ==
  LET ss == Sessions(settings, fifo)
      sent == Replicator(settings, fifo)
      audio == OfKind(ss, "audio")
  IN /\ \A t \in audio : Carries(ss[t[1]].tracks[t[2]].sink.mime) = sent
     /\ audio # {} <=> sent # "none"
     /\ Cardinality(OfKind(ss, "back")) = (IF settings["b"] # "none" THEN 1 ELSE 0)

(* A PCM frame consists of whole samples in their order, and of sound that *)
(* was recorded after reading had started: what the pipe gathered while    *)
(* nobody listened, or while the reader was not ready, is never sent       *)
(* (WAVAudioFifoSource.cpp lines 80-105, 148-177, 179-253).                *)
WholeAndFresh ==
  kind = "wav" => /\ Len(out) % 2 = 0
                  /\ \A i \in DOMAIN out : out[i].half = (i + 1) % 2 /\ ~out[i].old

(* Every byte the encoder made is sent once and in order, however small    *)
(* the reader's buffer is (ADTSFromWAVAudioFifoSource.cpp lines 300-328).  *)
EncodedInOrder ==
  kind = "adts" => IsPrefix(out, due) /\ held = SubSeq(due, Len(out) + 1, Len(due))

(* Who waits for a frame gets one, or the camera's end is closed.          *)
Served == awaiting ~> (~awaiting \/ ~writer)

(* A sample that was companded and expanded again is off by at most 8, or  *)
(* by a 32nd of it (aLawAudioFilter.cpp lines 73-94, 179-212).             *)
CompandingOk ==
  \A s \in Samples : LET d == Linear(ALaw(s)) - s
                         m == IF s < 0 THEN -s ELSE s
                     IN /\ 32 * d <= 256 + m /\ -32 * d <= 256 + m

(* A-law is sent, or received from who speaks. *)
Companded == "alaw" \in {Replicator(settings, fifo), settings["b"]}
=============================================================================
