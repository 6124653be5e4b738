---------------------------- MODULE MediaSessions ---------------------------
(***************************************************************************)
(* What rRTSPServer announces for its options: the one source of audio and *)
(* the filters behind it, the sessions, the tracks of each, and the RTP    *)
(* format a track is described with.                                       *)
(***************************************************************************)
EXTENDS Integers, Sequences, FiniteSets

Words ==
  [r |-> {"low", "high", "both"}, c |-> {"h264", "h265"}, C |-> {"h264", "h265"},
   a |-> {"no", "yes", "alaw", "ulaw", "pcm", "aac"}, b |-> {"alaw", "ulaw", "aac"}]
Default == [r |-> "high", c |-> "h264", C |-> "h264", a |-> "yes", b |-> "none"]

(* The environment overrides the command line.  A word that is not known   *)
(* is passed over, except that it turns the back channel off; "" is an     *)
(* option that is not given.                                               *)
Read(o, old, word) ==
  IF word \in Words[o] THEN word ELSE IF o = "b" /\ word # "" THEN "none" ELSE old

Settings(arg, env) == [o \in DOMAIN Words |-> Read(o, Read(o, Default[o], arg[o]), env[o])]

(* The source of all the audio tracks: what its frames hold.  Without the  *)
(* pipe there is no audio; a noise filter does not change the format.      *)
Replicator(s, fifo) ==
  IF ~fifo \/ s["a"] = "no" THEN "none"
  ELSE CASE s["a"] = "aac" -> "aac"
         [] s["a"] = "alaw" -> "alaw"
         [] s["a"] \in {"yes", "ulaw"} -> "ulaw"
         [] s["a"] = "pcm" -> "big endian"

(* createNewRTPSink, for 8000 Hz, one channel, 16 bits.                    *)
Sink(s) ==
  CASE s["a"] = "aac"  -> [mime |-> "MPEG4-GENERIC", payload |-> 97]
    [] s["a"] = "alaw" -> [mime |-> "PCMA", payload |-> 8]
    [] s["a"] \in {"yes", "ulaw"} -> [mime |-> "PCMU", payload |-> 0]
    [] s["a"] = "pcm"  -> [mime |-> "L16", payload |-> 97]

Track(kind, s) == <<[kind |-> kind, sink |-> s]>>
When(c, x) == IF c THEN x ELSE <<>>

AudioTrack(s, fifo) == When(Replicator(s, fifo) # "none", Track("audio", Sink(s)))
BackTrack(s) == When(s["b"] # "none", Track("back", s["b"]))

SessionsTwice(s, fifo) ==
  When(s["r"] \in {"high", "both"},
       <<[name |-> "ch0_0.h264", tracks |-> Track("video", s["C"]) \o AudioTrack(s, fifo) \o BackTrack(s)]>>)
  \o When(s["r"] \in {"low", "both"},
       <<[name |-> "ch0_1.h264", tracks |-> Track("video", s["c"]) \o AudioTrack(s, fifo) \o BackTrack(s)]>>)

(* The back channel belongs to the first session; the audio also has a     *)
(* session of its own.                                                     *)
Sessions(s, fifo) ==
  When(s["r"] \in {"high", "both"},
       <<[name |-> "ch0_0.h264", tracks |-> Track("video", s["C"]) \o AudioTrack(s, fifo) \o BackTrack(s)]>>)
  \o When(s["r"] \in {"low", "both"},
       <<[name |-> "ch0_1.h264", tracks |-> Track("video", s["c"]) \o AudioTrack(s, fifo)
                                             \o When(s["r"] = "low", BackTrack(s))]>>)
  \o When(Replicator(s, fifo) # "none",
       <<[name |-> "ch0_2.h264", tracks |-> AudioTrack(s, fifo)]>>)

-----------------------------------------------------------------------------
Carries(mime) ==
  CASE mime = "PCMA" -> "alaw" [] mime = "PCMU" -> "ulaw" [] mime = "L16" -> "big endian"
    [] mime = "MPEG4-GENERIC" -> "aac"

OfKind(ss, kind) ==
  {t \in (DOMAIN ss) \X (1 .. 3) : /\ t[2] \in DOMAIN ss[t[1]].tracks
                                   /\ ss[t[1]].tracks[t[2]].kind = kind}
=============================================================================
