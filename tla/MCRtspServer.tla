---------------------------- MODULE MCRtspServer ----------------------------
(***************************************************************************)
(* The two directions of sound in rRTSPServer: what its clients hear       *)
(* (Audio) and what they say to the camera (Backchannel).  They share the  *)
(* event loop and the options but no other state, so TLC looks at one      *)
(* direction at a time: `direction' is chosen in the initial state, and    *)
(* the state spaces add up instead of multiplying.                         *)
(***************************************************************************)
EXTENDS Backchannel

CONSTANTS c1, c2, file, stream,
  Room, PipeMax, AacFrame, AacMax, AacCap, AacSizes  \* of Audio

VARIABLES
  direction,
  settings, fifo, pipe, writer, reading, started, awaiting, room, got, late,
  held, out, due, frame

MCSamples == (-32768) .. 32767
Opts(r, a, b) == [r |-> r, c |-> "h265", C |-> "", a |-> a, b |-> b]
MCOptions ==
  {Opts("", "", ""), Opts("low", "", "alaw"), Opts("both", "alaw", ""), Opts("", "pcm", "x"),
   Opts("x", "aac", "alaw"), Opts("both", "no", "")}
Plain == Opts("", "", "")

Sound == INSTANCE Audio WITH Samples <- MCSamples, Options <- MCOptions

ASSUME SoundAssumption == Sound!AudioConstants

soundVars ==
  <<settings, fifo, pipe, writer, reading, started, awaiting, room, got, late,
    held, out, due, frame>>
bothVars == <<direction, vars, soundVars>>

-----------------------------------------------------------------------------
RtspInit ==
  /\ direction \in {"listen", "speak"}
  /\ Init /\ Sound!Init
  /\ direction = "speak" => settings = Sound!Settings(Plain, Plain) /\ ~fifo /\ ~writer

Other ==
  /\ UNCHANGED direction
  /\ direction # "speak" => UNCHANGED vars
  /\ direction # "listen" => UNCHANGED soundVars

RtspNext ==
  \/ (direction = "speak" /\ Next /\ Other)
  \/ (direction = "listen" /\ Sound!Next /\ Other)

(* The fairness of Backchannel and of Audio, for the one that runs. *)
RtspSpec ==
  /\ RtspInit /\ [][RtspNext]_bothVars
  /\ WF_bothVars(direction = "speak" /\ rRTSPServer /\ Other)
  /\ \A c \in Client : SF_bothVars(direction = "speak" /\ Notice(c) /\ Other)
  /\ \A p \in Player : WF_bothVars(direction = "speak" /\ speaker(p) /\ Other)
  /\ WF_bothVars(direction = "speak" /\ cancel_signal /\ Other)
  /\ WF_bothVars(direction = "listen" /\ Sound!Write /\ Other)
  /\ WF_bothVars(direction = "listen" /\ Sound!Serve /\ Other)

-----------------------------------------------------------------------------
(* PCM frames are whole samples, recorded after reading had started, and   *)
(* every byte the AAC encoder made is sent once and in order.              *)
SoundIntact == Sound!WholeAndFresh /\ Sound!EncodedInOrder

Companding == Sound!CompandingOk  \* TLC evaluates it once

(* Where A-law is sent or received, every sample comes back within the     *)
(* step of its segment (aLawAudioFilter.cpp).                              *)
ALawInverted == Sound!Companded => Companding

(* Every audio track is described as what the source sends, and the back   *)
(* channel is in one session.                                              *)
StreamsMatch == Sound!StreamsMatch

(* Who waits for a frame of sound gets one, or the camera's end is closed. *)
Served == Sound!Served
=============================================================================
