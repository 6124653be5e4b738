--------------------------- MODULE MCFrameReaders ---------------------------
(***************************************************************************)
(* The three programs that read the camera's frame memory without a lock:  *)
(* imggrabber (Snapshot), h264grabber2 on the SoCs with a shared ring      *)
(* (GrabberRing) and h264grabber on those with one encoder buffer          *)
(* (EncoderTap).  They share no state with each other, so TLC looks at one *)
(* of them at a time: `reader' is chosen in the initial state, and the     *)
(* state spaces add up instead of multiplying.                             *)
(***************************************************************************)
EXTENDS Snapshot

CONSTANTS v1,
  RingSize, FhsSize, MaxLen, Kind, Standard, Invocation,  \* of GrabberRing
  Cycle, Chunks, Span, Compared, LagMax, LostGap, Content, Option  \* of EncoderTap

VARIABLES
  reader,
  r_frames, r_ring, r_head, r_pending, r_args, r_rpc, r_sample, r_endPrev,
  r_todo, r_codec, r_out, r_tracked, r_fifos, r_opened, r_unlockers,
  e_buf, e_len, e_stamp, e_storing, e_newest, e_opt, e_pc, e_phase, e_old,
  e_time, e_got, e_copied, e_before, e_at, e_out

K(s, f) == [stream |-> s, sps |-> f]
LowAndAudio == <<K("aac", FALSE), K("low", TRUE), K("low", FALSE), K("aac", FALSE),
                 K("low", FALSE)>>
Commands == {[wanted |-> {"low", "aac"}, fifo |-> TRUE, sti |-> FALSE],
             [wanted |-> {"low", "high"}, fifo |-> FALSE, sti |-> FALSE]}
OneCommand == [wanted |-> {"low", "high"}, fifo |-> FALSE, sti |-> FALSE]

Ring == INSTANCE GrabberRing WITH
  frames <- r_frames, ring <- r_ring, head <- r_head, pending <- r_pending,
  args <- r_args, rpc <- r_rpc, sample <- r_sample, endPrev <- r_endPrev,
  todo <- r_todo, codec <- r_codec, out <- r_out, tracked <- r_tracked,
  fifos <- r_fifos, opened <- r_opened, unlockers <- r_unlockers

Shown == [k \in 0 .. Cycle - 1 |-> CASE k = 0 -> "sps 1080" [] k = 4 -> "sps" [] k = 2 -> "sei 02"
                                       [] OTHER -> "slice"]
Lengths == [k \in 0 .. Cycle - 1 |-> CASE k = 0 -> Chunks [] k = 2 -> 1 [] OTHER -> 2]
LastOnes == [n \in 1 .. Chunks |-> {p \in 1 .. n : p > 1}]
Switches == [ssf0 : BOOLEAN, noti : BOOLEAN]
NoSwitch == [ssf0 |-> FALSE, noti |-> FALSE]

Tap == INSTANCE EncoderTap WITH
  buf <- e_buf, len <- e_len, stamp <- e_stamp, storing <- e_storing,
  newest <- e_newest, opt <- e_opt, pc <- e_pc, phase <- e_phase,
  old <- e_old, time <- e_time, got <- e_got, copied <- e_copied,
  before <- e_before, at <- e_at, out <- e_out

ASSUME ReaderAssumption ==
  /\ v1 \in Viewer /\ Ring!RingConstants /\ Tap!TapConstants
  /\ OneCommand \in Invocation /\ NoSwitch \in Option

H264(p) == <<"sps", "pps", "idr">> \o p
H265(p) == <<"vps", "sps5", "pps", "idr">> \o p
Recordings ==
  {H264(<<>>), H264(<<"p41", "other">>) \o H264(<<"p41">>), H265(<<>>) \o H265(<<"other">>),
   H264(<<>>) \o <<"sps", "pps">>, <<"p41">> \o H264(<<>>)}

-----------------------------------------------------------------------------
ringVars == <<r_frames, r_ring, r_head, r_pending, r_args, r_rpc, r_sample,
  r_endPrev, r_todo, r_codec, r_out, r_tracked, r_fifos, r_opened,
  r_unlockers>>
tapVars == <<e_buf, e_len, e_stamp, e_storing, e_newest, e_opt, e_pc,
  e_phase, e_old, e_time, e_got, e_copied, e_before, e_at, e_out>>
readers == <<reader, vars, ringVars, tapVars>>

ReadersInit ==
  /\ reader \in {"imggrabber", "h264grabber2", "h264grabber"}
  /\ Init /\ Ring!Init /\ Tap!Init
  /\ reader # "imggrabber" => model = "generic" /\ marker = {}
  /\ reader # "h264grabber2" => r_args = OneCommand
  /\ reader # "h264grabber" => e_opt = NoSwitch

Others ==
  /\ UNCHANGED reader
  /\ reader # "imggrabber" => UNCHANGED vars
  /\ reader # "h264grabber2" => UNCHANGED ringVars
  /\ reader # "h264grabber" => UNCHANGED tapVars

ReadersNext ==
  \/ (reader = "imggrabber" /\ Next /\ Others)
  \/ (reader = "h264grabber2" /\ Ring!Next /\ Others)
  \/ (reader = "h264grabber" /\ Tap!Next /\ Others)

(* The fairness of Snapshot and of GrabberRing, for the one that runs. *)
ReadersSpec ==
  /\ ReadersInit /\ [][ReadersNext]_readers
  /\ WF_readers(reader = "imggrabber" /\ Script /\ Others)
  /\ WF_readers(reader = "imggrabber" /\ Working(Thumb) /\ Others)
  /\ WF_readers(reader = "h264grabber2" /\ Ring!Startup /\ Others)

-----------------------------------------------------------------------------
(* Every recording gets its thumbnail, or the fallback picture.            *)
ThumbnailMade == <>[](reader = "imggrabber" /\ Quiet) => <>Made

(* h264grabber2 hands on every byte of a frame the writer has not lapped.  *)
IntactUnlessLapped == Ring!IntactUnlessLapped

(* h264grabber2 hands on no frame twice, none after a later one, and no    *)
(* frame of a stream before an SPS of it.                                  *)
OrderedOutput == Ring!OrderedOutput

(* h264grabber2 skips frames only when more waited than fhs[] holds, or at *)
(* the end of the buffer.                                                  *)
LossExplained == Ring!LossExplained

(* h264grabber2 gets to its capture loop although no client opens a FIFO.  *)
CaptureStarts == Ring!CaptureStarts

(* What h264grabber writes after the first frame is one frame wherever its *)
(* samples tell frames apart, whole when no other frame came up meanwhile, *)
(* and a key frame with its IDR picture.                                   *)
WholeFrames == Tap!WholeFrames

(* h264grabber starts a stream, and closes a gap in it, with a key frame.  *)
KeyAfterGap == Tap!KeyAfterGap
=============================================================================
