------------------------------ MODULE Snapshot ------------------------------
(***************************************************************************)
(* imggrabber and one of its callers, thumb.sh.  Web requests and the      *)
(* time-lapse script run it on the camera's picture buffer, which the      *)
(* camera rewrites all the time and nothing locks: the program copies it   *)
(* until 64 sampled bytes of two copies agree.  thumb.sh runs it on the    *)
(* video of a finished recording.  Only one imggrabber may be working, and *)
(* each looks for the others in /proc before it starts.                    *)
(***************************************************************************)
EXTENDS PictureLayout, Sequences, FiniteSets, SequencesExt

CONSTANTS
  Viewer,      \* runs of snapshot.sh and time_lapse.sh
  Thumb,       \* the imggrabber thumb.sh runs
  Cells,       \* points of the picture buffer, in the order of the copy
  Sampled,     \* those the program compares
  Telling,     \* those of them where two pictures differ; at the others all look alike
  LastFrame,   \* bound: pictures the camera takes
  Video,       \* demultiplexed recordings: sequences of NAL units
  None

Proc == Viewer \cup {Thumb}
Cell == 1 .. Cells
Nal == {"vps", "sps", "sps5", "pps", "idr", "p41", "other"}

ASSUME SnapshotAssumption ==
  /\ Cells \in Nat \ {0} /\ Telling \subseteq Sampled /\ Sampled \subseteq Cell /\ LastFrame \in Nat /\ Thumb \notin Viewer
  /\ Video \subseteq Seq(Nal) \ {<<>>} /\ Half(LowW) * Half(LowH) # 0

VARIABLES
  mem, at,       \* the buffer: each point's picture; the next point to be written
  picture,       \* the picture the camera is storing, or has stored
  idle,          \* points copied since the camera last stored a telling one
  model,         \* "generic" or "h305r"
  marker,        \* of "disabled" and "low", the /tmp/snapshot.* files present
  pc, res,       \* of each process: where it is, the resolution asked for
  seen,          \* ... the processes it has looked for in /proc
  copied, check1,  \* ... bufferyuv and the sample of the copy before
  code, out,     \* ... its exit code, 1 for all the failures, and what it wrote
  scan,          \* the search of the recording
  script,        \* where thumb.sh is
  video,         \* the demultiplexed recording, None without one
  jpg            \* the thumbnail: "none", "empty", "good" or "fallback"

camera == <<mem, at, picture>>
thumb == <<script, video, jpg>>
vars == <<mem, at, picture, idle, model, marker, pc, res, seen, copied, check1, code, out,
          scan, thumb>>

-----------------------------------------------------------------------------
(* The camera stores one picture after the other, point by point.          *)
Storing == at <= Cells
Owing == \E c \in Telling : c >= at

StorePoint ==
  /\ Storing \/ picture < LastFrame
  /\ LET p == IF Storing THEN picture ELSE picture + 1
         c == IF Storing THEN at ELSE 1
     IN mem' = [mem EXCEPT ![c] = p] /\ picture' = p /\ at' = c + 1
        /\ idle' = IF c \in Telling THEN 0 ELSE idle
  /\ UNCHANGED <<model, marker, pc, res, seen, copied, check1, code, out, scan, thumb>>

(* service.sh creates and removes snapshot.disabled with the privacy mode. *)
Privacy ==
  /\ \/ marker' = marker \cup {"disabled"}
     \/ marker' = marker \ {"disabled"}
  /\ UNCHANGED <<camera, idle, model, pc, res, seen, copied, check1, code, out, scan, thumb>>

-----------------------------------------------------------------------------
(* One imggrabber.  A run that finds snapshots disabled or another run     *)
(* writes nothing and reports success.                                     *)
Shade(c, p) == IF c \in Telling THEN p ELSE 0
fillCheck(copy) == [c \in Sampled |-> Shade(c, copy[c])]
Zeros == [c \in Sampled |-> 0]

Alive(p) == pc[p] # "off"

Start(p, r) ==
  /\ pc[p] = "off"
  /\ pc' = [pc EXCEPT ![p] = "markers"] /\ res' = [res EXCEPT ![p] = r]
  /\ seen' = [seen EXCEPT ![p] = {p}] /\ out' = [out EXCEPT ![p] = None]
  /\ UNCHANGED <<camera, idle, model, marker, copied, check1, code>>

Exit(p, c, o) ==
  /\ pc' = [pc EXCEPT ![p] = "off"]
  /\ code' = [code EXCEPT ![p] = c] /\ out' = [out EXCEPT ![p] = o]
  /\ copied' = [copied EXCEPT ![p] = <<>>] /\ check1' = [check1 EXCEPT ![p] = Zeros]
  /\ seen' = [seen EXCEPT ![p] = {}] /\ UNCHANGED res

Goto(p, l) == pc' = [pc EXCEPT ![p] = l] /\ UNCHANGED <<code, out>>

Markers(p) ==
  /\ pc[p] = "markers"
  /\ IF "disabled" \in marker THEN Exit(p, 0, None)
     ELSE /\ Goto(p, "peers") /\ UNCHANGED <<seen, copied, check1>>
          /\ res' = IF "low" \in marker THEN [res EXCEPT ![p] = "low"] ELSE res

(* proc_find goes through /proc and looks at one process after the other.  *)
Look(p) ==
  /\ pc[p] = "peers"
  /\ \E q \in Proc \ seen[p] :
       IF Alive(q) THEN Exit(p, 0, None)
       ELSE /\ seen' = [seen EXCEPT ![p] = @ \cup {q}]
            /\ UNCHANGED <<pc, code, out, res, copied, check1>>

BeginUnchecked(p) ==
  /\ pc[p] = "peers"
  /\ Goto(p, IF p = Thumb THEN "open" ELSE "map") /\ UNCHANGED <<seen, res, copied, check1>>

Begin(p) ==
  /\ pc[p] = "peers" /\ seen[p] = Proc
  /\ Goto(p, IF p = Thumb THEN "open" ELSE "map") /\ UNCHANGED <<seen, res, copied, check1>>

(* The encoder's buffer is found and mapped, or one of the steps fails.    *)
Map(p) ==
  /\ pc[p] = "map"
  /\ \/ /\ Goto(p, "copy")
        /\ UNCHANGED <<seen, res, copied, check1>>
     \/ Exit(p, 1, None)

(* The camera is assumed to store a telling point within the time of one   *)
(* copy, until it has stored them all.                                     *)
CopyPoint(p) ==
  /\ pc[p] = "copy" /\ Len(copied[p]) < Cells
  /\ Owing => idle < Cells
  /\ copied' = [copied EXCEPT ![p] = Append(@, mem[Len(@) + 1])]
  /\ idle' = IF Owing THEN idle + 1 ELSE 0
  /\ UNCHANGED <<pc, code, out, seen, res, check1>>

Layout(p) == IF res[p] = "low" THEN "low" ELSE IF model = "h305r" THEN "blocked" ELSE "tiled"

CompareOnce(p) ==
  /\ pc[p] = "copy" /\ Len(copied[p]) = Cells
  /\ Exit(p, 0, [layout |-> Layout(p), from |-> copied[p]])

(* The memcmp of the loop: copy again, or convert and compress.            *)
Compare(p) ==
  /\ pc[p] = "copy" /\ Len(copied[p]) = Cells
  /\ IF check1[p] # fillCheck(copied[p])
     THEN /\ check1' = [check1 EXCEPT ![p] = fillCheck(copied[p])]
          /\ copied' = [copied EXCEPT ![p] = <<>>]
          /\ UNCHANGED <<pc, code, out, seen, res>>
     ELSE Exit(p, 0, [layout |-> Layout(p), from |-> copied[p]])

-----------------------------------------------------------------------------
(* The video of a recording: where the last picture that can be decoded on *)
(* its own begins, and the parameter sets before it.  A position is the    *)
(* number of a NAL unit, 0 when none was found; f goes on at the unit the  *)
(* second search stopped at.                                               *)
NotFound == [f |-> 1, vs |-> 0, ve |-> 0, ss |-> 0, se |-> 0, ps |-> 0, pe |-> 0, is |-> 0]

FirstAt(v, from, kinds) ==
  IF \E n \in from .. Len(v) : v[n] \in kinds
  THEN CHOOSE n \in from .. Len(v) : v[n] \in kinds /\ \A m \in from .. n - 1 : v[m] \notin kinds
  ELSE Len(v) + 1

NextStepPast(j) == j + 1
NextStep(j) == j

ScanOnce(v, s) ==
  LET i == FirstAt(v, s.f, Nal \ {"other"})
      j == FirstAt(v, i + 1, {"sps5", "pps", "idr"})
      is(n, kinds) == n <= Len(v) /\ v[n] \in kinds
  IN [f  |-> NextStep(j),
      vs |-> IF is(i, {"vps", "p41"}) THEN i ELSE s.vs,
      ss |-> IF is(i, {"sps", "sps5"}) THEN i ELSE s.ss,
      ps |-> IF is(i, {"pps"}) THEN i ELSE s.ps,
      is |-> IF is(i, {"idr"}) THEN i ELSE s.is,
      ve |-> IF is(j, {"sps5"}) THEN j ELSE s.ve,
      se |-> IF is(j, {"pps"}) THEN j ELSE s.se,
      pe |-> IF is(j, {"idr"}) THEN j ELSE s.pe]

Found(s) == s.ss > 0 /\ s.ps > 0 /\ s.is > 0 /\ s.se > s.ss /\ s.pe > s.ps
Hevc(s) == s.vs > 0 /\ s.ve > s.vs
Packet(v, s) ==
  (IF Hevc(s) THEN SubSeq(v, s.vs, s.ve - 1) ELSE <<>>)
    \o SubSeq(v, s.ss, s.se - 1) \o SubSeq(v, s.ps, s.pe - 1) \o SubSeq(v, s.is, Len(v))

OpenVideo ==
  /\ pc[Thumb] = "open"
  /\ IF video = None THEN Exit(Thumb, 1, None) /\ UNCHANGED scan
     ELSE Goto(Thumb, "scan") /\ scan' = NotFound /\ UNCHANGED <<seen, res, copied, check1>>

Scan ==
  /\ pc[Thumb] = "scan" /\ scan.f <= Len(video)
  /\ scan' = ScanOnce(video, scan)
  /\ UNCHANGED <<pc, code, out, seen, res, copied, check1>>

(* The size of the decoded frame is the video's; a larger one than the     *)
(* picture buffer is refused, and so is what the decoder cannot decode.    *)
Scanned == pc[Thumb] = "scan" /\ video # None /\ scan.f > Len(video)

Decode ==
  /\ Scanned
  /\ IF ~Found(scan) THEN Exit(Thumb, 1, None)
     ELSE \/ \E size \in {"smaller", "fits"} : Exit(Thumb, 0, [layout |-> size])
          \/ Exit(Thumb, 1, None)
  /\ scan' = NotFound

Grab(p) ==
  \/ Markers(p) \/ Look(p) \/ Begin(p) \/ Compare(p)
  \/ Map(p)

Working(p) ==
  /\ UNCHANGED <<camera, model, marker, thumb>>
  /\ \/ (CopyPoint(p) /\ UNCHANGED scan)
     \/ (Grab(p) /\ UNCHANGED <<idle, scan>>)
     \/ (p = Thumb /\ (OpenVideo \/ Scan \/ Decode) /\ UNCHANGED idle)

Request(v) ==
  /\ \E r \in {"low", "high"} : Start(v, r)
  /\ UNCHANGED <<scan, thumb>>

-----------------------------------------------------------------------------
(* thumb.sh, for one recording, every 45 seconds.                          *)
Keep == UNCHANGED <<camera, idle, model, marker, res, seen, copied, check1, code, out, scan, pc>>

ListKept ==
  /\ script = "list"
  /\ script' = IF jpg = "none" THEN "demux" ELSE "list"
  /\ UNCHANGED <<jpg, video>> /\ Keep

List ==
  /\ script = "list"
  /\ script' = IF jpg = "none" THEN "demux" ELSE "list"
  /\ jpg' = IF jpg = "empty" THEN "none" ELSE jpg
  /\ UNCHANGED video /\ Keep

Demux ==
  /\ script = "demux" /\ script' = "run"
  /\ video' \in Video \cup {None}
  /\ UNCHANGED jpg /\ Keep

Run ==
  /\ script = "run" /\ script' = "wait" /\ jpg' = "empty"
  /\ Start(Thumb, "low") /\ UNCHANGED <<video, scan>>

Fallback == "fallback"

Wait ==
  /\ script = "wait" /\ ~Alive(Thumb) /\ script' = "list"
  /\ jpg' = IF code[Thumb] # 0 THEN Fallback ELSE IF out[Thumb] # None THEN "good" ELSE jpg
  /\ video' = None /\ Keep

Script == List \/ Demux \/ Run \/ Wait

-----------------------------------------------------------------------------
Init ==
  /\ mem = [c \in Cell |-> 0] /\ at = Cells + 1 /\ picture = 0 /\ idle = 0
  /\ model \in {"generic", "h305r"} /\ marker \in SUBSET {"disabled", "low"}
  /\ pc = [p \in Proc |-> "off"] /\ res = [p \in Proc |-> "high"]
  /\ seen = [p \in Proc |-> {}]
  /\ copied = [p \in Proc |-> <<>>] /\ check1 = [p \in Proc |-> Zeros]
  /\ code = [p \in Proc |-> 0] /\ out = [p \in Proc |-> None]
  /\ script = "list" /\ video = None /\ jpg = "none" /\ scan = NotFound

Next ==
  \/ StorePoint \/ Privacy \/ Script
  \/ \E v \in Viewer : Request(v)
  \/ \E p \in Proc : Working(p)

(* The scheduler runs every process.                                       *)
Fairness == WF_vars(Script) /\ WF_vars(Working(Thumb))
Spec == Init /\ [][Next]_vars /\ Fairness

-----------------------------------------------------------------------------
Busy(p) == pc[p] \in {"map", "copy", "open", "scan"}

(* At most one imggrabber gets past the look into /proc, whatever the      *)
(* order in which several of them are started and look (lines 418-459 and  *)
(* 652-657): no two copy the buffer, or decode, at the same time.          *)
OneCapture ==
  \A p, q \in Proc : Busy(p) /\ Busy(q) => p = q

(* A snapshot is one picture at every sampled point that tells pictures    *)
(* apart, though the buffer is not locked, and no part in front of the     *)
(* last such point is older than that picture (lines 478-485, 725-735), as *)
(* long as the camera stores such a point within the time of one copy.     *)
(* Between the points a newer picture may show, behind the last one also   *)
(* an older: nothing compares these bytes.                                 *)
SnapshotCoherent ==
  \A v \in Viewer : out[v] # None =>
    \A i \in Telling :
      /\ \A j \in Telling : out[v].from[i] = out[v].from[j]
      /\ \A c \in 1 .. i : out[v].from[c] >= out[v].from[i]

(* Every pixel of a snapshot comes from the place the camera keeps it at,  *)
(* in each of the three buffer layouts and for a decoded video of the      *)
(* buffer's size: the conversions in place (lines 94-203, 737-752)  never  *)
(* overwrite what they still have to read.                                 *)
Agree(w, h, buf, At(_, _)) ==
  LET pixels == Jpeg(buf, w, h) IN \A d \in DOMAIN pixels : pixels[d] = At(d[1], d[2])

RightLayout ==
  [tiled   |-> Agree(Wd, Ht, img2YUV(Camera(HighSize)), TiledAt),
   blocked |-> Agree(Wd, Ht, img2YUV_2(Camera(HighSize)), BlockedAt),
   low     |-> Agree(LowW, LowH, lowYUV(Camera(LowSize)), LowAt),
   fits    |-> Agree(LowW, LowH, Decoded(LowW, LowH, LowW, LowH), LAMBDA x, y : DecodedAt(LowW, LowH, x, y))]

RightPixels ==
  \A p \in Proc : out[p] # None /\ out[p].layout # "smaller" => RightLayout[out[p].layout]

(* Of a recording that consists of whole groups of pictures the decoder    *)
(* gets, for the right codec, parameter sets first and the last key        *)
(* picture directly behind its own picture parameters (lines 793-889).     *)
Group(v, i, j) ==
  LET is(head, rest) == /\ i + Len(head) - 1 <= j
                        /\ SubSeq(v, i, i + Len(head) - 1) = head
                        /\ \A n \in i + Len(head) .. j : v[n] \in rest
  IN is(<<"sps", "pps", "idr">>, {"p41", "other"}) \/ is(<<"vps", "sps5", "pps", "idr">>, {"other"})

Heads(v) == {n \in DOMAIN v : v[n] = v[1]}
WholeGroups(v) ==
  /\ v[1] \in {"sps", "vps"}
  /\ \A i \in Heads(v) : Group(v, i, IF \E h \in Heads(v) : h > i
                                      THEN FirstAt(v, i + 1, {v[1]}) - 1 ELSE Len(v))

LastKey(v) == CHOOSE n \in DOMAIN v : v[n] = "idr" /\ \A m \in n + 1 .. Len(v) : v[m] # "idr"

KeyPicture ==
  Scanned /\ WholeGroups(video) =>
    LET pk == Packet(video, scan)
    IN /\ Found(scan) /\ Hevc(scan) = (video[1] = "vps") /\ pk[1] = video[1]
       /\ IsSuffix(SubSeq(video, LastKey(video) - 1, Len(video)), pk)

Quiet == marker \subseteq {"low"} /\ \A v \in Viewer : ~Alive(v)
Made == jpg \in {"good", "fallback"}

(* Every recording gets its thumbnail, or the fallback picture, once other *)
(* snapshots stop coming in between: an empty file left by a refused run   *)
(* is removed and made again (thumb.sh lines 85-114).                      *)
ThumbMade == <>[]Quiet => <>Made
=============================================================================
