-------------------------- MODULE GrabberRingProofs --------------------------
(* Proofs about GrabberRing, for a ring of any size, any frames up to the  *)
(* length that fits, any FhsSize and any command lines.                    *)
EXTENDS MCFrameReaders, SequenceTheorems, FiniteSetTheorems, TLAPS

(* Where the y-th cell that is written lies in the ring.                   *)
Slot(y) == y % RingSize

(* pos: how many cells were written before each frame, and before the next *)
(* one.  A frame is where that number is in the ring.                      *)
Positions(pos) ==
  /\ pos \in [1 .. Len(r_frames) + 1 -> Nat] /\ pos[1] = 0
  /\ \A k \in 1 .. Len(r_frames) : /\ pos[k + 1] = pos[k] + 1 + r_frames[k].len
                                   /\ r_frames[k].at = Slot(pos[k])
  /\ \A j, k \in 1 .. Len(r_frames) + 1 : j < k => pos[j] < pos[k]

RingTypes ==
  /\ r_frames \in Seq([at : 0 .. RingSize - 1, len : 1 .. MaxLen]) /\ Len(r_frames) <= Len(Kind)
  /\ \A k \in 1 .. Len(r_frames) : Kind[k].sps => r_frames[k].len >= 2
  /\ r_pending \subseteq {"payload", "idx", "len", "pos"} /\ (r_frames = <<>> => r_pending = {})
  /\ DOMAIN r_ring = 0 .. RingSize - 1
  /\ r_head \in [idx : 0 .. RingSize - 1, len : 0 .. RingSize, pos : 0 .. RingSize - 1]

(* The ring holds the cells stored last, as many as it has.                *)
StoredTo(pos) == IF "payload" \in r_pending THEN pos[Len(r_frames)] + 1 ELSE pos[Len(r_frames) + 1]
InRing(pos, y) == y < StoredTo(pos) /\ y >= StoredTo(pos) - RingSize
CellsHold(pos) ==
  \A k \in 1 .. Len(r_frames) : \A c \in 0 .. r_frames[k].len :
    InRing(pos, pos[k] + c) => r_ring[Slot(pos[k] + c)] = <<k, c>>
CellsFrom(pos) ==
  \A x \in 0 .. RingSize - 1 : r_ring[x] # None =>
    \E k \in 1 .. Len(r_frames) : \E c \in 0 .. r_frames[k].len :
      r_ring[x] = <<k, c>> /\ Slot(pos[k] + c) = x /\ InRing(pos, pos[k] + c)

(* The third word is the end of the last frame, or still its beginning.    *)
HeadPos(pos) ==
  r_head.pos = Slot(IF "pos" \in r_pending THEN pos[Len(r_frames)] ELSE pos[Len(r_frames) + 1])

WriterInv(pos) == Positions(pos) /\ RingTypes /\ CellsHold(pos) /\ CellsFrom(pos) /\ HeadPos(pos)

Header == [at : 0 .. RingSize, frame : Nat, len : Nat, stream : Ring!Stream, sps : BOOLEAN,
           followed : BOOLEAN]
Handed == [frame : Nat, stream : Ring!Stream, sps : BOOLEAN, whole : BOOLEAN, live : BOOLEAN]
ReaderTypes ==
  /\ r_args \in Invocation /\ DOMAIN r_codec = Ring!VideoStream
  /\ r_sample \in [idx : 0 .. RingSize - 1, end : 0 .. RingSize - 1] /\ r_endPrev \in 0 .. RingSize
  /\ r_tracked \in 0 .. Len(r_frames) + 1
  /\ r_todo \in Seq(Header) /\ (r_rpc # "write" => r_todo = <<>>)
  /\ r_out \in Seq(Handed)
  /\ (r_rpc \in {"start", "fifos", "first idx", "first len"} => r_out = <<>>)

(* The frame tracked is where the reader goes on.                          *)
Tracking(pos) == r_tracked # 0 => Slot(pos[r_tracked]) = Slot(r_endPrev)

(* A header that was followed to is that of its frame, and of none of the  *)
(* last; the frames still to be written are in order, before the tracked.  *)
Followed(pos) ==
  \A i \in DOMAIN r_todo : r_todo[i].followed =>
    LET h == r_todo[i] IN
    /\ h.frame \in 1 .. Len(r_frames) - 1 /\ h.len = r_frames[h.frame].len
    /\ h.sps = Kind[h.frame].sps /\ Slot(pos[h.frame]) = Slot(h.at)
    /\ r_tracked # 0 => h.frame < r_tracked
    /\ \A j \in DOMAIN r_todo : i < j /\ r_todo[j].followed => h.frame < r_todo[j].frame

(* The frames written are behind them.                                     *)
Behind ==
  \A i \in DOMAIN r_out : r_out[i].live =>
    /\ r_out[i].frame < Len(r_frames)
    /\ r_tracked # 0 => r_out[i].frame < r_tracked
    /\ \A j \in DOMAIN r_todo : r_todo[j].followed => r_out[i].frame < r_todo[j].frame

(* An old header at the sampled end is taken for the next frame only if    *)
(* the next frame begins there indeed.                                     *)
EndAhead(pos) ==
  r_rpc = "parse" =>
    \A k \in 1 .. Len(r_frames) : \A i \in DOMAIN r_out :
      Ring!Live(k) /\ Slot(pos[k]) = r_sample.end /\ r_out[i].live /\ k <= r_out[i].frame
        => Slot(pos[Len(r_frames) + 1]) = r_sample.end

(* A stream whose type is known and that is asked for has had its SPS.     *)
Begun ==
  \A s \in Ring!VideoStream : r_codec[s] # None /\ s \in r_args.wanted =>
    \E j \in DOMAIN r_out : r_out[j].stream = s /\ r_out[j].sps

ReaderInv(pos) ==
  /\ ReaderTypes /\ Tracking(pos) /\ Followed(pos) /\ Behind /\ EndAhead(pos) /\ Begun
  /\ Ring!OrderedOutput /\ Ring!IntactUnlessLapped
RingInv == \E pos \in [1 .. Len(r_frames) + 1 -> Nat] : WriterInv(pos) /\ ReaderInv(pos)
-----------------------------------------------------------------------------
LEMMA RingSizes ==
  ASSUME Ring!RingConstants
  PROVE  /\ RingSize \in Nat \ {0} /\ FhsSize \in Nat \ {0}
         /\ MaxLen \in Nat /\ MaxLen < RingSize
BY DEF Ring!RingConstants

(* Remainders: a number below the divisor keeps its remainder under a      *)
(* multiple of the divisor.                                                *)
LEMMA TurnBounds ==
  ASSUME NEW C \in Nat \ {0}, NEW k \in Int
  PROVE  (k >= 1 => k * C >= C) /\ (k <= -1 => k * C <= -C)
<1>1. k >= 1 => k * C >= C
  OBVIOUS
<1>2. k <= -1 => k * C <= -C
  OBVIOUS
<1>3. QED
  BY <1>1, <1>2

LEMMA Remainder ==
  ASSUME NEW C \in Nat \ {0}, NEW q \in Int, NEW s \in 0 .. C - 1
  PROVE  (q * C + s) % C = s
<1> DEFINE y == q * C + s
           p == y \div C
           r == y % C
<1>1. y \in Int /\ p \in Int /\ r \in 0 .. C - 1 /\ y = p * C + r
  OBVIOUS
<1>2. (p - q) * C = s - r
  <2>1. (p - q) * C = p * C - q * C
    BY <1>1
  <2>2. QED
    BY <1>1, <2>1
<1> HIDE DEF p, r
<1>3. (p - q) * C < C /\ (p - q) * C > -C
  BY <1>1, <1>2
<1>4. p - q \in Int /\ p - q = 0
  BY <1>1, <1>3, TurnBounds
<1>5. (p - q) * C = 0
  BY <1>4
<1>6. QED
  BY <1>1, <1>2, <1>5 DEF r

(* What a position in the ring is, and what the next ones are.             *)
LEMMA CellIn ==
  ASSUME Ring!RingConstants, NEW y \in Nat
  PROVE  Slot(y) \in 0 .. RingSize - 1
<1>1. RingSize \in Nat \ {0}
  BY RingSizes
<1>2. QED
  BY <1>1 DEF Slot

LEMMA CellSmall ==
  ASSUME Ring!RingConstants
  PROVE  (\A x \in 0 .. RingSize - 1 : Slot(x) = x) /\ Slot(RingSize) = 0
<1>1. RingSize \in Nat \ {0}
  BY RingSizes
<1>2. QED
  BY <1>1 DEF Slot

LEMMA CellAdd ==
  ASSUME Ring!RingConstants, NEW y \in Nat, NEW c \in 0 .. RingSize
  PROVE  Slot(y + c) = IF Slot(y) + c >= RingSize THEN Slot(y) + c - RingSize ELSE Slot(y) + c
<1> DEFINE C == RingSize
           q == y \div C
           r == y % C
<1>1. C \in Nat \ {0} /\ q \in Int /\ r \in 0 .. C - 1 /\ y = q * C + r /\ c \in 0 .. C
  <2>1. C \in Nat \ {0}
    BY RingSizes
  <2> HIDE DEF C
  <2>2. q \in Int /\ r \in 0 .. C - 1 /\ y = q * C + r
    BY <2>1
  <2>3. QED
    BY <2>1, <2>2 DEF C
<1>2. Slot(y) = r
  BY DEF Slot
<1> HIDE DEF q, r
<1>3. CASE r + c < C
  <2>1. (q * C + (r + c)) % C = r + c
    BY <1>1, <1>3, Remainder
  <2>2. Slot(y + c) = r + c
    BY <1>1, <2>1 DEF Slot
  <2>3. QED
    BY <1>1, <1>2, <1>3, <2>2
<1>4. CASE r + c >= C
  <2>1. ((q + 1) * C + (r + c - C)) % C = r + c - C
    <3>1. q + 1 \in Int /\ r + c - C \in 0 .. C - 1
      BY <1>1, <1>4
    <3>2. QED
      BY <1>1, <3>1, Remainder
  <2>2. (q + 1) * C = q * C + C
    BY <1>1
  <2>3. y + c = (q + 1) * C + (r + c - C)
    BY <1>1, <2>2
  <2>4. Slot(y + c) = r + c - C
    BY <2>1, <2>3 DEF Slot
  <2>5. QED
    BY <1>2, <1>4, <2>4
<1>5. QED
  BY <1>1, <1>3, <1>4

LEMMA CellSame ==
  ASSUME Ring!RingConstants, NEW x \in Nat, NEW y \in Nat, x <= y, y < x + RingSize,
         Slot(x) = Slot(y)
  PROVE  x = y
<1> DEFINE d == y - x
<1>1. RingSize \in Nat \ {0} /\ d \in 0 .. RingSize - 1 /\ y = x + d /\ d \in 0 .. RingSize
  BY RingSizes
<1> HIDE DEF d
<1>2. Slot(x + d) = IF Slot(x) + d >= RingSize THEN Slot(x) + d - RingSize ELSE Slot(x) + d
  BY <1>1, CellAdd
<1>3. Slot(x) \in 0 .. RingSize - 1
  BY CellIn
<1>4. d = 0
  BY <1>1, <1>2, <1>3
<1>5. QED
  BY <1>1, <1>4

(* The cell n further, from a cell.                                        *)
LEMMA CellNext ==
  ASSUME Ring!RingConstants, NEW y \in Nat, NEW c \in 0 .. RingSize
  PROVE  Slot(Slot(y) + c) = Slot(y + c)
<1>1. RingSize \in Nat \ {0} /\ Slot(y) \in 0 .. RingSize - 1
  BY RingSizes, CellIn
<1>2. Slot(Slot(y)) = Slot(y)
  BY <1>1, CellSmall
<1>3. Slot(y) \in Nat
  BY <1>1
<1>4. Slot(Slot(y) + c) = IF Slot(Slot(y)) + c >= RingSize
                          THEN Slot(Slot(y)) + c - RingSize ELSE Slot(Slot(y)) + c
  BY <1>3, CellAdd
<1>5. QED
  BY <1>2, <1>4, CellAdd

LEMMA CellTurn ==
  ASSUME Ring!RingConstants, NEW y \in Nat
  PROVE  Slot(y + RingSize) = Slot(y)
<1>1. RingSize \in Nat \ {0} /\ RingSize \in 0 .. RingSize /\ Slot(y) \in 0 .. RingSize - 1
  BY RingSizes, CellIn
<1>2. Slot(y + RingSize) = IF Slot(y) + RingSize >= RingSize THEN Slot(y) + RingSize - RingSize
                           ELSE Slot(y) + RingSize
  BY <1>1, CellAdd
<1>3. QED
  BY <1>1, <1>2

-----------------------------------------------------------------------------
(* What the numbering of the cells says of the frames.                     *)
LEMMA Positioned ==
  ASSUME Ring!RingConstants, NEW pos, Positions(pos), RingTypes
  PROVE  /\ Len(r_frames) \in Nat
         /\ \A k \in 1 .. Len(r_frames) + 1 : pos[k] \in Nat /\ Ring!At(k) = Slot(pos[k])
         /\ \A k \in 1 .. Len(r_frames) :
              /\ r_frames[k].len \in 1 .. MaxLen /\ r_frames[k].at = Slot(pos[k])
              /\ pos[k + 1] \in Nat /\ pos[k + 1] = pos[k] + 1 + r_frames[k].len
              /\ pos[k + 1] <= pos[Len(r_frames) + 1]
              /\ k < Len(r_frames) => pos[k + 1] <= pos[Len(r_frames)]
<1> DEFINE L == Len(r_frames)
<1>1. /\ L \in Nat /\ RingSize \in Nat \ {0} /\ MaxLen \in Nat /\ MaxLen < RingSize
      /\ \A k \in 1 .. L : r_frames[k].len \in 1 .. MaxLen
  <2> DEFINE S == [at : 0 .. RingSize - 1, len : 1 .. MaxLen]
  <2>1. r_frames \in Seq(S)
    BY DEF RingTypes
  <2>2. \A f \in S : f.len \in 1 .. MaxLen
    OBVIOUS
  <2> HIDE DEF S
  <2>3. L \in Nat /\ \A k \in 1 .. L : r_frames[k] \in S
    BY <2>1
  <2>4. QED
    BY <2>2, <2>3, RingSizes
<1>2. /\ \A k \in 1 .. L + 1 : pos[k] \in Nat
      /\ \A k \in 1 .. L : pos[k + 1] = pos[k] + 1 + r_frames[k].len
         /\ r_frames[k].at = Slot(pos[k])
      /\ \A j, k \in 1 .. L + 1 : j < k => pos[j] < pos[k]
      /\ pos[1] = 0
  BY DEF Positions
<1>3. ASSUME NEW k \in 1 .. L PROVE Ring!At(k) = Slot(pos[k])
  BY <1>1, <1>2, <1>3 DEF Ring!At
<1>4. Ring!At(L + 1) = Slot(pos[L + 1])
  <2>1. CASE r_frames = <<>>
    <3>1. L = 0
      BY <2>1
    <3>2. Ring!At(L + 1) = 0
      BY <2>1, <3>1 DEF Ring!At
    <3>3. Slot(0) = 0
      BY <1>1, CellSmall
    <3>4. QED
      BY <1>2, <3>1, <3>2, <3>3
  <2>2. CASE r_frames # <<>>
    <3>1. L \in 1 .. L /\ ~(L + 1 <= L) /\ (L + 1) - 1 = L
      BY <1>1, <2>2, EmptySeq DEF RingTypes
    <3>2. Ring!At(L + 1) = Slot(r_frames[L].at + 1 + r_frames[L].len)
      BY <2>2, <3>1 DEF Ring!At, Slot
    <3>3. r_frames[L].at = Slot(pos[L]) /\ pos[L] \in Nat /\ r_frames[L].len \in 1 .. MaxLen
      BY <1>1, <1>2, <3>1
    <3> DEFINE n == 1 + r_frames[L].len
               a == r_frames[L].at
               z == r_frames[L].len
    <3>4. n \in 0 .. RingSize
      BY <1>1, <3>3
    <3>5. Slot(Slot(pos[L]) + n) = Slot(pos[L] + n)
      BY <3>3, <3>4, CellNext
    <3>6. a \in Nat /\ z \in Nat /\ a + 1 + z = a + (1 + z) /\ pos[L] + 1 + z = pos[L] + (1 + z)
      <4>1. a \in Nat
        <5>1. Slot(pos[L]) \in 0 .. RingSize - 1
          BY <3>3, CellIn
        <5>2. QED
          BY <1>1, <3>3, <5>1
      <4>2. z \in Nat
        BY <3>3
      <4> HIDE DEF a, z
      <4>3. QED
        BY <4>1, <4>2, <3>3
    <3>7. pos[L + 1] = pos[L] + 1 + z
      BY <1>2, <3>1
    <3>8. QED
      BY <3>2, <3>3, <3>5, <3>6, <3>7
  <2>3. QED
    BY <2>1, <2>2
<1>5. ASSUME NEW k \in 1 .. L
      PROVE  /\ pos[k + 1] \in Nat /\ pos[k + 1] <= pos[L + 1]
             /\ k < L => pos[k + 1] <= pos[L]
  <2>1. k + 1 \in 1 .. L + 1 /\ L + 1 \in 1 .. L + 1 /\ L \in 1 .. L + 1
    BY <1>1
  <2>2. pos[k + 1] \in Nat /\ pos[L + 1] \in Nat /\ pos[L] \in Nat
    BY <1>2, <2>1
  <2>3. k + 1 < L + 1 => pos[k + 1] < pos[L + 1]
    BY <1>2, <2>1
  <2>4. k + 1 < L => pos[k + 1] < pos[L]
    BY <1>2, <2>1
  <2>5. k + 1 = L + 1 \/ k + 1 < L + 1
    BY <1>1
  <2>6. k < L => k + 1 = L \/ k + 1 < L
    BY <1>1
  <2> HIDE DEF L
  <2>7. QED
    BY <2>2, <2>3, <2>4, <2>5, <2>6
<1> HIDE DEF L
<1>6. \A k \in 1 .. L + 1 : k \in 1 .. L \/ k = L + 1
  BY <1>1
<1>7. \A k \in 1 .. L + 1 : pos[k] \in Nat /\ Ring!At(k) = Slot(pos[k])
  BY <1>2, <1>3, <1>4, <1>6
<1>8. QED
  BY <1>1, <1>2, <1>5, <1>7 DEF L

(* The last frame there is, when the writer has something to store.        *)
LEMMA LastBegun ==
  ASSUME RingTypes, r_pending # {}
  PROVE  Len(r_frames) \in 1 .. Len(r_frames)
<1> DEFINE S == [at : 0 .. RingSize - 1, len : 1 .. MaxLen]
<1>1. r_frames \in Seq(S) /\ r_frames # <<>>
  BY DEF RingTypes
<1> HIDE DEF S
<1>2. Len(r_frames) \in Nat /\ Len(r_frames) # 0
  BY <1>1, EmptySeq
<1>3. QED
  BY <1>2

(* The ring holds what was stored last.                                    *)
LEMMA Bounds ==
  ASSUME Ring!RingConstants, NEW pos, Positions(pos), RingTypes
  PROVE  /\ StoredTo(pos) \in Nat /\ StoredTo(pos) <= pos[Len(r_frames) + 1]
         /\ Len(r_frames) >= 1 => StoredTo(pos) >= pos[Len(r_frames)] + 1
<1> DEFINE L == Len(r_frames)
<1>1. L \in Nat /\ pos[L + 1] \in Nat
  <2>1. L \in Nat
    BY Positioned
  <2>2. L + 1 \in 1 .. L + 1
    BY <2>1
  <2>3. QED
    BY <2>1, <2>2, Positioned
<1>2. L >= 1 => pos[L] \in Nat /\ pos[L + 1] >= pos[L] + 1
  <2>1. SUFFICES ASSUME L >= 1 PROVE pos[L] \in Nat /\ pos[L + 1] >= pos[L] + 1
    OBVIOUS
  <2>2. L \in 1 .. L /\ L \in 1 .. L + 1
    BY <1>1, <2>1
  <2>3. pos[L] \in Nat /\ r_frames[L].len \in 1 .. MaxLen
        /\ pos[L + 1] = pos[L] + 1 + r_frames[L].len
    BY <2>2, Positioned
  <2>4. QED
    BY <2>3, RingSizes
<1>3. "payload" \in r_pending => L >= 1
  BY LastBegun, <1>1
<1> HIDE DEF L
<1>4. StoredTo(pos) = IF "payload" \in r_pending THEN pos[L] + 1 ELSE pos[L + 1]
  BY DEF StoredTo, L
<1>5. QED
  BY <1>1, <1>2, <1>3, <1>4 DEF L

-----------------------------------------------------------------------------
(* A frame is begun: its position is where the cells written so far end.   *)
Longer(pos, len) ==
  [k \in 1 .. Len(r_frames) + 2 |-> IF k = Len(r_frames) + 2 THEN pos[Len(r_frames) + 1] + 1 + len
    ELSE pos[k]]

LEMMA BeginFrames ==
  ASSUME Ring!RingConstants, NEW pos, Positions(pos), RingTypes, NEW len \in 1 .. MaxLen,
         Ring!Begin(len)
  PROVE  LET L == Len(r_frames) IN
         /\ L \in Nat /\ Len(r_frames') = L + 1 /\ L + 1 <= Len(Kind) /\ r_pending = {}
         /\ \A k \in 1 .. L : r_frames'[k] = r_frames[k]
         /\ r_frames'[L + 1] = [at |-> Slot(pos[L + 1]), len |-> len]
         /\ pos[L + 1] \in Nat /\ Ring!At(L + 1) = Slot(pos[L + 1])
         /\ r_frames' \in Seq([at : 0 .. RingSize - 1, len : 1 .. MaxLen])
<1> DEFINE L == Len(r_frames)
           f == [at |-> Slot(pos[L + 1]), len |-> len]
           S == [at : 0 .. RingSize - 1, len : 1 .. MaxLen]
<1>1. L \in Nat /\ r_frames \in Seq(S)
  BY Positioned DEF RingTypes
<1>2. pos[L + 1] \in Nat /\ Ring!At(L + 1) = Slot(pos[L + 1])
  <2>1. L + 1 \in 1 .. L + 1
    BY <1>1
  <2>2. QED
    BY <2>1, Positioned
<1>3. f \in S
  BY <1>2, CellIn
<1>4. r_frames' = Append(r_frames, f) /\ L + 1 \in Ring!FrameNo /\ r_pending = {}
  BY <1>2 DEF Ring!Begin
<1>5. L + 1 <= Len(Kind)
  BY <1>4 DEF Ring!FrameNo
<1> HIDE DEF f, S
<1>6. /\ r_frames' \in Seq(S) /\ Len(r_frames') = L + 1
      /\ \A k \in 1 .. L : r_frames'[k] = r_frames[k]
      /\ r_frames'[L + 1] = f
  BY <1>1, <1>3, <1>4
<1>7. QED
  BY <1>1, <1>2, <1>4, <1>5, <1>6 DEF f, S

LEMMA BeginPositions ==
  ASSUME Ring!RingConstants, NEW pos, Positions(pos), RingTypes, NEW len \in 1 .. MaxLen,
         Ring!Begin(len),
         NEW q, q = Longer(pos, len)
  PROVE  Positions(q)' /\ Len(r_frames') = Len(r_frames) + 1
         /\ \A k \in 1 .. Len(r_frames) + 1 : q[k] = pos[k]
<1> DEFINE L == Len(r_frames)
           z == pos[L + 1] + 1 + len
<1>1. /\ L \in Nat /\ Len(r_frames') = L + 1
      /\ \A k \in 1 .. L : r_frames'[k] = r_frames[k]
      /\ r_frames'[L + 1] = [at |-> Slot(pos[L + 1]), len |-> len]
      /\ pos[L + 1] \in Nat
  BY BeginFrames
<1>2. /\ pos \in [1 .. L + 1 -> Nat] /\ pos[1] = 0
      /\ \A k \in 1 .. L : /\ pos[k + 1] = pos[k] + 1 + r_frames[k].len
                           /\ r_frames[k].at = Slot(pos[k])
      /\ \A j, k \in 1 .. L + 1 : j < k => pos[j] < pos[k]
  BY DEF Positions
<1>3. len \in Nat /\ len >= 1 /\ z \in Nat /\ z > pos[L + 1] /\ z = pos[L + 1] + 1 + len
  BY <1>1, RingSizes
<1>4. q = [k \in 1 .. L + 2 |-> IF k = L + 2 THEN z ELSE pos[k]]
  BY DEF Longer
<1> HIDE DEF L, z
<1>5. q \in [1 .. (L + 1) + 1 -> Nat] /\ (\A k \in 1 .. L + 1 : q[k] = pos[k]) /\ q[L + 2] = z
  BY <1>1, <1>2, <1>3, <1>4
<1>6. q[1] = 0
  BY <1>1, <1>2, <1>5
<1>7. ASSUME NEW k \in 1 .. L + 1
      PROVE  q[k + 1] = q[k] + 1 + r_frames'[k].len /\ r_frames'[k].at = Slot(q[k])
  <2>1. CASE k = L + 1
    BY <1>1, <1>3, <1>5, <2>1
  <2>2. CASE k # L + 1
    <3>1. k \in 1 .. L /\ k + 1 \in 1 .. L + 1
      BY <1>1, <2>2
    <3>2. QED
      BY <1>1, <1>2, <1>5, <3>1
  <2>3. QED
    BY <2>1, <2>2
<1>8. ASSUME NEW j \in 1 .. (L + 1) + 1, NEW k \in 1 .. (L + 1) + 1, j < k
      PROVE  q[j] < q[k]
  <2>1. j \in 1 .. L + 1 /\ q[j] = pos[j] /\ pos[j] \in Nat /\ L + 1 \in 1 .. L + 1
    BY <1>1, <1>2, <1>5, <1>8
  <2>2. pos[j] <= pos[L + 1]
    <3>1. j = L + 1 \/ j < L + 1
      BY <1>1, <2>1
    <3>2. QED
      BY <1>1, <1>2, <2>1, <3>1
  <2>3. CASE k = L + 2
    BY <1>1, <1>3, <1>5, <2>1, <2>2, <2>3
  <2>4. CASE k # L + 2
    <3>1. k \in 1 .. L + 1
      BY <1>1, <2>4
    <3>2. QED
      BY <1>2, <1>5, <1>8, <2>1, <3>1
  <2>5. QED
    BY <2>3, <2>4
<1>9. QED
  BY <1>1, <1>5, <1>6, <1>7, <1>8 DEF Positions, L

LEMMA BeginTypes ==
  ASSUME Ring!RingConstants, NEW pos, Positions(pos), RingTypes, NEW len \in 1 .. MaxLen,
         Ring!Begin(len)
  PROVE  RingTypes'
<1> DEFINE L == Len(r_frames)
<1>1. /\ L \in Nat /\ Len(r_frames') = L + 1 /\ L + 1 <= Len(Kind)
      /\ \A k \in 1 .. L : r_frames'[k] = r_frames[k]
      /\ r_frames'[L + 1].len = len
      /\ r_frames' \in Seq([at : 0 .. RingSize - 1, len : 1 .. MaxLen])
  <2>1. r_frames'[L + 1] = [at |-> Slot(pos[L + 1]), len |-> len]
    BY BeginFrames
  <2>2. r_frames'[L + 1].len = len
    BY <2>1
  <2>3. QED
    BY <2>2, BeginFrames
<1>2. /\ \A k \in 1 .. L : Kind[k].sps => r_frames[k].len >= 2
      /\ Kind[L + 1].sps => len >= 2
      /\ r_ring' = [r_ring EXCEPT ![Ring!At(L + 1)] = <<L + 1, 0>>]
      /\ r_pending' = {"payload", "idx", "len", "pos"} /\ r_head' = r_head
      /\ DOMAIN r_ring = 0 .. RingSize - 1
      /\ r_head \in [idx : 0 .. RingSize - 1, len : 0 .. RingSize, pos : 0 .. RingSize - 1]
  BY DEF Ring!Begin, RingTypes
<1> HIDE DEF L
<1>3. \A k \in 1 .. Len(r_frames') : Kind[k].sps => r_frames'[k].len >= 2
  <2>1. \A k \in 1 .. L + 1 : k \in 1 .. L \/ k = L + 1
    BY <1>1
  <2>2. QED
    BY <1>1, <1>2, <2>1
<1>4. r_frames' # <<>>
  BY <1>1
<1>5. DOMAIN r_ring' = 0 .. RingSize - 1
  BY <1>2
<1>6. r_pending' \subseteq {"payload", "idx", "len", "pos"} /\ Len(r_frames') <= Len(Kind)
  BY <1>1, <1>2
<1>7. QED
  BY <1>1, <1>2, <1>3, <1>4, <1>5, <1>6 DEF RingTypes

(* The header takes the place of the cell that was stored a whole turn ago.*)
LEMMA BeginCells ==
  ASSUME Ring!RingConstants, NEW pos, WriterInv(pos), NEW len \in 1 .. MaxLen, Ring!Begin(len),
         NEW q, q = Longer(pos, len)
  PROVE  CellsHold(q)' /\ CellsFrom(q)' /\ HeadPos(q)'
<1> DEFINE L == Len(r_frames)
           s == pos[L + 1]
<1> USE DEF WriterInv
<1>1. /\ L \in Nat /\ Len(r_frames') = L + 1 /\ s \in Nat /\ r_pending = {}
      /\ \A k \in 1 .. L : r_frames'[k] = r_frames[k] /\ q[k] = pos[k]
      /\ Ring!At(L + 1) = Slot(s) /\ q[L + 1] = s
  <2>1. /\ L \in Nat /\ Len(r_frames') = L + 1 /\ s \in Nat /\ r_pending = {}
           /\ Ring!At(L + 1) = Slot(s)
        /\ \A k \in 1 .. L : r_frames'[k] = r_frames[k]
    BY BeginFrames
  <2>2. \A k \in 1 .. L + 1 : q[k] = pos[k]
    BY BeginPositions
  <2>3. L + 1 \in 1 .. L + 1 /\ \A k \in 1 .. L : k \in 1 .. L + 1
    BY <2>1
  <2>4. QED
    BY <2>1, <2>2, <2>3
<1>2. /\ r_ring' = [r_ring EXCEPT ![Slot(s)] = <<L + 1, 0>>] /\ r_head' = r_head
      /\ DOMAIN r_ring = 0 .. RingSize - 1
      /\ "payload" \in r_pending' /\ "pos" \in r_pending' /\ "payload" \notin r_pending
         /\ "pos" \notin r_pending
  BY <1>1 DEF Ring!Begin, RingTypes
<1>3. \A y : InRing(pos, y) <=> y < s /\ y >= s - RingSize
  <2>1. StoredTo(pos) = s
    BY <1>2 DEF StoredTo
  <2>2. QED
    BY <2>1 DEF InRing
<1>4. \A y : InRing(q, y)' <=> y < s + 1 /\ y >= (s + 1) - RingSize
  <2>1. StoredTo(q)' = q[Len(r_frames')] + 1
    BY <1>2 DEF StoredTo
  <2>2. StoredTo(q)' = s + 1
    BY <1>1, <2>1
  <2>3. QED
    <3> DEFINE b == StoredTo(q)'
               t == s + 1
    <3>1. \A y : InRing(q, y)' <=> y < b /\ y >= b - RingSize
      BY DEF InRing
    <3>2. b = t
      BY <2>2
    <3> HIDE DEF b, t
    <3>3. \A y : InRing(q, y)' <=> y < t /\ y >= t - RingSize
      BY <3>1, <3>2
    <3>4. QED
      BY <3>3 DEF t
<1>5. \A k \in 1 .. L : /\ pos[k] \in Nat /\ r_frames[k].len \in 1 .. MaxLen
                        /\ pos[k] + r_frames[k].len < s
  <2>1. ASSUME NEW k \in 1 .. L
        PROVE  pos[k] \in Nat /\ r_frames[k].len \in 1 .. MaxLen /\ pos[k] + r_frames[k].len < s
    <3>1. k \in 1 .. L + 1
      BY <1>1
    <3>2. /\ pos[k] \in Nat /\ r_frames[k].len \in 1 .. MaxLen /\ pos[k + 1] \in Nat
          /\ pos[k + 1] = pos[k] + 1 + r_frames[k].len /\ pos[k + 1] <= s
      BY <3>1, Positioned
    <3> HIDE DEF s, L
    <3>3. r_frames[k].len \in Nat
      BY <3>2, RingSizes
    <3>4. QED
      BY <1>1, <3>2, <3>3
  <2>2. QED
    BY <2>1
<1>6. Slot(s) \in 0 .. RingSize - 1 /\ RingSize \in Nat \ {0} /\ MaxLen \in Nat
  BY <1>1, CellIn, RingSizes
<1>7. r_ring'[Slot(s)] = <<L + 1, 0>> /\ \A x \in 0 .. RingSize - 1 : x # Slot(s)
        => r_ring'[x] = r_ring[x]
  BY <1>2, <1>6
<1> HIDE DEF L, s
(* A cell of the last turn but the oldest is not the one taken.            *)
<1>8. ASSUME NEW y \in Nat, y < s, y >= (s + 1) - RingSize
      PROVE  Slot(y) # Slot(s) /\ Slot(y) \in 0 .. RingSize - 1
  <2>1. y <= s /\ s < y + RingSize /\ y # s
    BY <1>1, <1>6, <1>8
  <2>2. QED
    BY <1>1, <2>1, CellSame, CellIn
<1>9. CellsHold(q)'
  <2>1. SUFFICES ASSUME NEW k \in 1 .. L + 1, NEW c \in 0 .. r_frames'[k].len, InRing(q, q[k] + c)'
                 PROVE  r_ring'[Slot(q[k] + c)] = <<k, c>>
    BY <1>1 DEF CellsHold, L
  <2>2. CASE k = L + 1
    <3>1. q[k] + c < s + 1 /\ q[k] = s /\ c \in Nat
      <4>1. r_frames'[L + 1].len = len
        <5>1. r_frames'[L + 1] = [at |-> Slot(pos[L + 1]), len |-> len]
          BY BeginFrames DEF L
        <5>2. QED
          BY <5>1
      <4>2. c \in Nat
        BY <1>6, <2>2, <4>1
      <4>3. QED
        BY <1>1, <1>4, <2>1, <2>2, <4>2
    <3>2. c = 0
      BY <1>1, <3>1
    <3>3. QED
      BY <1>1, <1>7, <2>2, <3>1, <3>2
  <2>3. CASE k # L + 1
    <3>1. k \in 1 .. L /\ q[k] = pos[k] /\ r_frames'[k] = r_frames[k]
      BY <1>1, <2>3
    <3>2. pos[k] \in Nat /\ r_frames[k].len \in 1 .. MaxLen /\ pos[k] + r_frames[k].len < s
      BY <1>5, <3>1
    <3>3. pos[k] + c \in Nat /\ pos[k] + c < s /\ pos[k] + c >= (s + 1) - RingSize
          /\ c \in 0 .. r_frames[k].len
      <4>1. c \in Nat /\ c <= r_frames[k].len /\ r_frames[k].len \in Nat
            /\ c \in 0 .. r_frames[k].len
        BY <1>6, <3>1, <3>2
      <4>2. pos[k] + c >= (s + 1) - RingSize
        BY <1>4, <2>1, <3>1
      <4>3. QED
        BY <1>1, <3>2, <4>1, <4>2
    <3>4. InRing(pos, pos[k] + c)
      BY <1>1, <1>3, <1>6, <3>3
    <3>5. r_ring[Slot(pos[k] + c)] = <<k, c>>
      BY <3>1, <3>3, <3>4 DEF CellsHold, L
    <3>6. QED
      BY <1>7, <1>8, <3>1, <3>3, <3>5
  <2>4. QED
    BY <2>2, <2>3
<1>10. CellsFrom(q)'
  <2>1. SUFFICES ASSUME NEW x \in 0 .. RingSize - 1, r_ring'[x] # None
                 PROVE  \E k \in 1 .. L + 1 : \E c \in 0 .. r_frames'[k].len :
                          r_ring'[x] = <<k, c>> /\ Slot(q[k] + c) = x /\ InRing(q, q[k] + c)'
    BY <1>1 DEF CellsFrom, L
  <2>2. CASE x = Slot(s)
    <3>1. PICK k : k = L + 1
      OBVIOUS
    <3>2. k \in 1 .. L + 1 /\ 0 \in 0 .. r_frames'[k].len
      <4>1. r_frames'[L + 1] = [at |-> Slot(pos[L + 1]), len |-> len]
        BY BeginFrames DEF L
      <4>2. r_frames'[k].len = len /\ len \in Nat
        BY <1>6, <3>1, <4>1
      <4>3. QED
        BY <1>1, <3>1, <4>2
    <3>3. q[k] + 0 = s /\ InRing(q, q[k] + 0)'
      <4>1. s + 0 = s /\ s < s + 1 /\ s >= (s + 1) - RingSize
        BY <1>1, <1>6
      <4>2. QED
        BY <1>1, <1>4, <3>1, <4>1
    <3>4. r_ring'[x] = <<k, 0>> /\ Slot(q[k] + 0) = x
      BY <1>7, <2>2, <3>1, <3>3
    <3>5. QED
      BY <3>2, <3>3, <3>4
  <2>3. CASE x # Slot(s)
    <3>1. r_ring'[x] = r_ring[x]
      BY <1>7, <2>3
    <3>2. PICK k \in 1 .. L : \E c \in 0 .. r_frames[k].len :
            r_ring[x] = <<k, c>> /\ Slot(pos[k] + c) = x /\ InRing(pos, pos[k] + c)
      BY <2>1, <3>1 DEF CellsFrom, L
    <3>22. PICK c \in 0 .. r_frames[k].len :
            r_ring[x] = <<k, c>> /\ Slot(pos[k] + c) = x /\ InRing(pos, pos[k] + c)
      BY <3>2
    <3>3. k \in 1 .. L + 1 /\ q[k] = pos[k] /\ c \in 0 .. r_frames'[k].len
      BY <1>1, <3>22
    <3>4. pos[k] \in Nat /\ c \in Nat
      BY <1>5, <1>6
    <3> DEFINE y == pos[k] + c
    <3>5. y \in Nat /\ y < s /\ y >= s - RingSize /\ Slot(y) = x
      BY <1>3, <3>22, <3>4
    <3> HIDE DEF y
    <3>6. y # s - RingSize
      <4>1. SUFFICES ASSUME y = s - RingSize PROVE FALSE
        OBVIOUS
      <4>2. y + RingSize = s
        BY <1>1, <1>6, <4>1
      <4>3. QED
        BY <2>3, <3>5, <4>2, CellTurn
    <3>7. y < s + 1 /\ y >= (s + 1) - RingSize
      BY <1>1, <1>6, <3>5, <3>6
    <3>8. InRing(q, q[k] + c)'
      BY <1>4, <3>3, <3>7 DEF y
    <3>9. QED
      BY <3>1, <3>22, <3>3, <3>8
  <2>4. QED
    BY <2>2, <2>3
<1>11. HeadPos(q)'
  <2>1. r_head.pos = Slot(s)
    BY <1>2 DEF HeadPos, s, L
  <2>2. (r_head.pos)' = r_head.pos
    BY <1>2
  <2>3. QED
    BY <1>1, <1>2, <2>1, <2>2 DEF HeadPos
<1>12. QED
  BY <1>9, <1>10, <1>11

LEMMA BeginWriter ==
  ASSUME Ring!RingConstants, NEW pos, WriterInv(pos), NEW len \in 1 .. MaxLen, Ring!Begin(len),
         NEW q, q = Longer(pos, len)
  PROVE  WriterInv(q)'
<1>1. Positions(pos) /\ RingTypes
  BY DEF WriterInv
<1>2. Positions(q)' /\ RingTypes'
  BY <1>1, BeginPositions, BeginTypes
<1>3. QED
  BY <1>2, BeginCells DEF WriterInv

-----------------------------------------------------------------------------
(* The rest of a frame is stored.                                          *)
LEMMA LastOne ==
  ASSUME Ring!RingConstants, NEW pos, Positions(pos), RingTypes, NEW what, Ring!Store(what)
  PROVE  LET L == Len(r_frames) IN
         /\ L \in 1 .. L /\ L \in Nat /\ L >= 1 /\ pos[L] \in Nat /\ r_frames[L].len \in 1 .. MaxLen
         /\ r_frames[L].at = Slot(pos[L]) /\ pos[L + 1] = pos[L] + 1 + r_frames[L].len
         /\ Slot(pos[L] + (1 + r_frames[L].len)) = (r_frames[L].at + 1 + r_frames[L].len) % RingSize
<1> DEFINE L == Len(r_frames)
           z == r_frames[L].len
           a == r_frames[L].at
<1>1. L \in 1 .. L /\ L \in Nat
  <2>1. r_pending # {}
    BY DEF Ring!Store
  <2>2. QED
    BY <2>1, LastBegun, Positioned
<1>2. L >= 1 /\ L \in 1 .. L + 1
  BY <1>1
<1>3. pos[L] \in Nat /\ z \in 1 .. MaxLen /\ a = Slot(pos[L]) /\ pos[L + 1] = pos[L] + 1 + z
  BY <1>1, <1>2, Positioned
<1>4. z \in Nat /\ 1 + z \in 0 .. RingSize /\ a \in Nat
  <2>1. Slot(pos[L]) \in 0 .. RingSize - 1
    BY <1>3, CellIn
  <2> HIDE DEF z, a, L
  <2>2. QED
    BY <1>3, <2>1, RingSizes
<1>5. Slot(Slot(pos[L]) + (1 + z)) = Slot(pos[L] + (1 + z))
  BY <1>3, <1>4, CellNext
<1>6. a + (1 + z) = a + 1 + z
  <2> HIDE DEF z, a
  <2>1. QED
    BY <1>4
<1>7. Slot(a + (1 + z)) = (a + 1 + z) % RingSize
  BY <1>6 DEF Slot
<1> HIDE DEF z, a, L
<1>8. Slot(pos[L] + (1 + z)) = (a + 1 + z) % RingSize
  BY <1>3, <1>5, <1>7
<1>9. QED
  BY <1>1, <1>2, <1>3, <1>8 DEF z, a, L

(* Which cell of the last frame lies at p.                                 *)
LEMMA CellOfLast ==
  ASSUME Ring!RingConstants, NEW y \in Nat, NEW p \in 0 .. RingSize - 1
  PROVE  /\ (p - Slot(y) + RingSize) % RingSize \in 0 .. RingSize - 1
         /\ \A c \in 0 .. RingSize - 1 : (p - Slot(y) + RingSize) % RingSize = c <=> Slot(y + c) = p
<1> DEFINE a == Slot(y)
           d == IF p >= a THEN p - a ELSE p - a + RingSize
<1>1. RingSize \in Nat \ {0} /\ a \in 0 .. RingSize - 1
  BY RingSizes, CellIn
<1>2. d \in 0 .. RingSize - 1
  <2> HIDE DEF a
  <2>1. QED
    BY <1>1
<1>3. Slot(p - a + RingSize) = d
  <2>1. CASE p >= a
    <3>1. p - a \in Nat /\ p - a \in 0 .. RingSize - 1 /\ RingSize \in 0 .. RingSize /\ d = p - a
      BY <1>1, <2>1
    <3>2. Slot(p - a) = p - a
      BY <3>1, CellSmall
    <3>3. Slot((p - a) + RingSize) = IF Slot(p - a) + RingSize >= RingSize
                                     THEN Slot(p - a) + RingSize - RingSize
                                       ELSE Slot(p - a) + RingSize
      BY <3>1, CellAdd
    <3> HIDE DEF a, d
    <3>4. QED
      BY <1>1, <3>1, <3>2, <3>3
  <2>2. CASE p < a
    <3>1. p - a + RingSize \in 0 .. RingSize - 1 /\ d = p - a + RingSize
      BY <1>1, <2>2
    <3>2. QED
      BY <3>1, CellSmall
  <2>3. QED
    BY <1>1, <2>1, <2>2
<1>4. ASSUME NEW c \in 0 .. RingSize - 1 PROVE d = c <=> Slot(y + c) = p
  <2>1. c \in 0 .. RingSize
    BY <1>1
  <2>2. Slot(y + c) = IF a + c >= RingSize THEN a + c - RingSize ELSE a + c
    BY <2>1, CellAdd
  <2> HIDE DEF a
  <2>3. QED
    BY <1>1, <2>2
<1>5. (p - a + RingSize) % RingSize = d
  BY <1>3 DEF Slot
<1> HIDE DEF a, d
<1>6. QED
  BY <1>2, <1>4, <1>5 DEF a

LEMMA StorePlain ==
  ASSUME Ring!RingConstants, NEW pos, WriterInv(pos), NEW what \in {"idx", "len", "pos"},
         Ring!Store(what)
  PROVE  WriterInv(pos)'
<1> USE DEF WriterInv
<1> DEFINE L == Len(r_frames)
           f == r_frames[L]
<1>1. r_frames' = r_frames /\ r_ring' = r_ring /\ r_pending' = r_pending \ {what}
      /\ what \in r_pending
  BY DEF Ring!Store
<1>2. Positions(pos)'
  BY <1>1 DEF Positions
<1>3. InRing(pos, 0) \in BOOLEAN /\ (\A y : InRing(pos, y)' <=> InRing(pos, y))
  <2>1. "payload" \in r_pending' <=> "payload" \in r_pending
    BY <1>1
  <2>2. StoredTo(pos)' = StoredTo(pos)
    BY <1>1, <2>1 DEF StoredTo
  <2>3. QED
    BY <2>2 DEF InRing
<1>4. CellsHold(pos)'
  BY <1>1, <1>3 DEF CellsHold
<1>5. CellsFrom(pos)'
  BY <1>1, <1>3 DEF CellsFrom
<1>6. /\ pos[L] \in Nat /\ f.len \in 1 .. MaxLen /\ f.at = Slot(pos[L])
      /\ pos[L + 1] = pos[L] + 1 + f.len
      /\ Slot(pos[L] + (1 + f.len)) = (f.at + 1 + f.len) % RingSize
  BY LastOne
<1>7. /\ f.at \in 0 .. RingSize - 1 /\ f.len + 1 \in 0 .. RingSize
      /\ (f.at + 1 + f.len) % RingSize \in 0 .. RingSize - 1
      /\ (f.at + 1 + f.len) % RingSize = Slot(pos[L + 1])
  <2> DEFINE z == f.len
             e == (f.at + 1 + f.len) % RingSize
  <2>1. Slot(pos[L]) \in 0 .. RingSize - 1
    BY <1>6, CellIn
  <2>2. z \in 1 .. MaxLen /\ pos[L] \in Nat /\ pos[L + 1] = pos[L] + 1 + z
        /\ Slot(pos[L] + (1 + z)) = e
    BY <1>6
  <2>3. f.at = Slot(pos[L])
    BY <1>6
  <2> HIDE DEF z, e, f, L
  <2>4. z + 1 \in 0 .. RingSize /\ pos[L] + (1 + z) = pos[L + 1] /\ pos[L + 1] \in Nat
    BY <2>2, RingSizes
  <2>5. e = Slot(pos[L + 1])
    BY <2>2, <2>4
  <2>6. Slot(pos[L + 1]) \in 0 .. RingSize - 1
    BY <2>4, CellIn
  <2>7. QED
    BY <2>1, <2>3, <2>4, <2>5, <2>6 DEF z, e
<1>8. /\ what = "pos" => (r_head').pos = Slot(pos[L + 1])
      /\ what # "pos" => (r_head').pos = r_head.pos
      /\ r_head' \in [idx : 0 .. RingSize - 1, len : 0 .. RingSize, pos : 0 .. RingSize - 1]
  <2>1. r_head \in [idx : 0 .. RingSize - 1, len : 0 .. RingSize, pos : 0 .. RingSize - 1]
    BY DEF RingTypes
  <2>2. r_head' = CASE what = "idx" -> [r_head EXCEPT !.idx = f.at]
                  [] what = "len" -> [r_head EXCEPT !.len = f.len + 1]
                  [] what = "pos" -> [r_head EXCEPT !.pos = (f.at + 1 + f.len) % RingSize]
                  [] what = "payload" -> r_head
    BY DEF Ring!Store
  <2> DEFINE e == (f.at + 1 + f.len) % RingSize
             l == f.len + 1
             a == f.at
  <2>3. /\ a \in 0 .. RingSize - 1 /\ l \in 0 .. RingSize /\ e \in 0 .. RingSize - 1
        /\ e = Slot(pos[L + 1])
    BY <1>7
  <2> HIDE DEF e, l, a
  <2>4. CASE what = "idx"
    <3>1. r_head' = [r_head EXCEPT !.idx = a]
      BY <2>2, <2>4 DEF a
    <3>2. QED
      BY <2>1, <2>3, <2>4, <3>1
  <2>5. CASE what = "len"
    <3>1. r_head' = [r_head EXCEPT !.len = l]
      BY <2>2, <2>5 DEF l
    <3>2. QED
      BY <2>1, <2>3, <2>5, <3>1
  <2>6. CASE what = "pos"
    <3>1. r_head' = [r_head EXCEPT !.pos = e]
      BY <2>2, <2>6 DEF e
    <3>2. QED
      BY <2>1, <2>3, <2>6, <3>1
  <2>7. QED
    BY <2>4, <2>5, <2>6
<1>9. HeadPos(pos)'
  BY <1>1, <1>8 DEF HeadPos
<1>10. RingTypes'
  <2>1. /\ r_pending' \subseteq {"payload", "idx", "len", "pos"}
             /\ (r_frames' = <<>> => r_pending' = {})
    BY <1>1 DEF RingTypes
  <2>2. QED
    BY <1>1, <1>8, <2>1 DEF RingTypes
<1>11. QED
  BY <1>2, <1>4, <1>5, <1>9, <1>10

LEMMA StorePayload ==
  ASSUME Ring!RingConstants, NEW pos, WriterInv(pos), Ring!Store("payload")
  PROVE  WriterInv(pos)'
<1> USE DEF WriterInv
<1> DEFINE L == Len(r_frames)
           f == r_frames[L]
           s == pos[L]
           z == f.len
           cell(p) == (p - f.at + RingSize) % RingSize
<1>1. /\ r_frames' = r_frames /\ r_head' = r_head /\ r_pending' = r_pending \ {"payload"}
         /\ "payload" \in r_pending
      /\ r_ring' = [p \in 0 .. RingSize - 1 |-> IF cell(p) \in 1 .. f.len THEN <<L, cell(p)>>
           ELSE r_ring[p]]
  BY DEF Ring!Store
<1>2. /\ L \in 1 .. L /\ L \in Nat /\ s \in Nat /\ z \in 1 .. MaxLen
      /\ f.at = Slot(s) /\ pos[L + 1] = s + 1 + z
  BY LastOne
<1>3. \A p \in 0 .. RingSize - 1 :
        /\ cell(p) \in 0 .. RingSize - 1
        /\ \A c \in 0 .. RingSize - 1 : cell(p) = c <=> Slot(s + c) = p
  <2>1. ASSUME NEW p \in 0 .. RingSize - 1
        PROVE  /\ cell(p) \in 0 .. RingSize - 1
               /\ \A c \in 0 .. RingSize - 1 : cell(p) = c <=> Slot(s + c) = p
    <3>1. cell(p) = (p - Slot(s) + RingSize) % RingSize /\ s \in Nat
      BY <1>2
    <3> HIDE DEF cell, s
    <3> DEFINE m == (p - Slot(s) + RingSize) % RingSize
    <3>2. m \in 0 .. RingSize - 1 /\ \A c \in 0 .. RingSize - 1 : m = c <=> Slot(s + c) = p
      BY <3>1, CellOfLast
    <3>3. cell(p) = m
      BY <3>1
    <3> HIDE DEF m
    <3>4. QED
      BY <3>2, <3>3
  <2>2. QED
    BY <2>1
<1>4. \A y : InRing(pos, y) <=> y < s + 1 /\ y >= (s + 1) - RingSize
  <2> DEFINE b == StoredTo(pos)
             t == s + 1
  <2>1. b = t
    BY <1>1 DEF StoredTo
  <2>2. \A y : InRing(pos, y) <=> y < b /\ y >= b - RingSize
    BY DEF InRing
  <2> HIDE DEF b, t
  <2>3. \A y : InRing(pos, y) <=> y < t /\ y >= t - RingSize
    BY <2>1, <2>2
  <2>4. QED
    BY <2>3 DEF t
<1>5. \A y : InRing(pos, y)' <=> y < s + 1 + z /\ y >= (s + 1 + z) - RingSize
  <2>1. StoredTo(pos)' = pos[L + 1]
    BY <1>1 DEF StoredTo
  <2> DEFINE b == StoredTo(pos)'
             t == s + 1 + z
  <2>2. b = t
    BY <1>2, <2>1
  <2>3. \A y : InRing(pos, y)' <=> y < b /\ y >= b - RingSize
    BY DEF InRing
  <2> HIDE DEF b, t
  <2>4. \A y : InRing(pos, y)' <=> y < t /\ y >= t - RingSize
    BY <2>2, <2>3
  <2>5. QED
    BY <2>4 DEF t
<1>6. \A k \in 1 .. L : k # L => pos[k] \in Nat /\ r_frames[k].len \in 1 .. MaxLen
                                 /\ pos[k] + r_frames[k].len < s
  <2>1. ASSUME NEW k \in 1 .. L, k # L
        PROVE  pos[k] \in Nat /\ r_frames[k].len \in 1 .. MaxLen /\ pos[k] + r_frames[k].len < s
    <3>1. k \in 1 .. L + 1 /\ k < L
      BY <1>2, <2>1
    <3>2. /\ pos[k] \in Nat /\ r_frames[k].len \in 1 .. MaxLen /\ pos[k + 1] \in Nat
          /\ pos[k + 1] = pos[k] + 1 + r_frames[k].len /\ pos[k + 1] <= s
      BY <3>1, Positioned
    <3> HIDE DEF s, L
    <3>3. r_frames[k].len \in Nat
      BY <3>2, RingSizes
    <3>4. QED
      BY <1>2, <3>2, <3>3
  <2>2. QED
    BY <2>1
<1>7. RingSize \in Nat \ {0} /\ MaxLen \in Nat /\ MaxLen < RingSize
  BY RingSizes
<1> HIDE DEF L, s, f, z, cell
<1>8. z \in Nat /\ z >= 1 /\ z < RingSize
  BY <1>2, <1>7
<1>9. \A c \in 1 .. z : c \in 0 .. RingSize - 1
  BY <1>7, <1>8
<1>10. /\ \A p \in 0 .. RingSize - 1 : \A c \in 1 .. z : Slot(s + c) = p => r_ring'[p] = <<L, c>>
       /\ \A p \in 0 .. RingSize - 1 : (\A c \in 1 .. z : Slot(s + c) # p) => r_ring'[p] = r_ring[p]
  <2>1. ASSUME NEW p \in 0 .. RingSize - 1, NEW c \in 1 .. z, Slot(s + c) = p
        PROVE  r_ring'[p] = <<L, c>>
    <3>1. cell(p) = c
      BY <1>3, <1>9, <2>1
    <3>2. QED
      BY <1>1, <3>1, <2>1 DEF z
  <2>2. ASSUME NEW p \in 0 .. RingSize - 1, \A c \in 1 .. z : Slot(s + c) # p
        PROVE  r_ring'[p] = r_ring[p]
    <3>1. cell(p) \notin 1 .. z
      BY <1>3, <1>9, <2>2
    <3>2. QED
      BY <1>1, <3>1 DEF z
  <2>3. QED
    BY <2>1, <2>2
<1>11. CellsHold(pos)'
  <2>1. SUFFICES ASSUME NEW k \in 1 .. L, NEW c \in 0 .. r_frames[k].len, InRing(pos, pos[k] + c)'
                 PROVE  r_ring'[Slot(pos[k] + c)] = <<k, c>>
    BY <1>1 DEF CellsHold, L
  <2>2. CASE k = L /\ c # 0
    <3>1. c \in 1 .. z /\ pos[k] = s /\ s + c \in Nat
      BY <1>2, <1>8, <2>2 DEF z, f, s
    <3>2. Slot(s + c) \in 0 .. RingSize - 1
      BY <3>1, CellIn
    <3>3. QED
      BY <1>10, <2>2, <3>1, <3>2
  <2>3. CASE ~(k = L /\ c # 0)
    <3> DEFINE y == pos[k] + c
    <3>1. y \in Nat /\ y <= s /\ c \in 0 .. r_frames[k].len
      <4>1. CASE k = L
        <5>1. c = 0 /\ pos[k] = s
          BY <2>3, <4>1 DEF s
        <5>2. QED
          BY <1>2, <2>1, <5>1
      <4>2. CASE k # L
        <5>1. pos[k] \in Nat /\ r_frames[k].len \in 1 .. MaxLen /\ pos[k] + r_frames[k].len < s
          BY <1>6, <4>2
        <5>2. c \in Nat /\ c <= r_frames[k].len /\ r_frames[k].len \in Nat
          BY <1>7, <5>1
        <5>3. QED
          BY <1>2, <2>1, <5>1, <5>2
      <4>3. QED
        BY <4>1, <4>2
    <3>2. y >= (s + 1 + z) - RingSize
      BY <1>5, <2>1
    <3>3. InRing(pos, y)
      <4> HIDE DEF y
      <4>1. y < s + 1 /\ y >= (s + 1) - RingSize
        BY <1>2, <1>7, <1>8, <3>1, <3>2
      <4>2. QED
        BY <1>4, <4>1
    <3>4. r_ring[Slot(y)] = <<k, c>>
      BY <3>1, <3>3 DEF CellsHold, L
    <3> HIDE DEF y
    <3>5. ASSUME NEW d \in 1 .. z PROVE Slot(s + d) # Slot(y)
      <4>1. d \in Nat /\ d >= 1 /\ d <= z
        BY <1>8
      <4>2. s + d \in Nat /\ y <= s + d /\ s + d < y + RingSize /\ y # s + d
        BY <1>2, <1>7, <1>8, <3>1, <3>2, <4>1
      <4>3. QED
        BY <3>1, <4>2, CellSame
    <3>6. Slot(y) \in 0 .. RingSize - 1
      BY <3>1, CellIn
    <3>7. r_ring'[Slot(y)] = <<k, c>>
      BY <1>10, <3>4, <3>5, <3>6
    <3>8. QED
      BY <3>7 DEF y
  <2>4. QED
    BY <2>2, <2>3
<1>12. CellsFrom(pos)'
  <2>1. SUFFICES ASSUME NEW x \in 0 .. RingSize - 1, r_ring'[x] # None
                 PROVE  \E k \in 1 .. L : \E c \in 0 .. r_frames[k].len :
                          r_ring'[x] = <<k, c>> /\ Slot(pos[k] + c) = x /\ InRing(pos, pos[k] + c)'
    BY <1>1 DEF CellsFrom, L
  <2>2. CASE \E c \in 1 .. z : Slot(s + c) = x
    <3>1. PICK c \in 1 .. z : Slot(s + c) = x
      BY <2>2
    <3>2. PICK k \in 1 .. L : k = L
      BY <1>2
    <3>3. r_ring'[x] = <<k, c>>
      BY <1>10, <3>1, <3>2
    <3>4. c \in 0 .. r_frames[k].len /\ pos[k] = s
      BY <1>8, <3>2 DEF z, f, s
    <3>5. s + c < s + 1 + z /\ s + c >= (s + 1 + z) - RingSize
      BY <1>2, <1>7, <1>8
    <3>6. InRing(pos, pos[k] + c)'
      BY <1>5, <3>4, <3>5
    <3>7. QED
      BY <3>1, <3>3, <3>4, <3>6
  <2>3. CASE \A c \in 1 .. z : Slot(s + c) # x
    <3>1. r_ring'[x] = r_ring[x]
      BY <1>10, <2>3
    <3>2. PICK k \in 1 .. L : \E c \in 0 .. r_frames[k].len :
            r_ring[x] = <<k, c>> /\ Slot(pos[k] + c) = x /\ InRing(pos, pos[k] + c)
      BY <2>1, <3>1 DEF CellsFrom, L
    <3>3. PICK c \in 0 .. r_frames[k].len :
            r_ring[x] = <<k, c>> /\ Slot(pos[k] + c) = x /\ InRing(pos, pos[k] + c)
      BY <3>2
    <3> DEFINE y == pos[k] + c
    <3>4. y \in Nat
      <4>1. pos[k] \in Nat /\ r_frames[k].len \in 1 .. MaxLen
        BY <1>2, <1>6 DEF s, z, f
      <4>2. c \in Nat
        BY <1>7, <4>1
      <4>3. QED
        BY <4>1, <4>2
    <3>5. y < s + 1 /\ y >= (s + 1) - RingSize /\ Slot(y) = x
      BY <1>4, <3>3
    <3> HIDE DEF y
    <3>6. y >= (s + 1 + z) - RingSize
      <4>1. SUFFICES ASSUME y < (s + 1 + z) - RingSize PROVE FALSE
        BY <1>2, <1>7, <1>8, <3>4
      <4> DEFINE d == y + RingSize - s
      <4>2. d \in 1 .. z /\ y + RingSize = s + d
        BY <1>2, <1>7, <1>8, <3>4, <3>5, <4>1
      <4> HIDE DEF d
      <4>3. QED
        BY <2>3, <3>4, <3>5, <4>2, CellTurn
    <3>7. y < s + 1 + z
      BY <1>2, <1>8, <3>4, <3>5
    <3>8. InRing(pos, pos[k] + c)'
      BY <1>5, <3>6, <3>7 DEF y
    <3>9. QED
      BY <3>1, <3>3, <3>8
  <2>4. QED
    BY <2>2, <2>3
<1>13. Positions(pos)'
  BY <1>1 DEF Positions
<1>14. HeadPos(pos)'
  BY <1>1 DEF HeadPos
<1>15. RingTypes'
  <2>1. /\ r_pending' \subseteq {"payload", "idx", "len", "pos"}
             /\ (r_frames' = <<>> => r_pending' = {})
    BY <1>1 DEF RingTypes
  <2>2. DOMAIN r_ring' = 0 .. RingSize - 1
    BY <1>1
  <2>3. QED
    BY <1>1, <2>1, <2>2 DEF RingTypes
<1>16. QED
  BY <1>11, <1>12, <1>13, <1>14, <1>15

LEMMA StoreWriter ==
  ASSUME Ring!RingConstants, NEW pos, WriterInv(pos),
         NEW what \in {"payload", "idx", "len", "pos"}, Ring!Store(what)
  PROVE  WriterInv(pos)'
BY StorePlain, StorePayload

-----------------------------------------------------------------------------
(* Every set of numbers has a least one: finite sets are well-founded.     *)
LEMMA LeastNumber ==
  ASSUME NEW T \in SUBSET Nat, T # {}
  PROVE  \E n \in T : \A m \in T : n <= m
<1> DEFINE R == StrictSubsetOrdering(Nat)
           S == FiniteSubsetsOf(Nat)
           U == {0 .. n : n \in T}
<1>1. IsWellFoundedOn(R, S)
  BY FS_StrictSubsetOrderingWellFounded
<1>2. U \subseteq S
  <2>1. ASSUME NEW n \in T PROVE 0 .. n \in S
    <3>1. IsFiniteSet(0 .. n)
      BY FS_Interval
    <3>2. 0 .. n \subseteq Nat
      OBVIOUS
    <3>3. QED
      BY <3>1, <3>2 DEF FiniteSubsetsOf
  <2>2. QED
    BY <2>1
<1>3. U # {}
  OBVIOUS
<1> HIDE DEF R, S, U
<1>4. \E x \in U : \A y \in U : <<y, x>> \notin R
  BY <1>1, <1>2, <1>3, WFMin
<1>5. PICK x \in U : \A y \in U : <<y, x>> \notin R
  BY <1>4
<1>6. PICK n \in T : x = 0 .. n
  BY DEF U
<1>7. ASSUME NEW m \in T, m < n PROVE FALSE
  <2>1. 0 .. m \in U
    BY DEF U
  <2>2. 0 .. m \subseteq 0 .. n /\ n \in 0 .. n /\ n \notin 0 .. m
    BY <1>7
  <2>3. <<0 .. m, 0 .. n>> \in R
    BY <2>2 DEF R, StrictSubsetOrdering
  <2>4. QED
    BY <1>5, <1>6, <2>1, <2>3
<1>8. QED
  BY <1>7

(* A frame's header is in the ring as long as its cell has not been        *)
(* written again, and what was stored after it is there too.               *)
LEMMA HeaderCell ==
  ASSUME Ring!RingConstants, NEW pos, WriterInv(pos), NEW k \in 1 .. Len(r_frames)
  PROVE  /\ Ring!Live(k) <=> r_ring[Slot(pos[k])] = <<k, 0>>
         /\ Ring!Live(k) => InRing(pos, pos[k])
         /\ InRing(pos, pos[k]) => Ring!Live(k)
<1> USE DEF WriterInv
<1>1. Ring!Live(k) <=> r_ring[Slot(pos[k])] = <<k, 0>>
  <2>1. k \in 1 .. Len(r_frames) + 1
    BY Positioned
  <2>2. QED
    BY <2>1, Positioned DEF Ring!Live
<1>2. pos[k] \in Nat /\ r_frames[k].len \in 1 .. MaxLen
  <2>1. k \in 1 .. Len(r_frames) + 1
    BY Positioned
  <2>2. QED
    BY <2>1, Positioned
<1>3. pos[k] + 0 = pos[k] /\ 0 \in 0 .. r_frames[k].len
  BY <1>2, RingSizes
<1>4. ASSUME Ring!Live(k) PROVE InRing(pos, pos[k])
  <2>1. <<k, 0>> \in Ring!FrameNo \X (0 .. MaxLen)
    BY RingSizes DEF Ring!FrameNo, RingTypes
  <2>2. r_ring[Slot(pos[k])] # None /\ r_ring[Slot(pos[k])] = <<k, 0>>
    BY <1>1, <1>4, <2>1 DEF Ring!RingConstants
  <2>3. Slot(pos[k]) \in 0 .. RingSize - 1
    BY <1>2, CellIn
  <2>4. PICK j \in 1 .. Len(r_frames) : \E c \in 0 .. r_frames[j].len :
               r_ring[Slot(pos[k])] = <<j, c>> /\ InRing(pos, pos[j] + c)
    BY <2>2, <2>3 DEF CellsFrom
  <2>5. PICK c \in 0 .. r_frames[j].len : r_ring[Slot(pos[k])] = <<j, c>> /\ InRing(pos, pos[j] + c)
    BY <2>4
  <2>6. j = k /\ c = 0
    BY <2>2, <2>5
  <2>7. QED
    BY <1>3, <2>5, <2>6
<1>5. ASSUME InRing(pos, pos[k]) PROVE Ring!Live(k)
  <2>1. r_ring[Slot(pos[k] + 0)] = <<k, 0>>
    BY <1>3, <1>5 DEF CellsHold
  <2>2. QED
    BY <1>1, <1>3, <2>1
<1>6. QED
  BY <1>1, <1>4, <1>5

LEMMA KindTyped ==
  ASSUME Ring!RingConstants, RingTypes, NEW k \in 1 .. Len(r_frames)
  PROVE  Kind[k].stream \in Ring!Stream /\ Kind[k].sps \in BOOLEAN
<1> DEFINE S == [stream : Ring!Stream, sps : BOOLEAN]
<1>1. Kind \in Seq(S) /\ Len(r_frames) <= Len(Kind)
  BY DEF Ring!RingConstants, RingTypes
<1>2. \A x \in S : x.stream \in Ring!Stream /\ x.sps \in BOOLEAN
  OBVIOUS
<1>3. Len(r_frames) \in Nat
  BY DEF RingTypes
<1> HIDE DEF S
<1>4. Len(Kind) \in Nat /\ k \in 1 .. Len(Kind)
  BY <1>1, <1>3
<1>5. Kind[k] \in S
  BY <1>1, <1>4
<1>6. QED
  BY <1>2, <1>5

(* What is read of the cell at an address, that of the end included.       *)
LEMMA OneCell ==
  ASSUME Ring!RingConstants, NEW p \in 0 .. RingSize
  PROVE  Ring!CopyOut(p, 1)[1] = r_ring[Slot(p)] /\ Slot(p) \in 0 .. RingSize - 1
<1>1. RingSize \in Nat \ {0}
  BY RingSizes
<1>2. p + 1 - 1 = p /\ 1 \in 1 .. 1
  BY <1>1
<1>3. Ring!CopyOut(p, 1)[1] = r_ring[IF p >= RingSize THEN p - RingSize ELSE p]
  <2>1. Ring!CopyOut(p, 1)[1] =
          r_ring[IF p + 1 - 1 >= RingSize THEN p + 1 - 1 - RingSize ELSE p + 1 - 1]
    BY <1>2 DEF Ring!CopyOut
  <2> DEFINE o == IF p + 1 - 1 >= RingSize THEN p + 1 - 1 - RingSize ELSE p + 1 - 1
             x == IF p >= RingSize THEN p - RingSize ELSE p
  <2>2. o = x
    BY <1>1
  <2> HIDE DEF o, x
  <2>3. Ring!CopyOut(p, 1)[1] = r_ring[o]
    BY <2>1 DEF o
  <2>4. Ring!CopyOut(p, 1)[1] = r_ring[x]
    BY <2>2, <2>3
  <2>5. QED
    BY <2>4 DEF x
<1>4. CASE p = RingSize
  <2>1. p - RingSize = 0 /\ p >= RingSize /\ 0 \in 0 .. RingSize - 1
    BY <1>1, <1>4
  <2>2. QED
    BY <1>3, <1>4, <2>1, CellSmall
<1>5. CASE p # RingSize
  <2>1. p \in 0 .. RingSize - 1 /\ ~(p >= RingSize)
    BY <1>1, <1>5
  <2>2. QED
    BY <1>3, <2>1, CellSmall
<1>6. QED
  BY <1>4, <1>5

(* A header is that of the frame whose first cell lies there, or noise.    *)
LEMMA HeaderRead ==
  ASSUME Ring!RingConstants, NEW pos, WriterInv(pos), NEW p \in 0 .. RingSize,
         NEW noise \in Ring!Noise
  PROVE  LET h == Ring!HeaderAt(p, noise) IN
         /\ h \in Header /\ h.at = p /\ h.followed = FALSE
         /\ h.frame # 0 =>
              /\ h.frame \in 1 .. Len(r_frames) /\ Slot(pos[h.frame]) = Slot(p)
              /\ h.len = r_frames[h.frame].len /\ h.sps = Kind[h.frame].sps
<1> USE DEF WriterInv
<1> DEFINE h == Ring!HeaderAt(p, noise)
           c == r_ring[Slot(p)]
<1>1. Ring!CopyOut(p, 1)[1] = c /\ Slot(p) \in 0 .. RingSize - 1
  BY OneCell
<1>2. CASE c # None /\ c[2] = 0
  <2>1. PICK k \in 1 .. Len(r_frames) : \E d \in 0 .. r_frames[k].len :
               c = <<k, d>> /\ Slot(pos[k] + d) = Slot(p)
    BY <1>1, <1>2 DEF CellsFrom
  <2>2. PICK d \in 0 .. r_frames[k].len : c = <<k, d>> /\ Slot(pos[k] + d) = Slot(p)
    BY <2>1
  <2>3. d = 0 /\ c = <<k, 0>> /\ c[1] = k
    BY <1>2, <2>2
  <2>4. h = [at |-> p, frame |-> k, len |-> r_frames[k].len,
             stream |-> Kind[k].stream, sps |-> Kind[k].sps, followed |-> FALSE]
    BY <1>1, <1>2, <2>3 DEF Ring!HeaderAt
  <2>5. /\ k \in Nat /\ k # 0 /\ Slot(pos[k]) = Slot(p) /\ r_frames[k].len \in Nat
        /\ Kind[k].stream \in Ring!Stream /\ Kind[k].sps \in BOOLEAN
    <3>1. k \in 1 .. Len(r_frames) + 1 /\ k \in Nat /\ k # 0
      BY Positioned
    <3>2. pos[k] \in Nat /\ r_frames[k].len \in 1 .. MaxLen
      BY <3>1, Positioned
    <3>3. pos[k] + 0 = pos[k] /\ r_frames[k].len \in Nat
      BY <3>2, RingSizes
    <3>4. Kind[k].stream \in Ring!Stream /\ Kind[k].sps \in BOOLEAN
      BY KindTyped
    <3>5. QED
      BY <2>2, <2>3, <3>1, <3>3, <3>4
  <2> DEFINE l == r_frames[k].len
             t == Kind[k].stream
             b == Kind[k].sps
  <2>7. h \in Header
    <3> HIDE DEF l, t, b
    <3>1. h = [at |-> p, frame |-> k, len |-> l, stream |-> t, sps |-> b, followed |-> FALSE]
      BY <2>4 DEF l, t, b
    <3>2. l \in Nat /\ t \in Ring!Stream /\ b \in BOOLEAN /\ k \in Nat
      BY <2>5 DEF l, t, b
    <3>3. QED
      BY <3>1, <3>2 DEF Header
  <2> HIDE DEF h, c, l, t, b
  <2>8. h.frame = k /\ h.at = p /\ h.len = r_frames[k].len /\ h.sps = Kind[k].sps
        /\ h.followed = FALSE
    BY <2>4
  <2>9. QED
    BY <2>5, <2>7, <2>8 DEF h, c
<1>3. CASE ~(c # None /\ c[2] = 0)
  <2>1. h = [noise EXCEPT !.at = p]
    BY <1>1, <1>3 DEF Ring!HeaderAt
  <2>2. /\ noise \in [at : {0}, frame : {0}, len : {0, 1, RingSize}, stream : {"low", "aac"},
                      sps : {FALSE}, followed : {FALSE}]
        /\ RingSize \in Nat
    BY RingSizes DEF Ring!Noise
  <2>3. h \in Header /\ h.at = p /\ h.frame = 0 /\ h.followed = FALSE
    <3> HIDE DEF h
    <3> DEFINE l == noise.len
               t == noise.stream
    <3>1. /\ noise.frame = 0 /\ noise.followed = FALSE /\ noise.sps = FALSE
          /\ l \in {0, 1, RingSize} /\ t \in {"low", "aac"}
      BY <2>2
    <3>2. h = [at |-> p, frame |-> noise.frame, len |-> l, stream |-> t,
               sps |-> noise.sps, followed |-> noise.followed]
      BY <2>1, <2>2
    <3>3. h = [at |-> p, frame |-> 0, len |-> l, stream |-> t, sps |-> FALSE, followed |-> FALSE]
      BY <3>1, <3>2
    <3> HIDE DEF l, t
    <3>4. l \in Nat /\ 0 \in Nat
      BY <2>2, <3>1
    <3>5. t \in Ring!Stream
      BY <3>1 DEF Ring!Stream, Ring!VideoStream
    <3>6. FALSE \in BOOLEAN
      OBVIOUS
    <3>7. h \in Header
      BY <3>3, <3>4, <3>5, <3>6 DEF Header
    <3>8. QED
      BY <3>3, <3>7
  <2> HIDE DEF h, c
  <2>5. QED
    BY <2>3 DEF h, c
<1>4. QED
  BY <1>2, <1>3

(* The last of the frames that lie at p and have not been overwritten.     *)
LEMMA BoundaryIs ==
  ASSUME Ring!RingConstants, NEW pos, WriterInv(pos), NEW p \in 0 .. RingSize - 1
  PROVE  /\ Ring!Boundary(p) \in 0 .. Len(r_frames) + 1
         /\ Ring!Boundary(p) # 0 => Slot(pos[Ring!Boundary(p)]) = p
         /\ Ring!Boundary(p) # 0 /\ Ring!Boundary(p) <= Len(r_frames) => Ring!Live(Ring!Boundary(p))
         /\ \A k \in 1 .. Len(r_frames) + 1 :
              Slot(pos[k]) = p /\ (k > Len(r_frames) \/ Ring!Live(k)) => k <= Ring!Boundary(p)
<1> USE DEF WriterInv
<1> DEFINE L == Len(r_frames)
           ks == {k \in 1 .. L + 1 : Ring!At(k) = p % RingSize /\ (k > L \/ Ring!Live(k))}
           Latest(k) == \A j \in ks : j <= k
           b == Ring!Boundary(p)
<1>1. L \in Nat /\ p % RingSize = p /\ \A k \in 1 .. L + 1 : Ring!At(k) = Slot(pos[k])
  <2>1. Slot(p) = p
    BY CellSmall
  <2>2. QED
    BY <2>1, Positioned DEF Slot
<1>2. b = IF ks = {} THEN 0 ELSE CHOOSE k \in ks : Latest(k)
  BY DEF Ring!Boundary
<1>3. CASE ks = {}
  <2>1. b = 0
    BY <1>2, <1>3
  <2>2. \A k \in 1 .. L + 1 : ~(Slot(pos[k]) = p /\ (k > L \/ Ring!Live(k)))
    BY <1>1, <1>3
  <2>3. 0 \in 0 .. L + 1
    BY <1>1
  <2> HIDE DEF b
  <2>4. QED
    BY <2>1, <2>2, <2>3 DEF b
<1>4. CASE ks # {}
  <2> DEFINE T == {L + 1 - k : k \in ks}
  <2>1. ks \subseteq 1 .. L + 1 /\ \A k \in ks : Ring!At(k) = p % RingSize
    OBVIOUS
  <2> HIDE DEF ks
  <2>2. T \in SUBSET Nat /\ T # {}
    <3>1. ASSUME NEW k \in ks PROVE L + 1 - k \in Nat
      BY <1>1, <2>1
    <3>2. QED
      BY <1>4, <3>1
  <2> HIDE DEF T
  <2>3. PICK n \in T : \A m \in T : n <= m
    BY <2>2, LeastNumber
  <2>4. PICK k \in ks : n = L + 1 - k
    BY <2>3 DEF T
  <2>5. ASSUME NEW j \in ks PROVE j <= k
    <3>1. L + 1 - j \in T
      BY DEF T
    <3>2. L + 1 - k <= L + 1 - j /\ j \in 1 .. L + 1 /\ k \in 1 .. L + 1
      BY <2>1, <2>3, <2>4, <3>1
    <3> HIDE DEF L
    <3>3. QED
      BY <1>1, <3>2
  <2>6. Latest(k)
    BY <2>5
  <2> HIDE DEF Latest, b
  <2>7. b \in ks /\ Latest(b)
    BY <1>2, <1>4, <2>6
  <2>8. b \in 1 .. L + 1 /\ Slot(pos[b]) = p /\ b \in 0 .. L + 1 /\ (b > L \/ Ring!Live(b))
    <3>1. \A j \in ks : j > L \/ Ring!Live(j)
      BY DEF ks
    <3>2. QED
      BY <1>1, <2>1, <2>7, <3>1
  <2>9. ASSUME NEW j \in 1 .. L + 1, Slot(pos[j]) = p /\ (j > L \/ Ring!Live(j)) PROVE j <= b
    <3>1. j \in ks
      BY <1>1, <2>9 DEF ks
    <3>2. QED
      BY <2>7, <3>1 DEF Latest
  <2>10. b <= L => Ring!Live(b)
    <3> HIDE DEF L
    <3>1. b <= L => ~(b > L)
      BY <1>1, <2>8
    <3>2. QED
      BY <2>8, <3>1
  <2>11. QED
    BY <2>8, <2>9, <2>10 DEF b
<1>5. QED
  BY <1>3, <1>4

-----------------------------------------------------------------------------
(* Moving on in the buffer.                                                *)
LEMMA MoveOn ==
  ASSUME Ring!RingConstants, NEW p \in 0 .. RingSize, NEW n \in 1 .. RingSize
  PROVE  Ring!CbMove(p, n) \in 0 .. RingSize /\ Slot(Ring!CbMove(p, n)) = Slot(p + n)
<1>1. RingSize \in Nat \ {0} /\ p \in Nat /\ n \in Nat
  BY RingSizes
<1>2. CASE p + n > RingSize
  <2>1. Ring!CbMove(p, n) = p + n - RingSize
    BY <1>2 DEF Ring!CbMove
  <2>2. p + n - RingSize \in Nat /\ p + n - RingSize \in 0 .. RingSize
        /\ (p + n - RingSize) + RingSize = p + n
    BY <1>1, <1>2
  <2>3. QED
    BY <2>1, <2>2, CellTurn
<1>3. CASE ~(p + n > RingSize)
  <2>1. Ring!CbMove(p, n) = p + n
    BY <1>3 DEF Ring!CbMove
  <2>2. QED
    BY <1>1, <1>3, <2>1
<1>4. QED
  BY <1>2, <1>3

(* The walk is what its recursive definition says: such a function exists, *)
(* since one that is defined up to a number can be continued by one step.  *)
Step(f, i, noise) == IF i = 0 THEN r_endPrev
  ELSE Ring!CbMove(f[i - 1], Ring!HeaderAt(f[i - 1], noise).len + 1)

LEMMA WalkExists ==
  ASSUME Ring!RingConstants, NEW noise, NEW n \in Nat
  PROVE  \E f : f = [i \in 0 .. n |-> Step(f, i, noise)]
<1> DEFINE Good(m) == \E f : f = [i \in 0 .. m |-> Step(f, i, noise)]
           T == {m \in Nat : ~Good(m)}
<1>1. Good(0)
  <2>1. \A i \in 0 .. 0 : i = 0
    OBVIOUS
  <2> DEFINE f == [i \in 0 .. 0 |-> r_endPrev]
  <2>2. f = [i \in 0 .. 0 |-> Step(f, i, noise)]
    BY <2>1 DEF Step
  <2>3. QED
    BY <2>2
<1>2. ASSUME NEW m \in Nat, m # 0, Good(m - 1) PROVE Good(m)
  <2>1. PICK g : g = [i \in 0 .. m - 1 |-> Step(g, i, noise)]
    BY <1>2
  <2> DEFINE f == [i \in 0 .. m |-> IF i = m THEN Step(g, m, noise) ELSE g[i]]
  <2>2. ASSUME NEW i \in 0 .. m PROVE f[i] = Step(f, i, noise)
    <3>1. i = 0 \/ (i - 1 \in 0 .. m /\ i - 1 # m)
      BY <1>2
    <3>2. Step(f, i, noise) = Step(g, i, noise)
      BY <3>1 DEF Step
    <3>3. i # m => i \in 0 .. m - 1
      BY <1>2
    <3>4. i # m => g[i] = Step(g, i, noise)
      BY <2>1, <3>3
    <3>5. f[i] = IF i = m THEN Step(g, m, noise) ELSE g[i]
      OBVIOUS
    <3> HIDE DEF f
    <3>6. QED
      BY <3>2, <3>4, <3>5
  <2>3. f = [i \in 0 .. m |-> f[i]]
    OBVIOUS
  <2> HIDE DEF f
  <2>4. f = [i \in 0 .. m |-> Step(f, i, noise)]
    BY <2>2, <2>3
  <2>5. QED
    BY <2>4
<1> HIDE DEF Good
<1>3. T = {}
  <2>1. SUFFICES ASSUME T # {} PROVE FALSE
    OBVIOUS
  <2>2. PICK m \in T : \A j \in T : m <= j
    BY <2>1, LeastNumber
  <2>3. m \in Nat /\ m # 0 /\ ~Good(m)
    BY <1>1, <2>2
  <2>4. m - 1 \in Nat /\ ~(m <= m - 1)
    BY <2>3
  <2>5. Good(m - 1)
    BY <2>2, <2>4
  <2>6. QED
    BY <1>2, <2>3, <2>5
<1>4. Good(n)
  BY <1>3
<1>5. QED
  BY <1>4 DEF Good

LEMMA WalkSteps ==
  ASSUME Ring!RingConstants, NEW noise
  PROVE  /\ Ring!Walk(noise)[0] = r_endPrev
         /\ \A i \in 1 .. FhsSize :
              Ring!Walk(noise)[i] = Ring!CbMove(Ring!Walk(noise)[i - 1],
                Ring!HeaderAt(Ring!Walk(noise)[i - 1], noise).len + 1)
<1> DEFINE P(f) == f = [i \in 0 .. FhsSize |-> Step(f, i, noise)]
           w == Ring!Walk(noise)
<1>1. w = CHOOSE f : P(f)
  BY DEF Ring!Walk, Step
<1>2. FhsSize \in Nat
  BY RingSizes
<1>3. \E f : P(f)
  BY <1>2, WalkExists
<1> HIDE DEF P
<1>4. P(CHOOSE f : P(f))
  BY <1>3
<1>5. P(w)
  BY <1>1, <1>4
<1> HIDE DEF w
<1>6. \A i \in 0 .. FhsSize : w[i] = Step(w, i, noise)
  BY <1>5 DEF P
<1>7. 0 \in 0 .. FhsSize /\ \A i \in 1 .. FhsSize : i \in 0 .. FhsSize /\ i # 0
  BY <1>2
<1>8. QED
  BY <1>6, <1>7 DEF Step, w

(* As long as the lengths read can be lengths, the walk stays in the ring. *)
LEMMA WalkStays ==
  ASSUME Ring!RingConstants, NEW pos, WriterInv(pos), NEW noise \in Ring!Noise,
         r_endPrev \in 0 .. RingSize,
         NEW n \in 0 .. FhsSize,
         \A j \in 0 .. n - 1 : Ring!HeaderAt(Ring!Walk(noise)[j], noise).len < RingSize
  PROVE  \A i \in 0 .. n : Ring!Walk(noise)[i] \in 0 .. RingSize
<1> DEFINE w == Ring!Walk(noise)
           T == {i \in 0 .. n : w[i] \notin 0 .. RingSize}
<1>1. SUFFICES ASSUME T # {} PROVE FALSE
  OBVIOUS
<1>2. n \in Nat /\ n <= FhsSize /\ FhsSize \in Nat /\ RingSize \in Nat \ {0}
  BY RingSizes
<1>3. T \in SUBSET Nat
  BY <1>2
<1>4. PICK i \in T : \A j \in T : i <= j
  BY <1>1, <1>3, LeastNumber
<1>5. i \in 0 .. n /\ w[i] \notin 0 .. RingSize
  BY <1>4
<1>6. i # 0
  BY <1>5, WalkSteps
<1>7. i \in 1 .. FhsSize /\ i - 1 \in 0 .. n - 1 /\ i - 1 \in 0 .. n /\ ~(i <= i - 1)
  BY <1>2, <1>5, <1>6
<1>8. w[i - 1] \in 0 .. RingSize
  BY <1>4, <1>7
<1> DEFINE h == Ring!HeaderAt(w[i - 1], noise)
<1>9. h \in Header /\ h.len < RingSize /\ w[i] = Ring!CbMove(w[i - 1], h.len + 1)
  BY <1>7, <1>8, HeaderRead, WalkSteps
<1> HIDE DEF h, w
<1>10. h.len \in Nat
  BY <1>9 DEF Header
<1>11. h.len + 1 \in 1 .. RingSize
  BY <1>2, <1>9, <1>10
<1>12. QED
  BY <1>5, <1>8, <1>9, <1>11, MoveOn

(* From a frame that has not been overwritten the walk goes from frame to  *)
(* frame.                                                                  *)
LEMMA LiveAfter ==
  ASSUME Ring!RingConstants, NEW pos, WriterInv(pos), NEW t \in 1 .. Len(r_frames), Ring!Live(t),
         NEW k \in 1 .. Len(r_frames), t <= k
  PROVE  Ring!Live(k)
<1> USE DEF WriterInv
<1> DEFINE L == Len(r_frames)
           s == StoredTo(pos)
<1>1. /\ L \in Nat /\ t \in 1 .. L + 1 /\ k \in 1 .. L + 1 /\ L \in 1 .. L + 1 /\ L >= 1 /\ k <= L
  BY Positioned
<1>2. pos[t] \in Nat /\ pos[k] \in Nat /\ pos[L] \in Nat
  BY <1>1, Positioned
<1>3. pos[t] <= pos[k] /\ pos[k] <= pos[L]
  <2>1. \A i, j \in 1 .. L + 1 : i < j => pos[i] < pos[j]
    BY DEF Positions
  <2>2. t = k \/ t < k
    BY <1>1
  <2>3. k = L \/ k < L
    BY <1>1
  <2>4. t < k => pos[t] < pos[k]
    BY <1>1, <2>1
  <2>5. k < L => pos[k] < pos[L]
    BY <1>1, <2>1
  <2> HIDE DEF L
  <2>6. QED
    BY <1>2, <2>2, <2>3, <2>4, <2>5
<1>4. s \in Nat /\ s >= pos[L] + 1
  BY <1>1, Bounds
<1>5. pos[t] >= s - RingSize
  BY HeaderCell DEF InRing
<1> HIDE DEF L, s
<1>6. pos[k] < s /\ pos[k] >= s - RingSize
  BY <1>2, <1>3, <1>4, <1>5, RingSizes
<1>7. InRing(pos, pos[k])
  BY <1>6 DEF InRing, s
<1>8. QED
  BY <1>7, HeaderCell

(* The header of a frame at an address is read there.                      *)
LEMMA HeaderLength ==
  ASSUME Ring!RingConstants, RingTypes, NEW noise \in Ring!Noise, NEW p \in 0 .. RingSize,
         NEW k \in 1 .. Len(r_frames), r_ring[Slot(p)] = <<k, 0>>
  PROVE  Ring!HeaderAt(p, noise).len = r_frames[k].len
<1>1. Ring!CopyOut(p, 1)[1] = <<k, 0>>
  BY OneCell
<1>2. <<k, 0>> \in Ring!FrameNo \X (0 .. MaxLen)
  BY RingSizes DEF Ring!FrameNo, RingTypes
<1>3. <<k, 0>> # None /\ <<k, 0>>[2] = 0 /\ <<k, 0>>[1] = k
  BY <1>2 DEF Ring!RingConstants
<1>4. Ring!HeaderAt(p, noise) = [at |-> p, frame |-> k, len |-> r_frames[k].len,
        stream |-> Kind[k].stream,
                            sps |-> Kind[k].sps, followed |-> FALSE]
  BY <1>1, <1>3 DEF Ring!HeaderAt
<1>5. QED
  BY <1>4

LEMMA WalkFollows ==
  ASSUME Ring!RingConstants, NEW pos, WriterInv(pos), NEW noise \in Ring!Noise,
         r_endPrev \in 0 .. RingSize,
         NEW t \in 1 .. Len(r_frames), Ring!Live(t), Slot(pos[t]) = Slot(r_endPrev),
         NEW d \in 0 .. FhsSize, t + d <= Len(r_frames) + 1
  PROVE  /\ \A i \in 0 .. d : Ring!Walk(noise)[i] \in 0 .. RingSize
                              /\ Slot(Ring!Walk(noise)[i]) = Slot(pos[t + i])
         /\ \A i \in 0 .. d - 1 : Ring!HeaderAt(Ring!Walk(noise)[i], noise).len < RingSize
<1> USE DEF WriterInv
<1> DEFINE L == Len(r_frames)
           w == Ring!Walk(noise)
           On(i) == w[i] \in 0 .. RingSize /\ Slot(w[i]) = Slot(pos[t + i])
           T == {i \in 0 .. d : ~On(i)}
<1>1. /\ L \in Nat /\ t \in Nat /\ t >= 1 /\ d \in Nat /\ t + d <= L + 1 /\ d <= FhsSize
      /\ FhsSize \in Nat /\ RingSize \in Nat \ {0} /\ MaxLen \in Nat /\ MaxLen < RingSize
  BY Positioned, RingSizes
<1>2. ASSUME NEW i \in 0 .. d - 1, On(i)
      PROVE  /\ Ring!HeaderAt(w[i], noise).len = r_frames[t + i].len
             /\ r_frames[t + i].len \in 1 .. MaxLen /\ pos[t + i] \in Nat
             /\ pos[t + i + 1] = pos[t + i] + 1 + r_frames[t + i].len
  <2> DEFINE k == t + i
  <2>1. k \in 1 .. L /\ k \in 1 .. L + 1 /\ t <= k
    BY <1>1
  <2>2. Ring!Live(k)
    BY <2>1, LiveAfter
  <2>3. r_ring[Slot(pos[k])] = <<k, 0>>
    BY <2>1, <2>2, HeaderCell
  <2>4. r_ring[Slot(w[i])] = <<k, 0>>
    BY <1>2, <2>3
  <2>5. Ring!HeaderAt(w[i], noise).len = r_frames[k].len
    <3> HIDE DEF w, k
    <3>1. w[i] \in 0 .. RingSize
      BY <1>2
    <3> DEFINE p == w[i]
    <3>2. p \in 0 .. RingSize /\ r_ring[Slot(p)] = <<k, 0>>
      BY <2>4, <3>1
    <3>3. k \in 1 .. Len(r_frames) /\ RingTypes
      BY <2>1
    <3> HIDE DEF p, WriterInv
    <3> HIDE DEF T, On, L
    <3>4. Ring!HeaderAt(p, noise).len = r_frames[k].len
      BY <3>2, <3>3, HeaderLength
    <3>5. QED
      BY <3>4 DEF p
  <2>6. QED
    BY <2>1, <2>5, Positioned
<1>3. On(0)
  <2>1. t + 0 = t
    BY <1>1
  <2>2. QED
    BY <2>1, WalkSteps
<1>4. ASSUME NEW i \in 0 .. d - 1, On(i) PROVE On(i + 1)
  <2> DEFINE l == r_frames[t + i].len
  <2>1. /\ Ring!HeaderAt(w[i], noise).len = l /\ l \in 1 .. MaxLen /\ pos[t + i] \in Nat
        /\ pos[t + i + 1] = pos[t + i] + 1 + l
    BY <1>2, <1>4
  <2>2. i + 1 \in 1 .. FhsSize /\ (i + 1) - 1 = i
    BY <1>1
  <2>3. w[i + 1] = Ring!CbMove(w[i], l + 1)
    BY <2>1, <2>2, WalkSteps
  <2> HIDE DEF l, w
  <2>4. l + 1 \in 1 .. RingSize /\ l + 1 \in 0 .. RingSize
    BY <1>1, <2>1
  <2>5. w[i] \in 0 .. RingSize /\ w[i] \in Nat /\ Slot(w[i]) = Slot(pos[t + i])
    BY <1>1, <1>4
  <2>6. w[i + 1] \in 0 .. RingSize /\ Slot(w[i + 1]) = Slot(w[i] + (l + 1))
    BY <2>3, <2>4, <2>5, MoveOn
  <2>7. Slot(w[i] + (l + 1)) = Slot(pos[t + i] + (l + 1))
    BY <2>1, <2>4, <2>5, CellAdd
  <2>8. pos[t + i] + (l + 1) = pos[t + i + 1] /\ t + (i + 1) = t + i + 1
    BY <1>1, <2>1
  <2>9. QED
    BY <2>6, <2>7, <2>8
<1>5. T = {}
  <2>1. SUFFICES ASSUME T # {} PROVE FALSE
    OBVIOUS
  <2>2. T \in SUBSET Nat
    OBVIOUS
  <2>3. PICK i \in T : \A j \in T : i <= j
    BY <2>1, <2>2, LeastNumber
  <2>4. i \in 0 .. d /\ ~On(i) /\ i # 0
    BY <1>3, <2>3
  <2>5. i - 1 \in 0 .. d - 1 /\ i - 1 \in 0 .. d /\ ~(i <= i - 1) /\ (i - 1) + 1 = i
    BY <1>1, <2>4
  <2> HIDE DEF On
  <2>6. On(i - 1)
    BY <2>3, <2>5
  <2>7. QED
    BY <1>4, <2>4, <2>5, <2>6
<1>6. \A i \in 0 .. d : On(i)
  BY <1>5
<1>7. ASSUME NEW i \in 0 .. d - 1 PROVE Ring!HeaderAt(w[i], noise).len < RingSize
  <2>1. On(i)
    <3>1. i \in 0 .. d
      BY <1>1
    <3>2. QED
      BY <1>6, <3>1
  <2>2. Ring!HeaderAt(w[i], noise).len = r_frames[t + i].len /\ r_frames[t + i].len \in 1 .. MaxLen
    BY <1>2, <2>1
  <2>3. QED
    BY <1>1, <2>2
<1>8. QED
  BY <1>6, <1>7

-----------------------------------------------------------------------------
(* What the writer's steps leave of the reader's invariant.                *)
LEMMA OutputKept ==
  ASSUME Begun, Ring!OrderedOutput, Ring!IntactUnlessLapped, UNCHANGED <<r_out, r_codec, r_args>>
  PROVE  Begun' /\ Ring!OrderedOutput' /\ Ring!IntactUnlessLapped'
<1>1. r_out' = r_out /\ r_codec' = r_codec /\ r_args' = r_args
  OBVIOUS
<1>2. Begun'
  BY <1>1 DEF Begun
<1>3. Ring!OrderedOutput'
  BY <1>1 DEF Ring!OrderedOutput
<1>4. Ring!IntactUnlessLapped'
  BY <1>1 DEF Ring!IntactUnlessLapped
<1>5. QED
  BY <1>2, <1>3, <1>4

LEMMA OutTyped ==
  ASSUME ReaderTypes, NEW i \in DOMAIN r_out
  PROVE  r_out[i].frame \in Nat
<1>1. r_out \in Seq(Handed)
  BY DEF ReaderTypes
<1>2. r_out[i] \in Handed
  BY <1>1
<1>3. QED
  BY <1>2 DEF Handed

LEMMA BeginReader ==
  ASSUME Ring!RingConstants, NEW pos, WriterInv(pos), ReaderInv(pos),
         NEW len \in 1 .. MaxLen, Ring!Begin(len), NEW q, q = Longer(pos, len),
         UNCHANGED <<r_args, r_rpc, r_sample, r_endPrev, r_todo, r_codec, r_out, r_tracked>>
  PROVE  ReaderInv(q)'
<1> USE DEF WriterInv, ReaderInv
<1> DEFINE L == Len(r_frames)
           s == pos[L + 1]
<1>1. /\ L \in Nat /\ Len(r_frames') = L + 1 /\ \A k \in 1 .. L : r_frames'[k] = r_frames[k]
      /\ \A k \in 1 .. L + 1 : q[k] = pos[k]
      /\ Ring!At(L + 1) = Slot(s) /\ s \in Nat
  <2>1. /\ L \in Nat /\ Len(r_frames') = L + 1 /\ \A k \in 1 .. L : r_frames'[k] = r_frames[k]
        /\ Ring!At(L + 1) = Slot(s) /\ s \in Nat
    BY BeginFrames
  <2>2. \A k \in 1 .. L + 1 : q[k] = pos[k]
    BY BeginPositions
  <2>3. QED
    BY <2>1, <2>2
<1>2. /\ r_args' = r_args /\ r_rpc' = r_rpc /\ r_sample' = r_sample /\ r_endPrev' = r_endPrev
         /\ r_todo' = r_todo
      /\ r_codec' = r_codec /\ r_out' = r_out /\ r_tracked' = r_tracked
  OBVIOUS
<1>3. ReaderTypes'
  <2>1. r_tracked \in 0 .. L + 1
    BY DEF ReaderTypes
  <2>2. r_tracked \in 0 .. Len(r_frames') + 1
    <3> HIDE DEF L
    <3>1. QED
      BY <1>1, <2>1
  <2>3. QED
    BY <1>2, <2>2 DEF ReaderTypes
<1>4. Tracking(q)'
  <2>1. r_tracked # 0 => r_tracked \in 1 .. L + 1
    <3>1. r_tracked \in 0 .. L + 1
      BY DEF ReaderTypes
    <3> HIDE DEF L, s
    <3>2. QED
      BY <1>1, <3>1
  <2>2. QED
    BY <1>1, <1>2, <2>1 DEF Tracking
<1>5. Followed(q)'
  <2>1. SUFFICES ASSUME NEW i \in DOMAIN r_todo, r_todo[i].followed
        PROVE  /\ r_todo[i].frame \in 1 .. (L + 1) - 1
                    /\ r_todo[i].len = r_frames'[r_todo[i].frame].len
               /\ r_todo[i].sps = Kind[r_todo[i].frame].sps
               /\ Slot(q[r_todo[i].frame]) = Slot(r_todo[i].at)
               /\ r_tracked # 0 => r_todo[i].frame < r_tracked
               /\ \A j \in DOMAIN r_todo : i < j /\ r_todo[j].followed
                    => r_todo[i].frame < r_todo[j].frame
    BY <1>1, <1>2 DEF Followed
  <2>2. /\ r_todo[i].frame \in 1 .. L - 1 /\ r_todo[i].len = r_frames[r_todo[i].frame].len
        /\ r_todo[i].sps = Kind[r_todo[i].frame].sps
           /\ Slot(pos[r_todo[i].frame]) = Slot(r_todo[i].at)
        /\ r_tracked # 0 => r_todo[i].frame < r_tracked
        /\ \A j \in DOMAIN r_todo : i < j /\ r_todo[j].followed => r_todo[i].frame < r_todo[j].frame
    BY <2>1 DEF Followed
  <2> DEFINE k == r_todo[i].frame
  <2>3. k \in 1 .. L - 1
    BY <2>2
  <2> HIDE DEF k, L
  <2>4. k \in 1 .. L /\ k \in 1 .. L + 1 /\ k \in 1 .. (L + 1) - 1
    BY <1>1, <2>3
  <2>5. r_frames'[k] = r_frames[k] /\ q[k] = pos[k]
    BY <1>1, <2>4
  <2>6. QED
    BY <2>2, <2>4, <2>5 DEF k
<1>6. Behind'
  <2>1. SUFFICES ASSUME NEW i \in DOMAIN r_out, r_out[i].live
        PROVE  /\ r_out[i].frame < L + 1
               /\ r_tracked # 0 => r_out[i].frame < r_tracked
               /\ \A j \in DOMAIN r_todo : r_todo[j].followed => r_out[i].frame < r_todo[j].frame
    BY <1>1, <1>2 DEF Behind
  <2>2. /\ r_out[i].frame < L
        /\ r_tracked # 0 => r_out[i].frame < r_tracked
        /\ \A j \in DOMAIN r_todo : r_todo[j].followed => r_out[i].frame < r_todo[j].frame
    BY <2>1 DEF Behind
  <2>3. r_out[i].frame \in Nat
    BY OutTyped
  <2> DEFINE n == r_out[i].frame
  <2>4. n < L /\ n \in Nat
    BY <2>2, <2>3
  <2> HIDE DEF n, L
  <2>5. n < L + 1
    BY <1>1, <2>4
  <2>6. QED
    BY <2>2, <2>5 DEF n
<1>7. EndAhead(q)'
  <2>1. SUFFICES ASSUME r_rpc = "parse", NEW k \in 1 .. L + 1, NEW i \in DOMAIN r_out,
                        Ring!Live(k)', Slot(q[k]) = r_sample.end, r_out[i].live, k <= r_out[i].frame
                 PROVE  FALSE
    BY <1>1, <1>2 DEF EndAhead
  <2>2. r_out[i].frame < L /\ r_out[i].frame \in Nat
    BY <2>1, OutTyped DEF Behind
  <2> DEFINE n == r_out[i].frame
  <2>3. n < L /\ n \in Nat /\ k <= n
    BY <2>1, <2>2
  <2> HIDE DEF n, L
  <2>4. k \in 1 .. L /\ k # L + 1
    BY <1>1, <2>3
  <2>5. Ring!At(k)' = Slot(pos[k]) /\ Ring!At(k) = Slot(pos[k])
    <3>1. Ring!At(k)' = r_frames'[k].at
      BY <1>1, <2>4 DEF Ring!At
    <3>2. Ring!At(k) = r_frames[k].at
      BY <1>1, <2>4 DEF Ring!At, L
    <3>3. r_frames[k].at = Slot(pos[k])
      BY <2>4 DEF Positions, L
    <3>4. QED
      BY <1>1, <2>4, <3>1, <3>2, <3>3
  <2>6. r_ring'[Slot(pos[k])] = <<k, 0>>
    BY <2>1, <2>5 DEF Ring!Live
  <2>7. Slot(pos[k]) \in 0 .. RingSize - 1 /\ Slot(s) \in 0 .. RingSize - 1
    <3>1. pos[k] \in Nat
      BY <1>1, Positioned DEF L
    <3>2. QED
      BY <1>1, <3>1, CellIn
  <2>8. r_ring' = [r_ring EXCEPT ![Slot(s)] = <<L + 1, 0>>] /\ DOMAIN r_ring = 0 .. RingSize - 1
    BY <1>1 DEF Ring!Begin, RingTypes, L
  <2>9. Slot(pos[k]) # Slot(s)
    <3>1. SUFFICES ASSUME Slot(pos[k]) = Slot(s) PROVE FALSE
      OBVIOUS
    <3>2. <<k, 0>> = <<L + 1, 0>>
      BY <2>6, <2>7, <2>8, <3>1
    <3>3. QED
      BY <2>4, <3>2
  <2>10. Ring!Live(k)
    BY <2>5, <2>6, <2>7, <2>8, <2>9 DEF Ring!Live
  <2>11. Slot(pos[k]) = r_sample.end
    BY <1>1, <2>1
  <2>12. Slot(s) = r_sample.end
    BY <2>1, <2>4, <2>10, <2>11 DEF EndAhead, L, s
  <2>13. QED
    BY <2>9, <2>11, <2>12
<1>8. QED
  BY <1>3, <1>4, <1>5, <1>6, <1>7, OutputKept

LEMMA StoreReader ==
  ASSUME Ring!RingConstants, NEW pos, WriterInv(pos), ReaderInv(pos),
         NEW what \in {"payload", "idx", "len", "pos"}, Ring!Store(what),
         UNCHANGED <<r_args, r_rpc, r_sample, r_endPrev, r_todo, r_codec, r_out, r_tracked>>
  PROVE  ReaderInv(pos)'
<1> USE DEF WriterInv, ReaderInv
<1> DEFINE L == Len(r_frames)
<1>1. r_frames' = r_frames /\ L \in Nat
  BY Positioned DEF Ring!Store
<1>2. /\ r_args' = r_args /\ r_rpc' = r_rpc /\ r_sample' = r_sample /\ r_endPrev' = r_endPrev
         /\ r_todo' = r_todo
      /\ r_codec' = r_codec /\ r_out' = r_out /\ r_tracked' = r_tracked
  OBVIOUS
<1>3. ReaderTypes' /\ Tracking(pos)' /\ Followed(pos)' /\ Behind'
  BY <1>1, <1>2 DEF ReaderTypes, Tracking, Followed, Behind
(* A cell of the payload is not the header of any frame.                   *)
<1>4. ASSUME NEW k \in 1 .. L, Ring!Live(k)' PROVE Ring!Live(k)
  <2>1. k \in 1 .. L + 1
    BY <1>1
  <2>2. Ring!At(k)' = Ring!At(k) /\ Ring!At(k) = Slot(pos[k]) /\ pos[k] \in Nat
    BY <1>1, <2>1, Positioned DEF Ring!At
  <2>3. CASE what # "payload"
    <3>1. r_ring' = r_ring
      BY <2>3 DEF Ring!Store
    <3>2. QED
      BY <1>4, <2>2, <3>1 DEF Ring!Live
  <2>4. CASE what = "payload"
    <3> DEFINE cell(p) == (p - r_frames[L].at + RingSize) % RingSize
    <3>1. r_ring' = [p \in 0 .. RingSize - 1 |->
                     IF cell(p) \in 1 .. r_frames[L].len THEN <<L, cell(p)>> ELSE r_ring[p]]
      BY <2>4 DEF Ring!Store
    <3>2. r_frames[L].len \in Nat
      <4>1. r_frames[L].len \in 1 .. MaxLen
        BY LastOne
      <4>2. QED
        BY <4>1, RingSizes
    <3> HIDE DEF cell, L
    <3>3. Ring!At(k) \in 0 .. RingSize - 1 /\ r_ring'[Ring!At(k)] = <<k, 0>>
      BY <1>4, <2>2, CellIn DEF Ring!Live
    <3>4. 0 \notin 1 .. r_frames[L].len
      BY <3>2
    <3>5. r_ring'[Ring!At(k)] = r_ring[Ring!At(k)]
      BY <3>1, <3>3, <3>4
    <3>6. QED
      BY <3>3, <3>5 DEF Ring!Live
  <2>5. QED
    BY <2>3, <2>4
<1>5. EndAhead(pos)'
  BY <1>1, <1>2, <1>4 DEF EndAhead
<1>6. QED
  BY <1>3, <1>5, OutputKept

-----------------------------------------------------------------------------
(* The reader's steps.                                                     *)
LEMMA SharedKept ==
  ASSUME NEW pos, WriterInv(pos), UNCHANGED Ring!shared
  PROVE  WriterInv(pos)' /\ \A k : Ring!Live(k)' <=> Ring!Live(k)
<1>1. r_frames' = r_frames /\ r_ring' = r_ring /\ r_head' = r_head /\ r_pending' = r_pending
  BY DEF Ring!shared
<1>2. Positions(pos)' /\ RingTypes' /\ HeadPos(pos)'
  BY <1>1 DEF WriterInv, Positions, RingTypes, HeadPos
<1>3. StoredTo(pos)' = StoredTo(pos)
  BY <1>1 DEF StoredTo
<1>4. CellsHold(pos)' /\ CellsFrom(pos)'
  <2>1. \A y : InRing(pos, y)' <=> InRing(pos, y)
    BY <1>3 DEF InRing
  <2>2. CellsHold(pos)'
    BY <1>1, <2>1 DEF WriterInv, CellsHold
  <2>3. CellsFrom(pos)'
    BY <1>1, <2>1 DEF WriterInv, CellsFrom
  <2>4. QED
    BY <2>2, <2>3
<1>5. ASSUME NEW k PROVE Ring!Live(k)' <=> Ring!Live(k)
  BY <1>1 DEF Ring!Live, Ring!At
<1>6. QED
  BY <1>2, <1>4, <1>5 DEF WriterInv

(* Steps that neither go on nor write.                                     *)
LEMMA IdleReader ==
  ASSUME Ring!RingConstants, NEW pos, WriterInv(pos), ReaderInv(pos),
         UNCHANGED Ring!shared, UNCHANGED <<r_args, r_endPrev, r_todo, r_codec, r_out, r_tracked>>,
         r_rpc' # "parse", r_rpc # "write",
         r_rpc' \in {"start", "fifos", "first idx", "first len"} => r_out = <<>>,
         r_sample' \in [idx : 0 .. RingSize - 1, end : 0 .. RingSize - 1]
  PROVE  ReaderInv(pos)'
<1> USE DEF ReaderInv
<1>1. /\ r_args' = r_args /\ r_endPrev' = r_endPrev /\ r_todo' = r_todo
      /\ r_codec' = r_codec /\ r_out' = r_out /\ r_tracked' = r_tracked /\ r_frames' = r_frames
  BY DEF Ring!shared
<1>2. ReaderTypes'
  <2>1. r_todo = <<>>
    BY DEF ReaderTypes
  <2>2. QED
    BY <1>1, <2>1 DEF ReaderTypes
<1>3. Tracking(pos)' /\ Followed(pos)' /\ Behind'
  BY <1>1 DEF Tracking, Followed, Behind
<1>4. EndAhead(pos)'
  BY DEF EndAhead
<1>5. QED
  BY <1>1, <1>2, <1>3, <1>4, OutputKept

LEMMA NoSampleTyped ==
  ASSUME Ring!RingConstants
  PROVE  Ring!NoSample \in [idx : 0 .. RingSize - 1, end : 0 .. RingSize - 1]
<1>1. 0 \in 0 .. RingSize - 1
  BY RingSizes
<1>2. QED
  BY <1>1 DEF Ring!NoSample

LEMMA EndIn ==
  ASSUME Ring!RingConstants, NEW idx \in 0 .. RingSize - 1, NEW n \in 0 .. RingSize
  PROVE  Ring!End(idx, n) \in 0 .. RingSize - 1
<1>1. RingSize \in Nat \ {0}
  BY RingSizes
<1>2. QED
  BY <1>1 DEF Ring!End

LEMMA PlainReader ==
  ASSUME Ring!RingConstants, NEW pos, WriterInv(pos), ReaderInv(pos),
         Ring!Startup \/ Ring!ReadIdx \/ Ring!ReadLen \/ Ring!Finish
  PROVE  WriterInv(pos)' /\ ReaderInv(pos)'
<1>1. /\ UNCHANGED Ring!shared /\ UNCHANGED <<r_args, r_endPrev, r_todo, r_codec, r_out, r_tracked>>
      /\ r_rpc' # "parse" /\ r_rpc # "write"
      /\ (r_rpc' \in {"start", "fifos", "first idx", "first len"}
            => r_rpc \in {"start", "fifos", "first idx", "first len"})
  BY DEF Ring!Startup, Ring!Start, Ring!FifosReady, Ring!MakeFifo, Ring!OpenFifo, Ring!ReadIdx,
         Ring!ReadLen, Ring!Finish, Ring!starting
<1>2. r_sample' \in [idx : 0 .. RingSize - 1, end : 0 .. RingSize - 1]
  <2>1. r_sample \in [idx : 0 .. RingSize - 1, end : 0 .. RingSize - 1]
    BY DEF ReaderInv, ReaderTypes
  <2>2. r_head \in [idx : 0 .. RingSize - 1, len : 0 .. RingSize, pos : 0 .. RingSize - 1]
    BY DEF WriterInv, RingTypes
  <2>3. CASE Ring!Startup \/ Ring!Finish
    <3>1. r_sample' = r_sample
      BY <2>3
        DEF Ring!Startup, Ring!Start, Ring!FifosReady, Ring!MakeFifo, Ring!OpenFifo, Ring!Finish
    <3>2. QED
      BY <2>1, <3>1
  <2>4. CASE Ring!ReadIdx
    <3>1. r_sample' = [r_sample EXCEPT !.idx = r_head.idx]
      BY <2>4 DEF Ring!ReadIdx
    <3>2. QED
      BY <2>1, <2>2, <3>1
  <2>5. CASE Ring!ReadLen
    <3>1. r_sample' = [idx |-> 0, end |-> Ring!End(r_sample.idx, r_head.len)]
      BY <2>5 DEF Ring!ReadLen
    <3>2. Ring!End(r_sample.idx, r_head.len) \in 0 .. RingSize - 1
      BY <2>1, <2>2, EndIn
    <3>3. 0 \in 0 .. RingSize - 1
      BY RingSizes
    <3>4. QED
      BY <3>1, <3>2, <3>3
  <2>6. QED
    BY <2>3, <2>4, <2>5
<1>3. r_rpc' \in {"start", "fifos", "first idx", "first len"} => r_out = <<>>
  BY <1>1 DEF ReaderInv, ReaderTypes
<1>4. ReaderInv(pos)'
  BY <1>1, <1>2, <1>3, IdleReader
<1>5. QED
  BY <1>1, <1>4, SharedKept

LEMMA FirstLenReader ==
  ASSUME Ring!RingConstants, NEW pos, WriterInv(pos), ReaderInv(pos), Ring!FirstLen
  PROVE  WriterInv(pos)' /\ ReaderInv(pos)'
<1> USE DEF ReaderInv
<1> DEFINE e == Ring!End(r_sample.idx, r_head.len)
           b == Ring!Boundary(e)
<1>1. e \in 0 .. RingSize - 1 /\ e \in 0 .. RingSize /\ Slot(e) = e
  <2>1. r_sample.idx \in 0 .. RingSize - 1 /\ r_head.len \in 0 .. RingSize
    BY DEF ReaderTypes, WriterInv, RingTypes
  <2>2. e \in 0 .. RingSize - 1
    BY <2>1, EndIn
  <2>3. e \in 0 .. RingSize
    <3> HIDE DEF e
    <3>1. QED
      BY <2>2, RingSizes
  <2>4. QED
    BY <2>2, <2>3, CellSmall
<1>2. b \in 0 .. Len(r_frames) + 1 /\ (b # 0 => Slot(pos[b]) = e)
  BY <1>1, BoundaryIs
<1> HIDE DEF e, b
<1>3. /\ r_endPrev' = e /\ r_rpc' = "idx" /\ r_rpc = "first len" /\ r_sample' = Ring!NoSample
      /\ r_frames' = r_frames /\ r_args' = r_args /\ r_todo' = r_todo /\ r_codec' = r_codec
         /\ r_out' = r_out
      /\ UNCHANGED Ring!shared
  BY DEF Ring!FirstLen, Ring!shared, Ring!starting, e
<1>4. r_tracked' = b
  <2>1. r_tracked' = Ring!Boundary(r_endPrev')
    BY DEF Ring!FirstLen
  <2>2. QED
    BY <1>3, <2>1 DEF b
<1>5. r_out = <<>> /\ r_todo = <<>>
  BY <1>3 DEF ReaderTypes
<1>6. ReaderTypes'
  BY <1>1, <1>2, <1>3, <1>4, <1>5, NoSampleTyped DEF ReaderTypes
<1>7. Tracking(pos)'
  BY <1>1, <1>2, <1>3, <1>4 DEF Tracking
<1>8. Followed(pos)' /\ Behind' /\ EndAhead(pos)'
  <2>1. DOMAIN r_out' = {} /\ DOMAIN r_todo' = {}
    <3>1. r_out' = <<>> /\ r_todo' = <<>>
      BY <1>3, <1>5
    <3>2. DOMAIN <<>> = {}
      OBVIOUS
    <3>3. QED
      BY <3>1, <3>2
  <2>2. QED
    BY <1>3, <2>1 DEF Followed, Behind, EndAhead
<1>9. Begun' /\ Ring!OrderedOutput' /\ Ring!IntactUnlessLapped'
  BY <1>3, OutputKept
<1>10. QED
  BY <1>3, <1>6, <1>7, <1>8, <1>9, SharedKept

LEMMA CheckHeadReader ==
  ASSUME Ring!RingConstants, NEW pos, WriterInv(pos), ReaderInv(pos), Ring!CheckHead
  PROVE  WriterInv(pos)' /\ ReaderInv(pos)'
<1> DEFINE L == Len(r_frames)
<1>1. /\ UNCHANGED Ring!shared
         /\ UNCHANGED <<r_args, r_endPrev, r_todo, r_codec, r_out, r_tracked>> /\ r_rpc = "pos"
      /\ r_frames' = r_frames /\ r_out' = r_out /\ r_args' = r_args /\ r_endPrev' = r_endPrev
         /\ r_todo' = r_todo
      /\ r_codec' = r_codec /\ r_tracked' = r_tracked
  BY DEF Ring!CheckHead, Ring!starting, Ring!shared
<1>2. WriterInv(pos)' /\ \A k : Ring!Live(k)' <=> Ring!Live(k)
  BY <1>1, SharedKept
<1>3. CASE r_rpc' = "idx" /\ r_sample' = Ring!NoSample
  <2>1. ReaderInv(pos)'
    BY <1>1, <1>3, NoSampleTyped, IdleReader
  <2>2. QED
    BY <1>2, <2>1
<1>4. CASE r_sample.end = r_head.pos /\ r_rpc' = "parse" /\ r_sample' = r_sample
  <2> USE DEF ReaderInv, WriterInv
  <2>1. r_todo = <<>>
    BY <1>1 DEF ReaderTypes
  <2>2. ReaderTypes'
    BY <1>1, <1>4, <2>1 DEF ReaderTypes
  <2>3. Tracking(pos)' /\ Followed(pos)' /\ Behind'
    BY <1>1 DEF Tracking, Followed, Behind
  <2>4. EndAhead(pos)'
    <3>1. SUFFICES ASSUME NEW k \in 1 .. L, NEW i \in DOMAIN r_out, Ring!Live(k),
                          Slot(pos[k]) = r_sample.end, r_out[i].live, k <= r_out[i].frame
                   PROVE  Slot(pos[L + 1]) = r_sample.end
      BY <1>1, <1>2, <1>4 DEF EndAhead
    <3>2. r_head.pos = Slot(IF "pos" \in r_pending THEN pos[L] ELSE pos[L + 1])
      BY DEF HeadPos
    <3>3. CASE "pos" \notin r_pending
      BY <1>4, <3>2, <3>3
    <3>4. CASE "pos" \in r_pending
      <4>1. r_out[i].frame < L /\ r_out[i].frame \in Nat
        BY <3>1, OutTyped DEF Behind
      <4> DEFINE n == r_out[i].frame
                 s == StoredTo(pos)
      <4>2. n < L /\ n \in Nat /\ k <= n /\ L \in Nat
        BY <3>1, <4>1, Positioned
      <4>3. k < L /\ k \in 1 .. L + 1 /\ L \in 1 .. L + 1 /\ L >= 1
        <5> HIDE DEF n, L
        <5>1. QED
          BY <4>2
      <4>4. pos[k] \in Nat /\ pos[L] \in Nat /\ pos[k] < pos[L]
        BY <4>3, Positioned DEF Positions
      <4>5. s \in Nat /\ s >= pos[L] + 1
        BY <4>3, Bounds
      <4>6. pos[k] >= s - RingSize
        BY <3>1, HeaderCell DEF InRing
      <4>7. Slot(pos[k]) = Slot(pos[L])
        BY <1>4, <3>1, <3>2, <3>4
      <4> HIDE DEF s, n, L
      <4>8. pos[k] <= pos[L] /\ pos[L] < pos[k] + RingSize /\ pos[k] # pos[L]
        BY <4>4, <4>5, <4>6, RingSizes
      <4>9. QED
        BY <4>4, <4>7, <4>8, CellSame
    <3>5. QED
      BY <3>3, <3>4
  <2>5. QED
    BY <1>1, <1>2, <2>2, <2>3, <2>4, OutputKept
<1>5. QED
  BY <1>3, <1>4 DEF Ring!CheckHead

-----------------------------------------------------------------------------
(* The passes over the ring, by the three ways they can end.               *)
Fhs(noise, i) == Ring!HeaderAt(Ring!Walk(noise)[i], noise)
Reached(noise) ==
  {i \in 0 .. FhsSize - 1 :
     /\ Ring!Walk(noise)[i] = r_sample.end
     /\ \A j \in 0 .. i - 1 : Ring!Walk(noise)[j] # r_sample.end /\ Fhs(noise, j).len < RingSize}
OnTrack(noise, n) ==
  r_tracked # 0 /\ \A i \in 0 .. n - 1 : Fhs(noise, i).frame = r_tracked + i

LostSync(noise) ==
  /\ Reached(noise) = {}
  /\ r_endPrev' = r_sample.end /\ r_tracked' = Ring!Boundary(r_sample.end) /\ r_rpc' = "idx"
     /\ r_todo' = r_todo
Advance(noise, n) ==
  /\ n \in Reached(noise) /\ n > 1
  /\ r_todo' = [i \in 1 .. n - 1 |-> [Fhs(noise, i - 1) EXCEPT !.followed = OnTrack(noise, n)]]
  /\ r_endPrev' = Ring!Walk(noise)[n - 1]
  /\ r_tracked' = (IF OnTrack(noise, n) THEN r_tracked + (n - 1) ELSE 0)
  /\ r_rpc' = "write"
TooFew == r_rpc' = "idx" /\ UNCHANGED <<r_todo, r_endPrev, r_tracked>>

LEMMA ParseCases ==
  ASSUME Ring!Parse
  PROVE  /\ r_rpc = "parse" /\ r_sample' = Ring!NoSample /\ UNCHANGED Ring!shared
              /\ UNCHANGED <<r_args, r_codec, r_out>>
         /\ \E noise \in Ring!Noise : LostSync(noise) \/ (\E n : Advance(noise, n)) \/ TooFew
<1>1. r_rpc = "parse" /\ r_sample' = Ring!NoSample /\ UNCHANGED Ring!shared
      /\ UNCHANGED <<r_args, r_codec, r_out>>
  BY DEF Ring!Parse, Ring!starting
<1>2. PICK noise \in Ring!Noise :
        LET n == CHOOSE i \in Reached(noise) : TRUE
        IN \/ /\ Reached(noise) = {}
              /\ r_endPrev' = r_sample.end /\ r_tracked' = Ring!Boundary(r_sample.end)
              /\ r_rpc' = "idx" /\ UNCHANGED r_todo
           \/ /\ Reached(noise) # {} /\ n > 1
              /\ r_todo' = [i \in 1 .. n - 1 |-> [Fhs(noise,
                   i - 1) EXCEPT !.followed = OnTrack(noise, n)]]
              /\ r_endPrev' = Ring!Walk(noise)[n - 1]
              /\ r_tracked' = IF OnTrack(noise, n) THEN r_tracked + (n - 1) ELSE 0
              /\ r_rpc' = "write"
           \/ /\ Reached(noise) # {} /\ n <= 1
              /\ r_rpc' = "idx" /\ UNCHANGED <<r_todo, r_endPrev, r_tracked>>
  BY DEF Ring!Parse, Reached, Fhs, OnTrack, Ring!Ready, Ring!Resume
<1> DEFINE n == CHOOSE i \in Reached(noise) : TRUE
<1>3. Reached(noise) # {} => n \in Reached(noise)
  OBVIOUS
<1>4. LostSync(noise) \/ Advance(noise, n) \/ TooFew
  BY <1>2, <1>3 DEF LostSync, Advance, TooFew
<1> HIDE DEF n
<1>5. QED
  BY <1>1, <1>4

(* Where the sync is lost the reader goes on from the last frame that is   *)
(* there, which is behind the frames written already.                      *)
LEMMA LostSyncReader ==
  ASSUME Ring!RingConstants, NEW pos, WriterInv(pos), ReaderInv(pos), NEW noise, LostSync(noise),
         r_rpc = "parse", r_sample' = Ring!NoSample, UNCHANGED Ring!shared,
         UNCHANGED <<r_args, r_codec, r_out>>
  PROVE  ReaderInv(pos)'
<1> USE DEF ReaderInv
<1> DEFINE L == Len(r_frames)
           e == r_sample.end
           b == Ring!Boundary(e)
<1>1. /\ r_endPrev' = e /\ r_tracked' = b /\ r_rpc' = "idx" /\ r_todo' = r_todo
      /\ r_args' = r_args /\ r_codec' = r_codec /\ r_out' = r_out /\ r_frames' = r_frames
  BY DEF LostSync, Ring!shared
<1>2. /\ e \in 0 .. RingSize - 1 /\ e \in 0 .. RingSize /\ Slot(e) = e
      /\ r_todo = <<>>
  <2>1. e \in 0 .. RingSize - 1
    BY DEF ReaderTypes
  <2>2. e \in 0 .. RingSize
    BY <2>1, RingSizes
  <2>3. QED
    BY <2>1, <2>2, CellSmall DEF ReaderTypes
<1>3. /\ b \in 0 .. L + 1 /\ (b # 0 => Slot(pos[b]) = e)
      /\ \A k \in 1 .. L + 1 : Slot(pos[k]) = e /\ (k > L \/ Ring!Live(k)) => k <= b
  BY <1>2, BoundaryIs
<1>4. b # 0 /\ b <= L => Ring!Live(b)
  BY <1>2, BoundaryIs
<1> HIDE DEF b
<1>5. ReaderTypes'
  BY <1>1, <1>2, <1>3, NoSampleTyped DEF ReaderTypes
<1>6. Tracking(pos)'
  BY <1>1, <1>2, <1>3 DEF Tracking
<1>7. Followed(pos)' /\ EndAhead(pos)'
  <2>1. DOMAIN r_todo' = {}
    BY <1>1, <1>2
  <2>2. QED
    BY <1>1, <2>1 DEF Followed, EndAhead
<1>8. Behind'
  <2>1. SUFFICES ASSUME NEW i \in DOMAIN r_out, r_out[i].live
                 PROVE  r_out[i].frame < L /\ (b # 0 => r_out[i].frame < b)
    BY <1>1, <1>2 DEF Behind
  <2> DEFINE n == r_out[i].frame
  <2>2. n < L /\ n \in Nat /\ L \in Nat
    BY <2>1, OutTyped, Positioned DEF Behind, WriterInv
  <2>3. ASSUME b # 0, b <= n PROVE FALSE
    <3>1. b <= L /\ b \in 1 .. L
      <4> HIDE DEF n, L
      <4>1. QED
        BY <1>3, <2>2, <2>3
    <3>2. Ring!Live(b) /\ Slot(pos[b]) = e
      BY <1>3, <1>4, <2>3, <3>1
    <3>3. Slot(pos[L + 1]) = e
      BY <2>1, <2>3, <3>1, <3>2 DEF EndAhead
    <3>4. L + 1 \in 1 .. L + 1 /\ L + 1 > L
      BY <2>2
    <3>5. L + 1 <= b
      BY <1>3, <3>3, <3>4
    <3> HIDE DEF n, L
    <3>6. QED
      BY <2>2, <3>1, <3>5
  <2> HIDE DEF n, L
  <2>4. b # 0 => n < b
    BY <1>3, <2>2, <2>3
  <2>5. QED
    BY <2>2, <2>4 DEF n, L
<1>9. QED
  BY <1>1, <1>5, <1>6, <1>7, <1>8, OutputKept

LEMMA AdvanceReader ==
  ASSUME Ring!RingConstants, NEW pos, WriterInv(pos), ReaderInv(pos), NEW noise \in Ring!Noise,
         NEW n,
         Advance(noise, n),
         r_rpc = "parse", r_sample' = Ring!NoSample, UNCHANGED Ring!shared,
         UNCHANGED <<r_args, r_codec, r_out>>
  PROVE  ReaderInv(pos)'
<1> USE DEF ReaderInv
<1> DEFINE L == Len(r_frames)
           w == Ring!Walk(noise)
           h(i) == Fhs(noise, i)
           on == OnTrack(noise, n)
           new(i) == [h(i - 1) EXCEPT !.followed = on]
<1>1. /\ n \in Nat /\ n > 1 /\ n \in 0 .. FhsSize /\ n - 1 \in Nat /\ L \in Nat
      /\ \A j \in 0 .. n - 1 : h(j).len < RingSize
  <2>1. n \in 0 .. FhsSize - 1 /\ n > 1 /\ \A j \in 0 .. n - 1 : h(j).len < RingSize
    BY DEF Advance, Reached
  <2>2. QED
    BY <2>1, RingSizes, Positioned DEF WriterInv
<1>2. \A i \in 0 .. n : w[i] \in 0 .. RingSize
  <2>1. r_endPrev \in 0 .. RingSize
    BY DEF ReaderTypes
  <2>2. QED
    BY <1>1, <2>1, WalkStays DEF Fhs
<1>3. ASSUME NEW i \in 0 .. n
      PROVE  /\ h(i) \in Header /\ h(i).at = w[i]
             /\ h(i).frame # 0 =>
                  /\ h(i).frame \in 1 .. L /\ Slot(pos[h(i).frame]) = Slot(w[i])
                  /\ h(i).len = r_frames[h(i).frame].len /\ h(i).sps = Kind[h(i).frame].sps
  <2> DEFINE x == w[i]
  <2>1. x \in 0 .. RingSize /\ h(i) = Ring!HeaderAt(x, noise)
    BY <1>2 DEF Fhs
  <2> HIDE DEF x, h
  <2>2. LET g == Ring!HeaderAt(x, noise) IN
        /\ g \in Header /\ g.at = x
        /\ g.frame # 0 =>
             /\ g.frame \in 1 .. Len(r_frames) /\ Slot(pos[g.frame]) = Slot(x)
             /\ g.len = r_frames[g.frame].len /\ g.sps = Kind[g.frame].sps
    BY <2>1, HeaderRead
  <2>3. QED
    BY <2>1, <2>2 DEF x
<1>4. /\ r_todo' = [i \in 1 .. n - 1 |-> new(i)] /\ r_endPrev' = w[n - 1] /\ r_rpc' = "write"
      /\ r_tracked' = (IF on THEN r_tracked + (n - 1) ELSE 0)
      /\ r_args' = r_args /\ r_codec' = r_codec /\ r_out' = r_out /\ r_frames' = r_frames
  BY DEF Advance, Ring!shared
<1>5. on => r_tracked \in Nat /\ r_tracked # 0 /\ \A i \in 0 .. n - 1 : h(i).frame = r_tracked + i
  BY <1>1 DEF OnTrack, ReaderTypes
<1>6. on \in BOOLEAN
  BY DEF OnTrack
<1> HIDE DEF w, h, on, L
<1>7. ASSUME on, NEW i \in 0 .. n - 1
      PROVE  /\ r_tracked + i \in 1 .. L /\ Slot(pos[r_tracked + i]) = Slot(w[i])
             /\ h(i).len = r_frames[r_tracked + i].len /\ h(i).sps = Kind[r_tracked + i].sps
             /\ h(i).frame = r_tracked + i /\ h(i).at = w[i]
  <2>1. h(i).frame = r_tracked + i /\ r_tracked + i # 0 /\ i \in 0 .. n
    BY <1>1, <1>5, <1>7
  <2>2. QED
    BY <1>3, <2>1
<1>8. \A i \in 1 .. n - 1 : i - 1 \in 0 .. n - 1 /\ i - 1 \in 0 .. n
  BY <1>1
<1>9. \A i \in 1 .. n - 1 : new(i) \in Header
  <2>1. ASSUME NEW i \in 1 .. n - 1 PROVE new(i) \in Header
    <3>1. h(i - 1) \in Header
      BY <1>3, <1>8
    <3>2. QED
      BY <1>6, <3>1 DEF Header
  <2>2. QED
    BY <2>1
<1>10. \A i \in 1 .. n - 1 :
         /\ r_todo'[i] \in Header /\ r_todo'[i].followed = on /\ r_todo'[i].at = h(i - 1).at
         /\ r_todo'[i].frame = h(i - 1).frame /\ r_todo'[i].len = h(i - 1).len
         /\ r_todo'[i].sps = h(i - 1).sps
  <2>1. ASSUME NEW i \in 1 .. n - 1
        PROVE  /\ new(i).followed = on /\ new(i).at = h(i - 1).at
               /\ new(i).frame = h(i - 1).frame /\ new(i).len = h(i - 1).len
               /\ new(i).sps = h(i - 1).sps
    <3>1. h(i - 1) \in Header
      BY <1>3, <1>8
    <3>2. QED
      BY <3>1 DEF Header
  <2>2. \A i \in 1 .. n - 1 : r_todo'[i] = new(i)
    BY <1>4
  <2> HIDE DEF new
  <2>3. QED
    BY <1>9, <2>1, <2>2
<1>11. r_todo' \in Seq(Header) /\ DOMAIN r_todo' = 1 .. n - 1
  <2> HIDE DEF new
  <2>1. r_todo' \in [1 .. n - 1 -> Header] /\ DOMAIN r_todo' = 1 .. n - 1
    BY <1>4, <1>9
  <2>2. QED
    BY <1>1, <2>1, SeqDef
<1> HIDE DEF new
<1>12. n - 1 \in 0 .. n - 1 /\ n - 1 \in 0 .. n
  BY <1>1
<1>13. on => r_tracked + (n - 1) \in 0 .. L + 1 /\ r_tracked + (n - 1) \in 1 .. L
  <2>1. on => r_tracked + (n - 1) \in 1 .. L
    BY <1>7, <1>12
  <2>2. \A k \in 1 .. L : k \in 0 .. L + 1
    BY <1>1, Positioned DEF L, WriterInv
  <2>3. QED
    BY <2>1, <2>2
<1>14. ReaderTypes'
  <2>1. r_tracked' \in 0 .. L + 1
    <3>1. 0 \in 0 .. L + 1
      BY <1>1
    <3>2. QED
      BY <1>4, <1>13, <3>1
  <2>2. r_endPrev' \in 0 .. RingSize
    BY <1>2, <1>4, <1>12
  <2>3. QED
    BY <1>4, <1>11, <2>1, <2>2, NoSampleTyped DEF ReaderTypes, L
<1>15. Tracking(pos)'
  BY <1>4, <1>7, <1>12 DEF Tracking
<1>16. EndAhead(pos)'
  BY <1>4 DEF EndAhead
<1>17. Followed(pos)'
  <2>1. SUFFICES ASSUME NEW i \in 1 .. n - 1, r_todo'[i].followed
        PROVE  /\ r_todo'[i].frame \in 1 .. L - 1 /\ r_todo'[i].len = r_frames[r_todo'[i].frame].len
               /\ r_todo'[i].sps = Kind[r_todo'[i].frame].sps
               /\ Slot(pos[r_todo'[i].frame]) = Slot(r_todo'[i].at)
               /\ r_tracked' # 0 => r_todo'[i].frame < r_tracked'
               /\ \A j \in 1 .. n - 1 : i < j /\ r_todo'[j].followed
                    => r_todo'[i].frame < r_todo'[j].frame
    BY <1>4, <1>11 DEF Followed, L
  <2>2. on
    BY <1>10, <2>1
  <2> DEFINE k == r_tracked + (i - 1)
  <2>3. /\ k \in 1 .. L /\ Slot(pos[k]) = Slot(r_todo'[i].at) /\ r_todo'[i].frame = k
        /\ r_todo'[i].len = r_frames[k].len /\ r_todo'[i].sps = Kind[k].sps
    <3>1. i - 1 \in 0 .. n - 1
      BY <1>8
    <3>2. /\ k \in 1 .. L /\ Slot(pos[k]) = Slot(w[i - 1]) /\ h(i - 1).at = w[i - 1]
          /\ h(i - 1).frame = k /\ h(i - 1).len = r_frames[k].len /\ h(i - 1).sps = Kind[k].sps
      BY <1>7, <2>2, <3>1
    <3> HIDE DEF k
    <3>3. QED
      BY <1>10, <3>2
  <2>4. k < r_tracked + (n - 1)
    BY <1>1, <1>5, <2>2
  <2>5. r_tracked' = r_tracked + (n - 1) /\ r_tracked' \in 1 .. L
    BY <1>4, <1>13, <2>2
  <2>6. k \in 1 .. L - 1
    <3> HIDE DEF k
    <3>1. QED
      BY <1>1, <2>3, <2>4, <2>5
  <2>7. ASSUME NEW j \in 1 .. n - 1, i < j PROVE r_todo'[i].frame < r_todo'[j].frame
    <3>1. r_todo'[j].frame = r_tracked + (j - 1)
      BY <1>7, <1>8, <1>10, <2>2
    <3>2. k < r_tracked + (j - 1)
      BY <1>1, <1>5, <2>2, <2>7
    <3>3. QED
      BY <2>3, <3>1, <3>2
  <2> HIDE DEF k
  <2>8. QED
    BY <2>3, <2>4, <2>5, <2>6, <2>7
<1>18. Behind'
  <2>1. SUFFICES ASSUME NEW i \in DOMAIN r_out, r_out[i].live
                 PROVE  /\ r_out[i].frame < L /\ (r_tracked' # 0 => r_out[i].frame < r_tracked')
                        /\ \A j \in 1 .. n - 1 : r_todo'[j].followed
                             => r_out[i].frame < r_todo'[j].frame
    BY <1>4, <1>11 DEF Behind, L
  <2>2. /\ r_out[i].frame < L /\ (r_tracked # 0 => r_out[i].frame < r_tracked)
           /\ r_out[i].frame \in Nat
    BY <2>1, OutTyped DEF Behind, L
  <2> DEFINE m == r_out[i].frame
  <2>3. m < L /\ m \in Nat /\ (on => m < r_tracked)
    BY <1>5, <2>2
  <2>4. r_tracked' # 0 => m < r_tracked'
    <3>1. on => m < r_tracked + (n - 1)
      <4> HIDE DEF m
      <4>1. QED
        BY <1>1, <1>5, <2>3
    <3>2. QED
      BY <1>4, <3>1
  <2>5. ASSUME NEW j \in 1 .. n - 1, r_todo'[j].followed PROVE m < r_todo'[j].frame
    <3>1. on
      BY <1>10, <2>5
    <3>2. r_todo'[j].frame = r_tracked + (j - 1)
      BY <1>7, <1>8, <1>10, <3>1
    <3> HIDE DEF m
    <3>3. m < r_tracked + (j - 1)
      BY <1>1, <1>5, <2>3, <3>1
    <3>4. QED
      BY <3>2, <3>3
  <2>6. QED
    BY <2>3, <2>4, <2>5
<1>19. QED
  BY <1>4, <1>14, <1>15, <1>16, <1>17, <1>18, OutputKept

LEMMA ParseReader ==
  ASSUME Ring!RingConstants, NEW pos, WriterInv(pos), ReaderInv(pos), Ring!Parse
  PROVE  WriterInv(pos)' /\ ReaderInv(pos)'
<1>1. r_rpc = "parse" /\ r_sample' = Ring!NoSample /\ UNCHANGED Ring!shared
      /\ UNCHANGED <<r_args, r_codec, r_out>>
  BY ParseCases
<1>2. PICK noise \in Ring!Noise : LostSync(noise) \/ (\E n : Advance(noise, n)) \/ TooFew
  BY ParseCases
<1>3. ASSUME LostSync(noise) PROVE ReaderInv(pos)'
  BY <1>1, <1>3, LostSyncReader
<1>4. ASSUME NEW n, Advance(noise, n) PROVE ReaderInv(pos)'
  BY <1>1, <1>4, AdvanceReader
<1>5. ASSUME TooFew PROVE ReaderInv(pos)'
  <2>1. /\ r_rpc' = "idx" /\ UNCHANGED <<r_todo, r_endPrev, r_tracked>>
        /\ Ring!NoSample \in [idx : 0 .. RingSize - 1, end : 0 .. RingSize - 1]
    BY <1>5, NoSampleTyped DEF TooFew
  <2>2. QED
    BY <1>1, <2>1, IdleReader
<1>6. WriterInv(pos)'
  BY <1>1, SharedKept
<1>7. QED
  BY <1>2, <1>3, <1>4, <1>5, <1>6

-----------------------------------------------------------------------------
(* A frame that is still in the ring, and not the last one, is copied as   *)
(* it was written.                                                         *)
LEMMA CopyWraps ==
  ASSUME Ring!RingConstants, NEW p \in 0 .. RingSize, NEW d \in 0 .. RingSize - 1
  PROVE  (IF p + d >= RingSize THEN p + d - RingSize ELSE p + d) = Slot(p + d)
<1>1. RingSize \in Nat \ {0} /\ p \in Nat /\ d \in Nat /\ d \in 0 .. RingSize
  BY RingSizes
<1>2. Slot(p + d) = IF Slot(p) + d >= RingSize THEN Slot(p) + d - RingSize ELSE Slot(p) + d
  BY <1>1, CellAdd
<1>3. p = RingSize => Slot(p) = 0
  BY CellSmall
<1>4. p # RingSize => Slot(p) = p
  <2>1. p # RingSize => p \in 0 .. RingSize - 1
    BY <1>1
  <2>2. QED
    BY <2>1, CellSmall
<1>5. QED
  BY <1>1, <1>2, <1>3, <1>4

LEMMA CopiedWhole ==
  ASSUME Ring!RingConstants, NEW pos, WriterInv(pos), NEW h \in Header,
         h.frame \in 1 .. Len(r_frames) - 1, Ring!Live(h.frame), h.len = r_frames[h.frame].len,
         h.sps = Kind[h.frame].sps, Slot(pos[h.frame]) = Slot(h.at)
  PROVE  Ring!Whole(h)
<1> USE DEF WriterInv
<1> DEFINE L == Len(r_frames)
           k == h.frame
           first == IF h.sps THEN 1 ELSE 0
           p == Ring!CbMove(h.at, 1 + first)
           s == StoredTo(pos)
           l == h.len
<1>1. /\ L \in Nat /\ k \in 1 .. L /\ k \in 1 .. L + 1 /\ L \in 1 .. L + 1 /\ k < L /\ L >= 1
  <2>1. L \in Nat /\ k \in 1 .. L - 1
    BY Positioned
  <2> HIDE DEF L, k
  <2>2. QED
    BY <2>1
<1>2. /\ pos[k] \in Nat /\ l \in 1 .. MaxLen /\ pos[k + 1] = pos[k] + 1 + l
      /\ pos[k + 1] <= pos[L] /\ pos[L] \in Nat /\ pos[k + 1] \in Nat
  BY <1>1, Positioned
<1>3. RingSize \in Nat \ {0} /\ MaxLen \in Nat /\ MaxLen < RingSize /\ h.at \in 0 .. RingSize
  BY RingSizes DEF Header
<1>4. first \in {0, 1} /\ (first = 1 => l >= 2)
  <2>1. Kind[k].sps => r_frames[k].len >= 2
    BY <1>1 DEF RingTypes
  <2>2. QED
    BY <2>1
<1>5. s \in Nat /\ s >= pos[L] + 1
  BY <1>1, Bounds
<1>6. pos[k] >= s - RingSize
  BY <1>1, HeaderCell DEF InRing
<1>7. Ring!Payload(h) = Ring!CopyOut(p, l - first)
  <2>1. h.sps \in BOOLEAN
    BY DEF Header
  <2>2. CASE h.sps
    <3>1. first = 1 /\ 1 + first = 2
      BY <2>2
    <3>2. QED
      BY <2>2, <3>1 DEF Ring!Payload
  <2>3. CASE ~h.sps
    <3>1. first = 0 /\ 1 + first = 1 /\ l - first = l
      BY <1>2, <1>3, <2>3
    <3>2. QED
      BY <2>3, <3>1 DEF Ring!Payload
  <2>4. QED
    BY <2>1, <2>2, <2>3
<1>8. Ring!Whole(h) <=> Ring!Payload(h) = [j \in 1 .. l - first |-> <<k, first + j>>]
  BY DEF Ring!Whole
<1>9. k \in 1 .. L /\ \A c \in 0 .. l : InRing(pos, pos[k] + c)
        => r_ring[Slot(pos[k] + c)] = <<k, c>>
  BY <1>1 DEF CellsHold
<1>10. Slot(pos[k]) = Slot(h.at)
  OBVIOUS
<1> DEFINE a == h.at
<1> HIDE DEF L, k, first, s, l, p, a
<1>11. first + 1 \in 1 .. RingSize /\ 1 + first \in 1 .. RingSize /\ 1 + first \in 0 .. RingSize
       /\ first \in Nat /\ l \in Nat /\ l < RingSize
  BY <1>2, <1>3, <1>4
<1>12. p \in 0 .. RingSize /\ p \in Nat /\ Slot(p) = Slot(pos[k] + (1 + first))
  <2>1. a \in 0 .. RingSize /\ a \in Nat
    BY <1>3 DEF a
  <2>2. p \in 0 .. RingSize /\ Slot(p) = Slot(a + (1 + first))
    BY <1>11, <2>1, MoveOn DEF p, a
  <2>3. Slot(a + (1 + first)) = Slot(pos[k] + (1 + first))
    BY <1>2, <1>10, <1>11, <2>1, CellAdd DEF a
  <2>4. QED
    BY <1>3, <2>2, <2>3
<1>13. ASSUME NEW i \in 1 .. l - first
       PROVE  r_ring[IF p + i - 1 >= RingSize THEN p + i - 1 - RingSize
                ELSE p + i - 1] = <<k, first + i>>
  <2>1. i - 1 \in 0 .. RingSize - 1 /\ i - 1 \in 0 .. RingSize /\ p + i - 1 = p + (i - 1)
        /\ first + i \in 0 .. l /\ i \in Nat
    BY <1>3, <1>11, <1>12
  <2>2. (IF p + (i - 1) >= RingSize THEN p + (i - 1) - RingSize
          ELSE p + (i - 1)) = Slot(p + (i - 1))
    BY <1>12, <2>1, CopyWraps
  <2>3. Slot(p + (i - 1)) = Slot((pos[k] + (1 + first)) + (i - 1))
    <3>1. pos[k] + (1 + first) \in Nat
      BY <1>2, <1>11
    <3> DEFINE c == i - 1
               y == pos[k] + (1 + first)
    <3>2. c \in 0 .. RingSize /\ y \in Nat /\ Slot(p) = Slot(y)
      BY <1>12, <2>1, <3>1
    <3> HIDE DEF c, y
    <3>3. Slot(p + c) = IF Slot(p) + c >= RingSize THEN Slot(p) + c - RingSize ELSE Slot(p) + c
      BY <1>12, <3>2, CellAdd
    <3>4. Slot(y + c) = IF Slot(y) + c >= RingSize THEN Slot(y) + c - RingSize ELSE Slot(y) + c
      BY <3>2, CellAdd
    <3>5. Slot(p + c) = Slot(y + c)
      BY <3>2, <3>3, <3>4
    <3>6. QED
      BY <3>5 DEF c, y
  <2>4. (pos[k] + (1 + first)) + (i - 1) = pos[k] + (first + i)
    BY <1>2, <1>11, <2>1
  <2>5. pos[k] + (first + i) < s /\ pos[k] + (first + i) >= s - RingSize
    BY <1>2, <1>3, <1>5, <1>6, <1>11, <2>1
  <2>6. InRing(pos, pos[k] + (first + i))
    BY <2>5 DEF InRing, s
  <2>7. r_ring[Slot(pos[k] + (first + i))] = <<k, first + i>>
    BY <1>9, <2>1, <2>6
  <2>8. QED
    BY <2>1, <2>2, <2>3, <2>4, <2>7
<1>14. Ring!CopyOut(p, l - first) = [j \in 1 .. l - first |-> <<k, first + j>>]
  BY <1>13 DEF Ring!CopyOut
<1>15. QED
  BY <1>7, <1>8, <1>14

(* The type of a stream becomes known with an SPS of that stream only.     *)
LEMMA DetectedBy ==
  ASSUME NEW h, DOMAIN r_codec = Ring!VideoStream
  PROVE  /\ DOMAIN Ring!Detected(h) = Ring!VideoStream
         /\ \A s \in Ring!VideoStream : Ring!Detected(h)[s] # r_codec[s] => s = h.stream /\ h.sps
BY DEF Ring!Detected

LEMMA WriteReader ==
  ASSUME Ring!RingConstants, NEW pos, WriterInv(pos), ReaderInv(pos), Ring!WriteFrame
  PROVE  WriterInv(pos)' /\ ReaderInv(pos)'
<1> USE DEF ReaderInv
<1> DEFINE L == Len(r_frames)
           h == Head(r_todo)
           goes == Ring!Destination(h)
           new == [frame |-> h.frame, stream |-> h.stream, sps |-> h.sps,
                   whole |-> Ring!Retimed(h) \/ Ring!Whole(h), live |-> h.followed
                     /\ Ring!Live(h.frame)]
<1>1. /\ r_rpc = "write" /\ r_todo # <<>> /\ r_codec' = Ring!Detected(h)
      /\ r_out' = (IF goes THEN Append(r_out, new) ELSE r_out)
      /\ r_todo' = Tail(r_todo) /\ r_rpc' = (IF Len(r_todo) = 1 THEN "idx" ELSE "write")
      /\ UNCHANGED Ring!shared /\ r_frames' = r_frames /\ r_args' = r_args /\ r_sample' = r_sample
      /\ r_endPrev' = r_endPrev /\ r_tracked' = r_tracked
  BY DEF Ring!WriteFrame, Ring!shared, Ring!starting
<1>2. WriterInv(pos)' /\ (\A k : Ring!Live(k)' <=> Ring!Live(k))
  BY <1>1, SharedKept
<1>3. /\ r_todo \in Seq(Header) /\ r_out \in Seq(Handed) /\ r_args \in Invocation
      /\ DOMAIN r_codec = Ring!VideoStream
  BY DEF ReaderTypes
<1>4. /\ h \in Header /\ h = r_todo[1] /\ r_todo' \in Seq(Header) /\ 1 \in DOMAIN r_todo
      /\ DOMAIN r_todo' = 1 .. Len(r_todo) - 1 /\ Len(r_todo) \in Nat /\ Len(r_todo) # 0
      /\ \A i \in 1 .. Len(r_todo) - 1 : r_todo'[i] = r_todo[i + 1] /\ i + 1 \in DOMAIN r_todo
      /\ (Len(r_todo) = 1 => r_todo' = <<>>)
  <2>1. r_todo # <<>> /\ r_todo' = Tail(r_todo)
    BY <1>1
  <2>2. Len(r_todo) \in Nat /\ Len(r_todo) # 0 /\ DOMAIN r_todo = 1 .. Len(r_todo)
    BY <1>3, <2>1, EmptySeq
  <2>3. h = r_todo[1] /\ h \in Header /\ r_todo' \in Seq(Header) /\ Len(r_todo') = Len(r_todo) - 1
        /\ \A i \in 1 .. Len(r_todo) - 1 : r_todo'[i] = r_todo[i + 1]
    BY <1>3, <2>1, <2>2
  <2> HIDE DEF h
  <2>4. DOMAIN r_todo' = 1 .. Len(r_todo) - 1
    BY <2>3
  <2>5. Len(r_todo) = 1 => r_todo' = <<>>
    BY <2>3, EmptySeq
  <2>6. 1 \in DOMAIN r_todo /\ \A i \in 1 .. Len(r_todo) - 1 : i + 1 \in DOMAIN r_todo
    BY <2>2
  <2>7. QED
    BY <2>2, <2>3, <2>4, <2>5, <2>6
<1>5. h.followed \in BOOLEAN /\ h.sps \in BOOLEAN /\ h.frame \in Nat /\ h.stream \in Ring!Stream
  BY <1>4 DEF Header
<1>6. new \in Handed
  <2> DEFINE b == Ring!Retimed(h) \/ Ring!Whole(h)
             c == h.followed /\ Ring!Live(h.frame)
  <2>1. b \in BOOLEAN /\ c \in BOOLEAN
    OBVIOUS
  <2> HIDE DEF b, c, h
  <2>2. [frame |-> h.frame, stream |-> h.stream, sps |-> h.sps, whole |-> b, live |-> c] \in Handed
    BY <1>5, <2>1 DEF Handed
  <2>3. QED
    BY <2>2 DEF b, c
<1>7. h.followed =>
        /\ h.frame \in 1 .. L - 1 /\ h.len = r_frames[h.frame].len
        /\ h.sps = Kind[h.frame].sps /\ Slot(pos[h.frame]) = Slot(h.at)
        /\ r_tracked # 0 => h.frame < r_tracked
        /\ \A j \in DOMAIN r_todo : 1 < j /\ r_todo[j].followed => h.frame < r_todo[j].frame
  BY <1>4 DEF Followed
<1>8. new.live = (h.followed /\ Ring!Live(h.frame))
      /\ new.whole = (Ring!Retimed(h) \/ Ring!Whole(h))
      /\ new.frame = h.frame /\ new.stream = h.stream /\ new.sps = h.sps
  OBVIOUS
<1>9. new.live => h.followed
  BY <1>8
<1>10. new.live => new.whole
  BY <1>4, <1>7, <1>8, CopiedWhole
<1>11. goes => h.stream \in r_args.wanted
         /\ (h.stream \in Ring!VideoStream => Ring!Detected(h)[h.stream] # None)
  BY <1>1 DEF Ring!Destination
<1>12. h.stream \in r_args.wanted
         /\ (h.stream \in Ring!VideoStream => Ring!Detected(h)[h.stream] # None) => goes
  BY <1>1 DEF Ring!Destination
<1>13. /\ DOMAIN Ring!Detected(h) = Ring!VideoStream
       /\ \A s \in Ring!VideoStream : Ring!Detected(h)[s] # r_codec[s] => s = h.stream /\ h.sps
  BY <1>3, DetectedBy
<1> HIDE DEF h, goes, new
(* The frames written are those of before and perhaps the new one.         *)
<1>14. /\ r_out' \in Seq(Handed)
       /\ \A i \in DOMAIN r_out : i \in DOMAIN r_out' /\ r_out'[i] = r_out[i]
       /\ \A i \in DOMAIN r_out' : i \in DOMAIN r_out \/ (goes /\ r_out'[i] = new)
       /\ \A i, j \in DOMAIN r_out' : i < j => i \in DOMAIN r_out
       /\ goes => \E j \in DOMAIN r_out' : r_out'[j] = new
       /\ \A j \in DOMAIN r_out' : j \in Nat /\ j >= 1
       /\ \A j \in DOMAIN r_out' : j \notin DOMAIN r_out => \A i \in DOMAIN r_out' : i <= j
  <2>1. Len(r_out) \in Nat /\ DOMAIN r_out = 1 .. Len(r_out)
    BY <1>3
  <2>2. CASE goes
    <3>1. /\ r_out' \in Seq(Handed) /\ Len(r_out') = Len(r_out) + 1
          /\ (\A i \in 1 .. Len(r_out) : r_out'[i] = r_out[i]) /\ r_out'[Len(r_out) + 1] = new
      BY <1>1, <1>3, <1>6, <2>2
    <3>2. DOMAIN r_out' = 1 .. Len(r_out) + 1
      BY <3>1
    <3> DEFINE l == Len(r_out)
    <3>3. /\ l \in Nat /\ DOMAIN r_out = 1 .. l /\ DOMAIN r_out' = 1 .. l + 1
          /\ (\A i \in 1 .. l : r_out'[i] = r_out[i]) /\ r_out'[l + 1] = new
      BY <2>1, <3>1, <3>2
    <3> HIDE DEF l
    <3>4. \A i \in 1 .. l + 1 : i \in 1 .. l \/ i = l + 1
      BY <3>3
    <3>5. l + 1 \in 1 .. l + 1 /\ \A i \in 1 .. l : i \in 1 .. l + 1
      BY <3>3
    <3>6. \A i, j \in 1 .. l + 1 : i < j => i \in 1 .. l
      BY <3>3
    <3>7. \A j \in 1 .. l + 1 : j \in Nat /\ j >= 1 /\ j <= l + 1
      BY <3>3
    <3>8. QED
      BY <2>2, <3>1, <3>3, <3>4, <3>5, <3>6, <3>7
  <2>3. CASE ~goes
    <3>1. r_out' = r_out
      BY <1>1, <2>3
    <3>2. \A i \in 1 .. Len(r_out) : i \in Nat /\ i >= 1
      BY <2>1
    <3>3. QED
      BY <1>3, <2>1, <2>3, <3>1, <3>2
  <2>4. QED
    BY <2>2, <2>3
<1>15. ReaderTypes'
  <2>1. r_rpc' \in {"idx", "write"} /\ (r_rpc' # "write" => r_todo' = <<>>)
    BY <1>1, <1>4
  <2>2. r_tracked' \in 0 .. Len(r_frames') + 1
    BY <1>1 DEF ReaderTypes
  <2>3. QED
    BY <1>1, <1>4, <1>13, <1>14, <2>1, <2>2 DEF ReaderTypes
<1>16. Tracking(pos)' /\ EndAhead(pos)'
  BY <1>1 DEF Tracking, EndAhead
<1>17. Followed(pos)'
  <2>1. SUFFICES ASSUME NEW i \in 1 .. Len(r_todo) - 1, r_todo'[i].followed
        PROVE  /\ r_todo'[i].frame \in 1 .. L - 1 /\ r_todo'[i].len = r_frames[r_todo'[i].frame].len
               /\ r_todo'[i].sps = Kind[r_todo'[i].frame].sps
               /\ Slot(pos[r_todo'[i].frame]) = Slot(r_todo'[i].at)
               /\ r_tracked # 0 => r_todo'[i].frame < r_tracked
               /\ \A j \in 1 .. Len(r_todo) - 1 : i < j /\ r_todo'[j].followed
                    => r_todo'[i].frame < r_todo'[j].frame
    BY <1>1, <1>4 DEF Followed
  <2>2. r_todo'[i] = r_todo[i + 1] /\ i + 1 \in DOMAIN r_todo
    BY <1>4
  <2>3. /\ r_todo[i + 1].frame \in 1 .. L - 1
           /\ r_todo[i + 1].len = r_frames[r_todo[i + 1].frame].len
        /\ r_todo[i + 1].sps = Kind[r_todo[i + 1].frame].sps
        /\ Slot(pos[r_todo[i + 1].frame]) = Slot(r_todo[i + 1].at)
        /\ r_tracked # 0 => r_todo[i + 1].frame < r_tracked
        /\ \A j \in DOMAIN r_todo : i + 1 < j /\ r_todo[j].followed
             => r_todo[i + 1].frame < r_todo[j].frame
    BY <2>1, <2>2 DEF Followed
  <2>4. \A j \in 1 .. Len(r_todo) - 1 : i < j => i + 1 < j + 1
    BY <1>4
  <2>5. QED
    BY <1>4, <2>2, <2>3, <2>4
<1>18. Behind'
  <2>1. SUFFICES ASSUME NEW i \in DOMAIN r_out', r_out'[i].live
                 PROVE  /\ r_out'[i].frame < L /\ (r_tracked # 0 => r_out'[i].frame < r_tracked)
                        /\ \A j \in 1 .. Len(r_todo) - 1 : r_todo'[j].followed
                             => r_out'[i].frame < r_todo'[j].frame
    BY <1>1, <1>4 DEF Behind
  <2>2. CASE i \in DOMAIN r_out
    <3>1. r_out'[i] = r_out[i]
      BY <1>14, <2>2
    <3>2. /\ r_out[i].frame < L /\ (r_tracked # 0 => r_out[i].frame < r_tracked)
          /\ \A j \in DOMAIN r_todo : r_todo[j].followed => r_out[i].frame < r_todo[j].frame
      BY <2>1, <2>2, <3>1 DEF Behind
    <3>3. QED
      BY <1>4, <3>1, <3>2
  <2>3. CASE i \notin DOMAIN r_out
    <3>1. r_out'[i] = new /\ h.followed /\ r_out'[i].frame = h.frame
      BY <1>8, <1>9, <1>14, <2>1, <2>3
    <3>2. h.frame < L
      <4>1. h.frame \in 1 .. L - 1 /\ L \in Nat
        BY <1>7, <3>1, Positioned DEF WriterInv
      <4> HIDE DEF L
      <4>2. QED
        BY <4>1
    <3>3. \A j \in 1 .. Len(r_todo) - 1 : 1 < j + 1
      BY <1>4
    <3>4. QED
      BY <1>4, <1>7, <3>1, <3>2, <3>3
  <2>4. QED
    BY <2>2, <2>3
<1>19. Begun'
  <2>1. SUFFICES ASSUME NEW s \in Ring!VideoStream, Ring!Detected(h)[s] # None, s \in r_args.wanted
                 PROVE  \E j \in DOMAIN r_out' : r_out'[j].stream = s /\ r_out'[j].sps
    BY <1>1 DEF Begun
  <2>2. CASE r_codec[s] # None
    <3>1. \E j \in DOMAIN r_out : r_out[j].stream = s /\ r_out[j].sps
      BY <2>1, <2>2 DEF Begun
    <3>2. QED
      BY <1>14, <3>1
  <2>3. CASE r_codec[s] = None
    <3>1. s = h.stream /\ h.sps
      BY <1>13, <2>1, <2>3
    <3>2. goes
      BY <1>12, <2>1, <3>1
    <3>3. QED
      BY <1>8, <1>14, <3>1, <3>2
  <2>4. QED
    BY <2>2, <2>3
<1>20. Ring!OrderedOutput'
  <2>1. ASSUME NEW i \in DOMAIN r_out', NEW j \in DOMAIN r_out', i < j, r_out'[i].live,
               r_out'[j].live
        PROVE  r_out'[i].frame < r_out'[j].frame
    <3>1. i \in DOMAIN r_out /\ r_out'[i] = r_out[i]
      BY <1>14, <2>1
    <3>2. CASE j \in DOMAIN r_out
      <4>1. r_out'[j] = r_out[j]
        BY <1>14, <3>2
      <4>2. QED
        BY <2>1, <3>1, <3>2, <4>1 DEF Ring!OrderedOutput
    <3>3. CASE j \notin DOMAIN r_out
      <4>1. r_out'[j].frame = h.frame /\ h.followed
        BY <1>8, <1>9, <1>14, <2>1, <3>3
      <4>2. r_out[i].frame < r_todo[1].frame
        BY <1>4, <2>1, <3>1, <4>1 DEF Behind
      <4>3. QED
        BY <1>4, <3>1, <4>1, <4>2
    <3>4. QED
      BY <3>2, <3>3
  <2>2. ASSUME NEW i \in DOMAIN r_out', r_out'[i].stream \in Ring!VideoStream
        PROVE  \E j \in 1 .. i : r_out'[j].stream = r_out'[i].stream /\ r_out'[j].sps
    <3>1. CASE i \in DOMAIN r_out
      <4>1. r_out'[i] = r_out[i]
        BY <1>14, <3>1
      <4>2. PICK j \in 1 .. i : r_out[j].stream = r_out[i].stream /\ r_out[j].sps
        BY <2>2, <3>1, <4>1 DEF Ring!OrderedOutput
      <4>3. j \in DOMAIN r_out
        <5>1. Len(r_out) \in Nat /\ DOMAIN r_out = 1 .. Len(r_out)
          BY <1>3
        <5>2. QED
          BY <3>1, <5>1
      <4>4. QED
        BY <1>14, <4>1, <4>2, <4>3
    <3>2. CASE i \notin DOMAIN r_out
      <4>1. goes /\ r_out'[i] = new /\ r_out'[i].stream = h.stream /\ r_out'[i].sps = h.sps
        BY <1>8, <1>14, <3>2
      <4>2. PICK j \in DOMAIN r_out' : r_out'[j].stream = h.stream /\ r_out'[j].sps
        <5>1. h.stream \in r_args.wanted /\ Ring!Detected(h)[h.stream] # None
          BY <1>11, <2>2, <4>1
        <5>2. QED
          BY <1>1, <1>19, <2>2, <4>1, <5>1 DEF Begun
      <4>3. j \in 1 .. i
        <5>1. j <= i /\ j \in Nat /\ j >= 1 /\ i \in Nat
          BY <1>14, <3>2
        <5>2. QED
          BY <5>1
      <4>4. QED
        BY <4>1, <4>2, <4>3
    <3>3. QED
      BY <3>1, <3>2
  <2>3. QED
    BY <2>1, <2>2 DEF Ring!OrderedOutput
<1>21. Ring!IntactUnlessLapped'
  <2>1. ASSUME NEW i \in DOMAIN r_out', r_out'[i].live PROVE r_out'[i].whole
    <3>1. CASE i \in DOMAIN r_out
      BY <1>14, <2>1, <3>1 DEF Ring!IntactUnlessLapped
    <3>2. CASE i \notin DOMAIN r_out
      BY <1>10, <1>14, <2>1, <3>2
    <3>3. QED
      BY <3>1, <3>2
  <2>2. QED
    BY <2>1 DEF Ring!IntactUnlessLapped
<1>22. QED
  BY <1>2, <1>15, <1>16, <1>17, <1>18, <1>19, <1>20, <1>21

-----------------------------------------------------------------------------
LEMMA RingInitially == ASSUME Ring!RingConstants, Ring!Init PROVE RingInv
<1> DEFINE pos == [k \in 1 .. 1 |-> 0]
<1>1. /\ r_frames = <<>> /\ r_pending = {} /\ r_ring = [p \in 0 .. RingSize - 1 |-> None]
      /\ r_head = [idx |-> 0, len |-> 0, pos |-> 0] /\ r_args \in Invocation /\ r_rpc = "start"
      /\ r_sample = Ring!NoSample /\ r_endPrev = 0 /\ r_todo = <<>>
      /\ r_codec = [s \in Ring!VideoStream |-> None] /\ r_out = <<>> /\ r_tracked = 0
  BY DEF Ring!Init
<1>2. Len(r_frames) = 0 /\ pos \in [1 .. Len(r_frames) + 1 -> Nat] /\ pos[1] = 0
  BY <1>1
<1> HIDE DEF pos
<1>3. 0 \in 0 .. RingSize - 1 /\ 0 \in 0 .. RingSize /\ Slot(0) = 0
  <2>1. 0 \in 0 .. RingSize - 1 /\ 0 \in 0 .. RingSize
    BY RingSizes
  <2>2. QED
    BY <2>1, CellSmall
<1>4. Positions(pos)
  <2>1. \A j, k \in 1 .. 1 : ~(j < k)
    OBVIOUS
  <2>2. QED
    BY <1>2, <2>1 DEF Positions
<1>5. RingTypes
  <2>1. Len(Kind) \in Nat
    BY DEF Ring!RingConstants
  <2>2. r_frames \in Seq([at : 0 .. RingSize - 1, len : 1 .. MaxLen])
    BY <1>1
  <2>3. DOMAIN r_ring = 0 .. RingSize - 1
    BY <1>1
  <2>4. r_head \in [idx : 0 .. RingSize - 1, len : 0 .. RingSize, pos : 0 .. RingSize - 1]
    BY <1>1, <1>3
  <2>5. Len(r_frames) <= Len(Kind)
    BY <1>2, <2>1
  <2>6. QED
    BY <1>1, <1>2, <2>2, <2>3, <2>4, <2>5 DEF RingTypes
<1>6. CellsHold(pos)
  BY <1>2 DEF CellsHold
<1>7. CellsFrom(pos)
  BY <1>1 DEF CellsFrom
<1>8. HeadPos(pos)
  BY <1>1, <1>2, <1>3 DEF HeadPos
<1>9. ReaderTypes
  BY <1>1, <1>2, <1>3, NoSampleTyped DEF ReaderTypes
<1>10. Tracking(pos) /\ EndAhead(pos)
  BY <1>1 DEF Tracking, EndAhead
<1>11. Followed(pos) /\ Behind /\ Ring!OrderedOutput /\ Ring!IntactUnlessLapped
  <2>1. DOMAIN r_out = {} /\ DOMAIN r_todo = {}
    BY <1>1
  <2>2. QED
    BY <2>1 DEF Followed, Behind, Ring!OrderedOutput, Ring!IntactUnlessLapped
<1>12. Begun
  BY <1>1 DEF Begun
<1>13. QED
  BY <1>2, <1>4, <1>5, <1>6, <1>7, <1>8, <1>9, <1>10, <1>11, <1>12 DEF RingInv, WriterInv, ReaderInv

LEMMA RingInductive ==
  ASSUME Ring!RingConstants, RingInv, [Ring!Next]_Ring!vars
  PROVE  RingInv'
<1>1. PICK pos \in [1 .. Len(r_frames) + 1 -> Nat] : WriterInv(pos) /\ ReaderInv(pos)
  BY DEF RingInv
<1>2. ASSUME WriterInv(pos)', ReaderInv(pos)' PROVE RingInv'
  <2>1. pos \in [1 .. Len(r_frames') + 1 -> Nat]
    BY <1>2 DEF WriterInv, Positions
  <2>2. QED
    BY <1>2, <2>1 DEF RingInv
<1>3. ASSUME NEW len \in 1 .. MaxLen, Ring!Begin(len),
             UNCHANGED <<r_args, r_rpc, r_sample, r_endPrev, r_todo, r_codec, r_out, r_tracked>>
      PROVE  RingInv'
  <2>1. PICK q : q = Longer(pos, len)
    OBVIOUS
  <2>2. WriterInv(q)' /\ ReaderInv(q)'
    BY <1>1, <1>3, <2>1, BeginWriter, BeginReader
  <2>3. q \in [1 .. Len(r_frames') + 1 -> Nat]
    BY <2>2 DEF WriterInv, Positions
  <2>4. QED
    BY <2>2, <2>3 DEF RingInv
<1>4. ASSUME NEW what \in {"payload", "idx", "len", "pos"}, Ring!Store(what),
             UNCHANGED <<r_args, r_rpc, r_sample, r_endPrev, r_todo, r_codec, r_out, r_tracked>>
      PROVE  RingInv'
  <2>1. WriterInv(pos)' /\ ReaderInv(pos)'
    BY <1>1, <1>4, StoreWriter, StoreReader
  <2>2. QED
    BY <1>2, <2>1
<1>5. CASE Ring!Writer
  BY <1>3, <1>4, <1>5 DEF Ring!Writer
<1>6. CASE Ring!Startup \/ Ring!ReadIdx \/ Ring!ReadLen \/ Ring!Finish
  BY <1>1, <1>2, <1>6, PlainReader
<1>7. CASE Ring!FirstLen
  BY <1>1, <1>2, <1>7, FirstLenReader
<1>8. CASE Ring!CheckHead
  BY <1>1, <1>2, <1>8, CheckHeadReader
<1>9. CASE Ring!Parse
  BY <1>1, <1>2, <1>9, ParseReader
<1>10. CASE Ring!WriteFrame
  BY <1>1, <1>2, <1>10, WriteReader
<1>11. CASE UNCHANGED Ring!vars
  <2>1. /\ UNCHANGED Ring!shared
        /\ r_args' = r_args /\ r_rpc' = r_rpc /\ r_sample' = r_sample /\ r_endPrev' = r_endPrev
           /\ r_todo' = r_todo
        /\ r_codec' = r_codec /\ r_out' = r_out /\ r_tracked' = r_tracked /\ r_frames' = r_frames
    BY <1>11 DEF Ring!vars, Ring!shared
  <2>2. WriterInv(pos)' /\ (\A k : Ring!Live(k)' <=> Ring!Live(k))
    BY <1>1, <2>1, SharedKept
  <2>3. ReaderTypes' /\ Tracking(pos)' /\ Followed(pos)' /\ Behind' /\ EndAhead(pos)'
    BY <1>1, <2>1, <2>2 DEF ReaderInv, ReaderTypes, Tracking, Followed, Behind, EndAhead
  <2>4. ReaderInv(pos)'
    BY <1>1, <2>1, <2>3, OutputKept DEF ReaderInv
  <2>5. QED
    BY <1>2, <2>2, <2>4
<1>12. QED
  BY <1>5, <1>6, <1>7, <1>8, <1>9, <1>10, <1>11 DEF Ring!Next, Ring!Reader

(* Why frames are skipped: had a frame that is still there led to the      *)
(* sampled end in fewer than FhsSize steps, the pass would have found it.  *)
Skips ==
  r_rpc = "parse" /\ r_rpc' = "idx" /\ r_endPrev' # r_endPrev /\ r_tracked # 0
    /\ Ring!Live(r_tracked)
    => (r_tracked' - r_tracked \notin 1 .. FhsSize - 1 \/ r_sample.end = 0)

LEMMA NoneSkipped ==
  ASSUME Ring!RingConstants, RingInv, Ring!Parse
  PROVE  Skips
<1>1. PICK pos \in [1 .. Len(r_frames) + 1 -> Nat] : WriterInv(pos) /\ ReaderInv(pos)
  BY DEF RingInv
<1> DEFINE L == Len(r_frames)
           e == r_sample.end
           t == r_tracked
           d == r_tracked' - r_tracked
<1>2. SUFFICES ASSUME r_rpc' = "idx", r_endPrev' # r_endPrev, t # 0, Ring!Live(t),
                      d \in 1 .. FhsSize - 1, e # 0
               PROVE  FALSE
  BY DEF Skips
<1>3. PICK noise \in Ring!Noise : LostSync(noise) \/ (\E n : Advance(noise, n)) \/ TooFew
  BY ParseCases
<1>4. LostSync(noise)
  BY <1>2, <1>3 DEF Advance, TooFew
<1>5. /\ e \in 0 .. RingSize - 1 /\ Slot(e) = e /\ r_endPrev \in 0 .. RingSize
      /\ t \in 0 .. L + 1 /\ L \in Nat
      /\ Slot(pos[t]) = Slot(r_endPrev)
  <2>1. e \in 0 .. RingSize - 1 /\ r_endPrev \in 0 .. RingSize /\ t \in 0 .. L + 1
    BY <1>1 DEF ReaderInv, ReaderTypes
  <2>2. Slot(pos[t]) = Slot(r_endPrev)
    BY <1>1, <1>2 DEF ReaderInv, Tracking
  <2>3. L \in Nat
    BY <1>1, Positioned DEF WriterInv
  <2>4. QED
    BY <2>1, <2>2, <2>3, CellSmall
<1>6. r_tracked' = Ring!Boundary(e)
  BY <1>4 DEF LostSync
<1>7. r_tracked' \in 0 .. L + 1 /\ (r_tracked' # 0 => Slot(pos[r_tracked']) = e)
  BY <1>1, <1>5, <1>6, BoundaryIs
<1>8. FhsSize \in Nat /\ RingSize \in Nat \ {0}
  BY RingSizes
<1>9. /\ r_tracked' = t + d /\ d \in Nat /\ d >= 1 /\ d <= FhsSize - 1 /\ d \in 0 .. FhsSize
      /\ t \in 1 .. L /\ t + d <= L + 1 /\ t + d # 0
  <2>1. r_tracked' \in 0 .. L + 1 /\ t \in 0 .. L + 1 /\ L \in Nat
    BY <1>5, <1>7
  <2>2. d = r_tracked' - t /\ d \in 1 .. FhsSize - 1 /\ t # 0
    BY <1>2
  <2> DEFINE u == r_tracked'
  <2>3. u \in 0 .. L + 1 /\ d = u - t
    BY <2>1, <2>2
  <2> HIDE DEF L, t, d, u
  <2>4. d \in Int /\ d >= 1 /\ d <= FhsSize - 1
    BY <1>8, <2>2
  <2>5. t \in Int /\ t >= 0 /\ L \in Int
    BY <2>1
  <2>6. u \in Int /\ u <= L + 1
    BY <2>3, <2>5
  <2>7. u = t + d
    BY <2>3, <2>4, <2>5, <2>6
  <2>8. t >= 1
    BY <2>2, <2>5
  <2>9. t + d <= L + 1 /\ t <= L /\ t + d # 0
    BY <2>4, <2>7, <2>8, <2>5, <2>6
  <2>10. t \in 1 .. L /\ d \in Nat /\ d \in 0 .. FhsSize
    BY <1>8, <2>4, <2>8, <2>9, <2>5
  <2>11. QED
    BY <2>4, <2>7, <2>9, <2>10 DEF u
<1>10. Slot(pos[t + d]) = e
  BY <1>7, <1>9
<1> DEFINE w == Ring!Walk(noise)
<1> HIDE DEF L, e, t, d
<1>11. /\ \A i \in 0 .. d : w[i] \in 0 .. RingSize /\ Slot(w[i]) = Slot(pos[t + i])
       /\ \A i \in 0 .. d - 1 : Ring!HeaderAt(w[i], noise).len < RingSize
  BY <1>1, <1>2, <1>5, <1>9, WalkFollows DEF L
<1> HIDE DEF w
<1>12. w[d] = e
  <2>1. d \in 0 .. d
    BY <1>9
  <2>2. w[d] \in 0 .. RingSize /\ Slot(w[d]) = e
    BY <1>10, <1>11, <2>1
  <2>3. w[d] # RingSize
    BY <1>2, <2>2, CellSmall
  <2>4. w[d] \in 0 .. RingSize - 1
    BY <1>8, <2>2, <2>3
  <2>5. QED
    BY <2>2, <2>4, CellSmall
<1> DEFINE T == {i \in 0 .. d : w[i] = e}
<1>13. PICK i \in T : \A j \in T : i <= j
  <2>1. T \in SUBSET Nat /\ d \in T
    BY <1>9, <1>12
  <2>2. QED
    BY <2>1, LeastNumber
<1>14. i \in 0 .. FhsSize - 1 /\ w[i] = e /\ i \in 0 .. d
  BY <1>8, <1>9, <1>13
<1>15. ASSUME NEW j \in 0 .. i - 1 PROVE w[j] # e /\ Fhs(noise, j).len < RingSize
  <2>1. j \in 0 .. d - 1 /\ j \in 0 .. d /\ ~(i <= j)
    BY <1>9, <1>14
  <2>2. w[j] # e
    BY <1>13, <2>1
  <2>3. QED
    BY <1>11, <2>1, <2>2 DEF Fhs, w
<1>16. i \in Reached(noise)
  BY <1>14, <1>15 DEF Reached, w, e
<1>17. QED
  BY <1>4, <1>16 DEF LostSync

-----------------------------------------------------------------------------
(* The run of all readers: one of them goes on at a time.                  *)
LEMMA RingOk == Ring!RingConstants
BY ReaderAssumption DEF ReaderAssumption

LEMMA RingSteps == [ReadersNext]_readers => [Ring!Next]_Ring!vars
<1>1. UNCHANGED ringVars => UNCHANGED Ring!vars
  BY DEF ringVars, Ring!vars
<1>2. QED
  BY <1>1 DEF ReadersNext, readers, Others

LEMMA RingInvariance == ReadersSpec => []RingInv
<1>1. ReadersInit => RingInv
  BY RingInitially, RingOk DEF ReadersInit
<1>2. RingInv /\ [ReadersNext]_readers => RingInv'
  BY RingSteps, RingInductive, RingOk
<1>3. QED
  BY <1>1, <1>2, PTL DEF ReadersSpec

(* However the camera program overwrites the ring while h264grabber2 reads *)
(* it: a frame whose header is still there when it is handed on is whole,  *)
(* also when it lies across the end of the buffer.                         *)
THEOREM WholeUnlessLapped == ReadersSpec => []IntactUnlessLapped
<1>1. RingInv => IntactUnlessLapped
  BY DEF RingInv, ReaderInv, IntactUnlessLapped
<1>2. QED
  BY <1>1, RingInvariance, PTL

(* No frame is handed on twice, none after a later one, also where the     *)
(* sync is lost; and a stream starts with an SPS.                          *)
THEOREM FramesInOrder == ReadersSpec => []OrderedOutput
<1>1. RingInv => OrderedOutput
  BY DEF RingInv, ReaderInv, OrderedOutput
<1>2. QED
  BY <1>1, RingInvariance, PTL

(* From a frame that has not been overwritten, frames are skipped only if  *)
(* FhsSize of them or more are waiting, or the last ends at the buffer's   *)
(* own end.                                                                *)
THEOREM LossesExplained == ReadersSpec => LossExplained
<1>1. ASSUME RingInv, Ring!Next PROVE Skips
  <2>1. CASE Ring!Parse
    BY <1>1, <2>1, NoneSkipped, RingOk
  <2>2. CASE ~Ring!Parse
    <3>1. r_rpc = "parse" => Ring!Writer
      BY <1>1, <2>2
         DEF Ring!Next, Ring!Reader, Ring!Startup, Ring!Start, Ring!FifosReady, Ring!MakeFifo,
             Ring!OpenFifo, Ring!ReadIdx, Ring!FirstLen, Ring!ReadLen, Ring!CheckHead,
             Ring!WriteFrame, Ring!Finish
    <3>2. Ring!Writer => r_rpc' = r_rpc
      BY DEF Ring!Writer
    <3>3. QED
      BY <3>1, <3>2 DEF Skips
  <2>3. QED
    BY <2>1, <2>2
<1>2. RingInv /\ [ReadersNext]_readers => [Skips]_Ring!vars
  BY <1>1, RingSteps
<1>3. QED
  BY RingInvariance, <1>2, PTL DEF ReadersSpec, LossExplained, Ring!LossExplained, Skips
=============================================================================
