--------------------------- MODULE EncoderTapProofs ---------------------------
(* Proofs about EncoderTap, for any length of the cycle, any number of     *)
(* pieces, any contents and lengths of the frames, whichever pieces are    *)
(* compared, and any lag of the program.                                   *)
EXTENDS MCFrameReaders, TLAPS

Succ(f) == (f + 1) % Cycle

(* Of the newest frame the parts are in place that are not still to be     *)
(* stored; the timestamp is that of the frame before until then.           *)
TapStored(v) == v = e_newest \/ (Tap!Stamp \in e_storing /\ e_newest = Succ(v))
TapEncoder ==
  /\ e_newest \in Tap!Frame /\ e_storing \in SUBSET Tap!Part
  /\ e_buf \in [Tap!Piece -> Tap!Frame] /\ e_len \in Tap!Frame /\ e_stamp \in Tap!Frame
  /\ \A p \in Tap!Piece \cap e_storing : p <= Span[e_newest]
  /\ TapStored(e_stamp) /\ (Tap!Length \notin e_storing => e_len = e_newest)
  /\ \A p \in Tap!Piece \ e_storing : p <= Span[e_newest] => e_buf[p] = e_newest

TapTypes ==
  /\ e_pc \in {"open", "first", "poll", "nap", "copy"} /\ e_phase \in {"start", "stream"}
  /\ e_old \in Tap!Frame /\ e_time \in Tap!Frame /\ e_got \in Tap!Frame /\ e_at \in 0 .. Chunks
  /\ e_copied \in [Tap!Piece -> Tap!Frame]
  /\ e_opt \in Option /\ e_out \in Tap!Output \cup {None}

(* While the program waits and copies, at most one frame comes up.         *)
OneBehind == e_pc \in {"nap", "copy"} => e_newest \in {e_time, Succ(e_time)}

(* The buffer, as far as the program copies it, is the frame whose length  *)
(* was read, but for what the next one has stored over it.                 *)
Showing(p) ==
  IF e_newest # e_got /\ p <= Span[e_newest] /\ p \notin e_storing THEN e_newest ELSE e_got
TapBuffer ==
  e_pc = "copy" =>
    /\ \/ e_newest = e_got /\ e_storing = {}
       \/ e_newest = Succ(e_got) /\ e_got = e_time
    /\ e_at <= Span[e_got]
    /\ \A p \in 1 .. Span[e_got] : e_buf[p] = Showing(p)

(* What it copies is of that frame, or of the next when that came up.      *)
TapCopy ==
  e_pc = "copy" => \A i \in 1 .. e_at : e_copied[i] \in {e_got, e_newest}

(* There was no copy before, or its samples are of that frame alone, or    *)
(* this one is made of the next frame and what it left of the first.       *)
Late(p) == IF p <= Span[e_newest] THEN e_newest ELSE e_got
TapBefore ==
  e_pc = "copy" =>
    \/ e_before = Tap!Zeros(Span[e_got])
    \/ e_before = [p \in Compared[Span[e_got]] |-> e_got]
    \/ /\ e_newest = Succ(e_got) /\ e_storing = {}
       /\ \A i \in 1 .. e_at : e_copied[i] = Late(i)

(* In a stream the last frame written is the one polled last or the next.  *)
InStream ==
  e_phase = "stream" =>
    /\ e_out # None /\ e_out.frame \in {e_old, Succ(e_old)}
    /\ e_pc \in {"nap", "copy"} => Tap!Ahead(e_time, e_old) \in 1 .. LostGap - 1

TapInv ==
  /\ TapEncoder /\ TapTypes /\ OneBehind /\ TapBuffer /\ TapCopy /\ TapBefore
  /\ InStream /\ WholeFrames

-----------------------------------------------------------------------------
LEMMA Sizes ==
  ASSUME Tap!TapConstants
  PROVE  Cycle \in Nat /\ Cycle > 2 /\ LostGap \in Nat /\ LostGap < Cycle - 1
<1>1. Cycle \in Nat /\ LagMax \in Nat /\ LostGap \in 1 .. LagMax /\ LagMax + 1 < Cycle
  BY DEF Tap!TapConstants
<1>2. QED
  BY <1>1

(* A frame lies in the first pieces, and so do its samples.                *)
LEMMA Spans ==
  ASSUME Tap!TapConstants, NEW f \in Tap!Frame
  PROVE  /\ Span[f] \in Int /\ Span[f] >= 1 /\ Span[f] <= Chunks /\ Chunks \in Nat
         /\ 1 .. Span[f] \subseteq Tap!Piece /\ Compared[Span[f]] \subseteq 1 .. Span[f]
         /\ 1 \in 1 .. Span[f] /\ Span[f] \in 0 .. Chunks /\ 0 \in 0 .. Chunks
<1>1. Span[f] \in 1 .. Chunks /\ Chunks \in Nat
  BY DEF Tap!TapConstants, Tap!Piece
<1>2. Compared[Span[f]] \subseteq 1 .. Span[f]
  BY <1>1 DEF Tap!TapConstants, Tap!Piece
<1>3. QED
  BY <1>1, <1>2 DEF Tap!Piece

(* The next frame is another one, and time differences are those of the    *)
(* numbers, but for one turn of the cycle.                                 *)
LEMMA NextFrame ==
  ASSUME Tap!TapConstants, NEW f \in Tap!Frame
  PROVE  /\ Succ(f) \in Tap!Frame /\ Succ(f) # f
         /\ Succ(f) = IF f = Cycle - 1 THEN 0 ELSE f + 1
<1>1. Cycle \in Nat /\ Cycle > 2
  BY Sizes
<1>2. CASE f = Cycle - 1
  BY <1>1, <1>2 DEF Succ, Tap!Frame
<1>3. CASE f # Cycle - 1
  <2>1. f + 1 \in 0 .. Cycle - 1
    BY <1>1, <1>3 DEF Tap!Frame
  <2>2. (f + 1) % Cycle = f + 1
    BY <1>1, <2>1
  <2>3. QED
    BY <1>3, <2>1, <2>2 DEF Succ, Tap!Frame
<1>4. QED
  BY <1>2, <1>3

LEMMA SuccInjective ==
  ASSUME Tap!TapConstants, NEW f \in Tap!Frame, NEW g \in Tap!Frame, Succ(f) = Succ(g)
  PROVE  f = g
<1>1. /\ Succ(f) = IF f = Cycle - 1 THEN 0 ELSE f + 1
      /\ Succ(g) = IF g = Cycle - 1 THEN 0 ELSE g + 1
  BY NextFrame
<1>2. /\ f \in Int /\ g \in Int /\ f >= 0 /\ g >= 0 /\ f < Cycle /\ g < Cycle
      /\ Cycle \in Int
  BY Sizes DEF Tap!Frame
<1>3. CASE f = Cycle - 1
  <2>1. Succ(g) = 0
    BY <1>1, <1>3
  <2>2. g = Cycle - 1
    BY <1>1, <1>2, <2>1
  <2>3. QED
    BY <1>3, <2>2
<1>4. CASE f # Cycle - 1
  <2>1. Succ(g) = f + 1
    BY <1>1, <1>4
  <2>2. g + 1 = f + 1
    BY <1>1, <1>2, <2>1
  <2>3. QED
    BY <1>2, <2>2
<1>5. QED
  BY <1>3, <1>4

LEMMA Differences ==
  ASSUME Tap!TapConstants, NEW a \in Tap!Frame, NEW b \in Tap!Frame
  PROVE  Tap!Ahead(a, b) = IF a >= b THEN a - b ELSE a - b + Cycle
<1>1. Cycle \in Nat /\ Cycle > 2 /\ a \in Int /\ b \in Int
  BY Sizes DEF Tap!Frame
<1>2. CASE a >= b
  <2>1. a - b \in 0 .. Cycle - 1
    BY <1>1, <1>2 DEF Tap!Frame
  <2>2. ((a - b) + Cycle) % Cycle = a - b
    BY <1>1, <2>1
  <2>3. QED
    BY <1>2, <2>2 DEF Tap!Ahead
<1>3. CASE ~(a >= b)
  <2>1. a - b + Cycle \in 0 .. Cycle - 1
    BY <1>1, <1>3 DEF Tap!Frame
  <2>2. (a - b + Cycle) % Cycle = a - b + Cycle
    BY <1>1, <2>1
  <2>3. QED
    BY <1>3, <2>2 DEF Tap!Ahead
<1>4. QED
  BY <1>2, <1>3

(* The frame copied is at most one further than the one polled, the frame  *)
(* written before at least as far as the one polled then.                  *)
LEMMA GapBound ==
  ASSUME Tap!TapConstants, NEW t \in Tap!Frame, NEW o \in Tap!Frame,
         Tap!Ahead(t, o) \in 1 .. LostGap - 1,
         NEW a \in {t, Succ(t)}, NEW b \in {o, Succ(o)}
  PROVE  Tap!Ahead(a, b) <= LostGap
<1>1. /\ Cycle \in Nat /\ LostGap \in Nat /\ LostGap < Cycle - 1
      /\ t \in Int /\ o \in Int /\ t >= 0 /\ o >= 0 /\ t < Cycle /\ o < Cycle
  BY Sizes DEF Tap!Frame
<1>2. /\ Succ(t) = IF t = Cycle - 1 THEN 0 ELSE t + 1
      /\ Succ(o) = IF o = Cycle - 1 THEN 0 ELSE o + 1
  BY NextFrame
<1>3. a \in Tap!Frame /\ b \in Tap!Frame /\ a \in Int /\ b \in Int
  BY NextFrame DEF Tap!Frame
<1>4. Tap!Ahead(t, o) = IF t >= o THEN t - o ELSE t - o + Cycle
  BY Differences
<1>5. Tap!Ahead(a, b) = IF a >= b THEN a - b ELSE a - b + Cycle
  BY <1>3, Differences
<1>6. QED
  BY <1>1, <1>2, <1>3, <1>4, <1>5

-----------------------------------------------------------------------------
LEMMA TapInitially == ASSUME Tap!TapConstants, Tap!Init PROVE TapInv
<1>1. 0 \in Tap!Frame
  BY Sizes DEF Tap!Frame
<1>2. TapEncoder
  BY <1>1 DEF Tap!Init, TapEncoder, TapStored
<1>3. TapTypes
  BY <1>1, Spans DEF Tap!Init, TapTypes
<1>4. OneBehind /\ TapBuffer /\ TapCopy /\ TapBefore /\ InStream
  BY DEF Tap!Init, OneBehind, TapBuffer, TapCopy, TapBefore, InStream
<1>5. WholeFrames
  BY DEF Tap!Init, WholeFrames, Tap!WholeFrames
<1>6. QED
  BY <1>2, <1>3, <1>4, <1>5 DEF TapInv

(* The encoder begins a frame. *)
LEMMA BeginsFrame ==
  ASSUME Tap!TapConstants, TapInv, Tap!NewFrame,
         UNCHANGED <<e_opt, e_pc, e_phase, Tap!locals, e_out>>
  PROVE  TapInv'
<1>1. TapEncoder /\ TapTypes
  BY DEF TapInv
<1>2. e_newest' = Succ(e_newest) /\ e_newest' \in Tap!Frame /\ e_newest' # e_newest
  BY <1>1, NextFrame DEF Tap!NewFrame, Succ, TapEncoder
<1>3. /\ e_storing = {} /\ UNCHANGED <<e_buf, e_len, e_stamp>>
      /\ e_storing' = 1 .. Span[e_newest'] \cup {Tap!Length, Tap!Stamp}
  BY DEF Tap!NewFrame
<1>4. /\ 1 .. Span[e_newest'] \subseteq Tap!Piece /\ Tap!Length \notin Tap!Piece
      /\ Tap!Stamp \notin Tap!Piece
      /\ \A p \in Tap!Piece : p \in 1 .. Span[e_newest'] <=> p <= Span[e_newest']
  BY <1>2, Spans DEF Tap!Piece, Tap!Length, Tap!Stamp
<1>5. TapEncoder'
  <2>1. e_storing' \in SUBSET Tap!Part
    BY <1>3, <1>4 DEF Tap!Part
  <2>2. TapStored(e_stamp)'
    BY <1>1, <1>2, <1>3 DEF TapEncoder, TapStored
  <2>3. QED
    BY <2>1, <2>2, <1>1, <1>2, <1>3, <1>4 DEF TapEncoder
<1>6. TapTypes'
  BY <1>1 DEF TapTypes, Tap!locals
<1>7. UNCHANGED <<e_pc, e_time, e_got, e_copied, e_before, e_at>>
  BY DEF Tap!locals
<1>8. ASSUME e_pc = "copy"
      PROVE  /\ e_newest = e_time /\ e_newest = e_got
             /\ \A i \in 1 .. e_at : e_copied[i] = e_got
             /\ \A p \in 1 .. Span[e_got] : e_buf[p] = e_got
  <2>1. e_newest = e_time /\ Succ(e_time) # e_time
    BY <1>1, <1>8, NextFrame DEF Tap!NewFrame, TapTypes
  <2>2. e_newest = e_got
    BY <1>8, <2>1 DEF TapInv, TapBuffer
  <2>3. QED
    BY <1>8, <2>1, <2>2 DEF TapInv, TapBuffer, TapCopy, Showing
<1>9. OneBehind'
  BY <1>2, <1>7 DEF OneBehind, Tap!NewFrame
<1>10. TapBuffer'
  <2>1. ASSUME e_pc = "copy", NEW p \in 1 .. Span[e_got]
        PROVE  e_buf[p] = Showing(p)'
    <3>1. p \in Tap!Piece
      BY <1>1, Spans DEF TapTypes
    <3>2. p <= Span[e_newest'] => p \in e_storing'
      BY <3>1, <1>3, <1>4
    <3>3. QED
      BY <2>1, <3>2, <1>7, <1>8 DEF Showing
  <2>2. QED
    BY <2>1, <1>2, <1>3, <1>7, <1>8 DEF TapInv, TapBuffer
<1>11. TapCopy'
  BY <1>7, <1>8 DEF TapCopy
<1>12. TapBefore'
  <2>1. e_pc = "copy" => Succ(e_got) # e_newest
    BY <1>2, <1>8
  <2>2. QED
    BY <2>1, <1>7 DEF TapInv, TapBefore
<1>13. InStream' /\ WholeFrames'
  BY DEF TapInv, InStream, WholeFrames, Tap!WholeFrames, Tap!locals
<1>14. QED
  BY <1>5, <1>6, <1>9, <1>10, <1>11, <1>12, <1>13 DEF TapInv

(* It stores a part of it. *)
LEMMA StoresPart ==
  ASSUME Tap!TapConstants, TapInv, NEW x \in Tap!Part, Tap!StorePart(x),
         UNCHANGED <<e_opt, e_pc, e_phase, Tap!locals, e_out>>
  PROVE  TapInv'
<1>1. TapEncoder /\ TapTypes
  BY DEF TapInv
<1>2. x \in e_storing /\ e_storing' = e_storing \ {x} /\ e_newest' = e_newest
  BY DEF Tap!StorePart
<1>3. /\ x \in Tap!Piece => e_buf' = [e_buf EXCEPT ![x] = e_newest]
      /\ x \notin Tap!Piece => e_buf' = e_buf
      /\ e_len' = (IF x = Tap!Length THEN e_newest ELSE e_len)
      /\ e_stamp' = (IF x = Tap!Stamp THEN e_newest ELSE e_stamp)
  BY DEF Tap!StorePart
<1>4. \A p \in Tap!Piece : e_buf'[p] = IF p = x THEN e_newest ELSE e_buf[p]
  BY <1>1, <1>3 DEF TapEncoder
<1>5. TapEncoder'
  <2>1. e_buf' \in [Tap!Piece -> Tap!Frame] /\ e_len' \in Tap!Frame /\ e_stamp' \in Tap!Frame
    BY <1>1, <1>3 DEF TapEncoder
  <2>2. \A p \in Tap!Piece \ e_storing' : p <= Span[e_newest'] => e_buf'[p] = e_newest'
    BY <1>1, <1>2, <1>4 DEF TapEncoder
  <2>3. TapStored(e_stamp)' /\ (Tap!Length \notin e_storing' => e_len' = e_newest')
    BY <1>1, <1>2, <1>3 DEF TapEncoder, TapStored
  <2>4. QED
    BY <1>1, <1>2, <2>1, <2>2, <2>3 DEF TapEncoder
<1>6. TapTypes'
  BY <1>1 DEF TapTypes, Tap!locals
<1>7. UNCHANGED <<e_pc, e_time, e_got, e_copied, e_before, e_at>>
  BY DEF Tap!locals
<1>8. e_pc = "copy" => e_newest = Succ(e_got) /\ e_got = e_time /\ Succ(e_got) # e_got
  BY <1>1, <1>2, NextFrame DEF TapInv, TapBuffer, TapTypes
<1>9. TapBuffer'
  <2>1. ASSUME e_pc = "copy", NEW p \in 1 .. Span[e_got]
        PROVE  e_buf'[p] = Showing(p)'
    <3>1. p \in Tap!Piece
      BY <1>1, Spans DEF TapTypes
    <3>2. e_buf[p] = Showing(p)
      BY <2>1 DEF TapInv, TapBuffer
    <3>3. CASE p = x
      BY <3>1, <3>3, <2>1, <1>1, <1>2, <1>4, <1>7, <1>8 DEF Showing, TapEncoder
    <3>4. CASE p # x
      BY <3>1, <3>2, <3>4, <1>2, <1>4, <1>7 DEF Showing
    <3>5. QED
      BY <3>3, <3>4
  <2>2. QED
    BY <2>1, <1>2, <1>7, <1>8 DEF TapInv, TapBuffer
<1>10. TapBefore'
  BY <1>2, <1>7 DEF TapInv, TapBefore
<1>11. OneBehind' /\ TapCopy' /\ InStream' /\ WholeFrames'
  BY <1>2
     DEF TapInv, OneBehind, TapCopy, InStream, WholeFrames, Tap!WholeFrames, Tap!locals
<1>12. QED
  BY <1>5, <1>6, <1>9, <1>10, <1>11 DEF TapInv

LEMMA OpensOutput == ASSUME Tap!TapConstants, TapInv, Tap!OpenOutput \/ Tap!FirstStamp PROVE TapInv'
<1>1. TapEncoder' /\ TapTypes'
  BY
     DEF TapInv, TapEncoder, TapStored, TapTypes, Tap!OpenOutput, Tap!FirstStamp,
         Tap!encoder, Tap!locals
<1>2. OneBehind' /\ TapBuffer' /\ TapCopy' /\ TapBefore'
  BY DEF OneBehind, TapBuffer, TapCopy, TapBefore, Tap!OpenOutput, Tap!FirstStamp
<1>3. InStream' /\ WholeFrames'
  BY
     DEF TapInv, InStream, WholeFrames, Tap!WholeFrames, Tap!OpenOutput, Tap!FirstStamp,
         Tap!locals
<1>4. QED
  BY <1>1, <1>2, <1>3 DEF TapInv

LEMMA Polls == ASSUME Tap!TapConstants, TapInv, Tap!Poll PROVE TapInv'
<1>1. TapEncoder /\ TapTypes
  BY DEF TapInv
<1>2. TapEncoder' /\ TapTypes'
  BY <1>1 DEF TapEncoder, TapStored, TapTypes, Tap!Poll, Tap!encoder
<1>3. OneBehind'
  BY <1>1 DEF OneBehind, TapEncoder, TapStored, Tap!Poll, Tap!encoder
<1>4. TapBuffer' /\ TapCopy' /\ TapBefore'
  BY DEF TapBuffer, TapCopy, TapBefore, Tap!Poll
<1>5. InStream'
  <2>1. SUFFICES ASSUME e_phase = "stream", e_pc' = "nap"
                 PROVE  Tap!Ahead(e_time', e_old) \in 1 .. LostGap - 1
    BY DEF TapInv, InStream, Tap!Poll
  <2>2. e_stamp # e_old /\ e_time' = e_stamp /\ ~(Tap!Ahead(e_stamp, e_old) >= LostGap)
    BY <2>1 DEF Tap!Poll
  <2>3. /\ Tap!Ahead(e_stamp, e_old) =
             IF e_stamp >= e_old THEN e_stamp - e_old ELSE e_stamp - e_old + Cycle
        /\ e_stamp \in 0 .. Cycle - 1 /\ e_old \in 0 .. Cycle - 1
    BY <1>1, Differences DEF TapEncoder, TapTypes, Tap!Frame
  <2>4. Cycle \in Nat /\ LostGap \in Nat
    BY Sizes
  <2>5. Tap!Ahead(e_stamp, e_old) \in 1 .. LostGap - 1
    BY <2>2, <2>3, <2>4
  <2>6. QED
    BY <2>2, <2>5
<1>6. WholeFrames'
  BY DEF TapInv, WholeFrames, Tap!WholeFrames, Tap!Poll
<1>7. QED
  BY <1>2, <1>3, <1>4, <1>5, <1>6 DEF TapInv

LEMMA ReadsLength == ASSUME Tap!TapConstants, TapInv, Tap!ReadLen PROVE TapInv'
<1>1. TapEncoder /\ TapTypes
  BY DEF TapInv
<1>2. /\ e_pc = "nap" /\ e_storing = {} /\ e_got' = e_len /\ e_at' = 0 /\ e_pc' = "copy"
      /\ e_before' = Tap!Zeros(Span[e_len])
      /\ UNCHANGED <<Tap!encoder, e_opt, e_phase, e_old, e_time, e_copied, e_out>>
  BY DEF Tap!ReadLen, Tap!Settled
<1>3. UNCHANGED <<e_buf, e_len, e_stamp, e_storing, e_newest>>
  BY <1>2 DEF Tap!encoder
<1>4. e_len = e_newest /\ e_len \in Tap!Frame /\ 1 .. 0 = {}
  BY <1>1, <1>2 DEF TapEncoder
<1>5. TapEncoder'
  BY <1>1, <1>3 DEF TapEncoder, TapStored
<1>6. TapTypes'
  <2>1. 0 \in 0 .. Chunks
    BY <1>4, Spans
  <2>2. QED
    BY <2>1, <1>1, <1>2, <1>4 DEF TapTypes
<1>7. OneBehind' /\ InStream' /\ WholeFrames'
  BY <1>2, <1>3 DEF TapInv, OneBehind, InStream, WholeFrames, Tap!WholeFrames
<1>8. TapBuffer'
  <2>1. \A p \in 1 .. Span[e_len] : e_buf[p] = e_newest
    <3>1. \A p \in 1 .. Span[e_len] : p \in Tap!Piece /\ p <= Span[e_newest]
      BY <1>4, Spans
    <3>2. QED
      BY <3>1, <1>1, <1>2 DEF TapEncoder
  <2>2. 0 <= Span[e_len]
    BY <1>4, Spans
  <2>3. e_newest' = e_got' /\ e_storing' = {} /\ e_at' <= Span[e_got']
    BY <2>2, <1>2, <1>3, <1>4
  <2>4. \A p \in 1 .. Span[e_got'] : e_buf'[p] = e_got'
    BY <2>1, <1>2, <1>3, <1>4
  <2>5. QED
    BY <2>3, <2>4 DEF TapBuffer, Showing
<1>9. TapCopy' /\ TapBefore'
  BY <1>2, <1>4 DEF TapCopy, TapBefore
<1>10. QED
  BY <1>5, <1>6, <1>7, <1>8, <1>9 DEF TapInv

LEMMA CopiesPiece == ASSUME Tap!TapConstants, TapInv, Tap!CopyPiece PROVE TapInv'
<1>1. TapEncoder /\ TapTypes
  BY DEF TapInv
<1>2. /\ e_pc = "copy" /\ e_at' = e_at + 1 /\ e_at < Span[e_got] /\ e_at \in Nat
      /\ e_copied' = [e_copied EXCEPT ![e_at + 1] = e_buf[e_at + 1]]
      /\ UNCHANGED <<Tap!encoder, e_opt, e_pc, e_phase, e_old, e_time, e_got, e_before, e_out>>
  BY <1>1 DEF Tap!CopyPiece, TapTypes
<1>3. e_at + 1 \in 1 .. Span[e_got] /\ e_at + 1 \in Tap!Piece /\ e_got \in Tap!Frame
  BY <1>1, <1>2, Spans DEF TapTypes
<1>4. /\ e_copied' \in [Tap!Piece -> Tap!Frame] /\ e_copied'[e_at + 1] = e_buf[e_at + 1]
      /\ \A i \in 1 .. e_at : e_copied'[i] = e_copied[i]
  <2>1. \A i \in 1 .. e_at : i \in Tap!Piece /\ i # e_at + 1
    BY <1>2, <1>3, Spans DEF Tap!Piece
  <2>2. QED
    BY <2>1, <1>1, <1>2, <1>3 DEF TapEncoder, TapTypes
<1>5. UNCHANGED <<e_buf, e_len, e_stamp, e_storing, e_newest>>
  BY <1>2 DEF Tap!encoder
<1>6. TapEncoder'
  BY <1>1, <1>5 DEF TapEncoder, TapStored
<1>7. TapTypes'
  <2>1. e_at' \in 0 .. Chunks
    BY <1>2, <1>3, Spans
  <2>2. QED
    BY <2>1, <1>1, <1>2, <1>4 DEF TapTypes
<1>8. \A i \in 1 .. e_at' : i = e_at + 1 \/ i \in 1 .. e_at
  BY <1>2
<1>9. OneBehind' /\ InStream' /\ WholeFrames'
  BY <1>2, <1>5 DEF TapInv, OneBehind, InStream, WholeFrames, Tap!WholeFrames
<1>10. TapBuffer'
  <2>1. e_at' <= Span[e_got]
    BY <1>3, <1>2, Spans
  <2>2. QED
    BY <2>1, <1>2, <1>5 DEF TapInv, TapBuffer, Showing
<1>11. e_buf[e_at + 1] = Showing(e_at + 1)
  BY <1>2, <1>3 DEF TapInv, TapBuffer
<1>12. TapCopy'
  BY <1>2, <1>4, <1>5, <1>8, <1>11 DEF TapInv, TapCopy, Showing
<1>13. TapBefore'
  <2>1. ASSUME e_newest = Succ(e_got), e_storing = {}, \A i \in 1 .. e_at : e_copied[i] = Late(i)
        PROVE  \A i \in 1 .. e_at' : e_copied'[i] = Late(i)
    <3>1. e_newest # e_got
      BY <2>1, <1>3, NextFrame
    <3>2. e_buf[e_at + 1] = Late(e_at + 1)
      BY <3>1, <2>1, <1>11 DEF Showing, Late
    <3>3. QED
      BY <2>1, <3>2, <1>4, <1>8
  <2>2. QED
    BY <2>1, <1>2, <1>5 DEF TapInv, TapBefore, Late
<1>14. QED
  BY <1>6, <1>7, <1>9, <1>10, <1>12, <1>13 DEF TapInv

LEMMA CopiesAgain == ASSUME Tap!TapConstants, TapInv, Tap!CopyAgain PROVE TapInv'
<1>1. TapEncoder /\ TapTypes
  BY DEF TapInv
<1>2. /\ e_pc = "copy" /\ e_at = Span[e_got] /\ e_storing = {} /\ e_at' = 0
      /\ e_before' = [p \in Compared[Span[e_got]] |-> e_copied[p]]
      /\ UNCHANGED <<Tap!encoder, e_opt, e_pc, e_phase, e_old, e_time, e_got, e_copied, e_out>>
  BY DEF Tap!CopyAgain, Tap!Filled, Tap!check2, Tap!fillCheck, Tap!Settled
<1>3. UNCHANGED <<e_buf, e_len, e_stamp, e_storing, e_newest>>
  BY <1>2 DEF Tap!encoder
<1>4. /\ 0 \in 0 .. Chunks /\ 1 .. 0 = {} /\ 0 <= Span[e_got]
      /\ Compared[Span[e_got]] \subseteq 1 .. e_at
  BY <1>1, <1>2, Spans DEF TapTypes
<1>5. TapEncoder'
  BY <1>1, <1>3 DEF TapEncoder, TapStored
<1>6. TapTypes'
  BY <1>1, <1>2, <1>4 DEF TapTypes
<1>7. OneBehind' /\ InStream' /\ WholeFrames'
  BY <1>2, <1>3 DEF TapInv, OneBehind, InStream, WholeFrames, Tap!WholeFrames
<1>8. TapBuffer' /\ TapCopy'
  BY <1>2, <1>3, <1>4 DEF TapInv, TapBuffer, TapCopy, Showing
<1>9. TapBefore'
  <2>1. CASE e_newest = e_got
    <3>1. \A i \in Compared[Span[e_got]] : e_copied[i] = e_got
      BY <2>1, <1>2, <1>4 DEF TapInv, TapCopy
    <3>2. QED
      BY <3>1, <1>2, <1>3 DEF TapBefore
  <2>2. CASE e_newest = Succ(e_got)
    BY <2>2, <1>2, <1>3, <1>4 DEF TapBefore
  <2>3. QED
    BY <2>1, <2>2, <1>2 DEF TapInv, TapBuffer
<1>10. QED
  BY <1>5, <1>6, <1>7, <1>8, <1>9 DEF TapInv

(* What is written has a type, and the parts that hold the picture.        *)
LEMMA Parts ==
  ASSUME NEW o, NEW c, NEW start \in BOOLEAN
  PROVE  /\ Tap!Written(o, c, start) \in Seq(Tap!Sent)
         /\ c \in {"sps 1080", "sps 360", "sps", "vps"} /\ ~(o.ssf0 /\ ~o.noti)
              => \E i \in DOMAIN Tap!Written(o, c, start) :
                   Tap!Written(o, c, start)[i] \in {"all", "idr", "rest"}
<1> DEFINE Holds(w) == w \in Seq(Tap!Sent) /\ \E i \in DOMAIN w : w[i] \in {"all", "idr", "rest"}
<1>1. Holds(<<"all">>) /\ Holds(<<"ti", "pps", "idr">>) /\ Holds(<<"ti", "rest">>)
  <2>1. 1 \in DOMAIN <<"all">> /\ <<"all">>[1] = "all"
    OBVIOUS
  <2>2. 3 \in DOMAIN <<"ti", "pps", "idr">> /\ <<"ti", "pps", "idr">>[3] = "idr"
    OBVIOUS
  <2>3. 2 \in DOMAIN <<"ti", "rest">> /\ <<"ti", "rest">>[2] = "rest"
    OBVIOUS
  <2>4. /\ <<"all">> \in Seq(Tap!Sent) /\ <<"ti", "pps", "idr">> \in Seq(Tap!Sent)
        /\ <<"ti", "rest">> \in Seq(Tap!Sent)
    BY DEF Tap!Sent
  <2>5. QED
    BY <2>1, <2>2, <2>3, <2>4
<1>2. Holds(<<"sps pps", "idr">>)
  <2>1. 2 \in DOMAIN <<"sps pps", "idr">> /\ <<"sps pps", "idr">>[2] = "idr"
    OBVIOUS
  <2>2. <<"sps pps", "idr">> \in Seq(Tap!Sent)
    BY DEF Tap!Sent
  <2>3. QED
    BY <2>1, <2>2
<1>3. <<>> \in Seq(Tap!Sent) /\ <<"after sei">> \in Seq(Tap!Sent)
  BY DEF Tap!Sent
<1> HIDE DEF Holds
<1>4. CASE ~o.noti /\ c \in {"sps 1080", "sps 360", "sps"}
  <2>1. Tap!Written(o, c, start) = Tap!Retimed(o, c, start)
    BY <1>4 DEF Tap!Written
  <2>2. CASE c = "sps" /\ o.ssf0
    <3>1. Tap!Retimed(o, c, start) \in {<<>>, Tap!Whole}
      BY <2>2 DEF Tap!Retimed
    <3>2. QED
      BY <2>1, <2>2, <3>1, <1>1, <1>3, <1>4 DEF Tap!Whole, Holds
  <2>3. CASE ~(c = "sps" /\ o.ssf0)
    <3>1. Tap!Retimed(o, c, start) \in {<<"ti", "pps", "idr">>, <<"ti", "rest">>, Tap!Whole}
      BY <2>3, <1>4 DEF Tap!Retimed
    <3>2. QED
      BY <2>1, <3>1, <1>1 DEF Tap!Whole, Holds
  <2>4. QED
    BY <2>2, <2>3
<1>5. CASE ~(~o.noti /\ c \in {"sps 1080", "sps 360", "sps"})
  <2>1. Tap!Written(o, c, start) \in {<<"sps pps", "idr">>, <<"after sei">>, Tap!Whole}
    BY <1>5 DEF Tap!Written
  <2>2. CASE c \in {"sps 1080", "sps 360", "sps", "vps"}
    <3>1. Tap!Written(o, c, start) \in {<<"sps pps", "idr">>, Tap!Whole}
      BY <1>5, <2>2 DEF Tap!Written
    <3>2. QED
      BY <3>1, <1>1, <1>2 DEF Tap!Whole, Holds
  <2>3. CASE c \notin {"sps 1080", "sps 360", "sps", "vps"}
    BY <2>1, <2>3, <1>1, <1>2, <1>3 DEF Tap!Whole, Holds
  <2>4. QED
    BY <2>2, <2>3
<1>6. QED
  BY <1>4, <1>5

(* The copy is written, or thrown away: the next one is polled for. *)
LEMMA Forgets ==
  ASSUME Tap!TapConstants, TapEncoder, TapTypes, e_pc = "copy",
         e_old' = e_time, e_pc' = "poll", Tap!Forget,
         UNCHANGED <<Tap!encoder, e_opt, e_time>>,
         e_phase' \in {"start", "stream"}, e_out' \in Tap!Output \cup {None}
  PROVE  TapEncoder' /\ TapTypes' /\ OneBehind' /\ TapBuffer' /\ TapCopy' /\ TapBefore'
<1>1. 0 \in Tap!Frame /\ 0 \in 0 .. Chunks /\ [p \in Tap!Piece |-> 0] \in [Tap!Piece -> Tap!Frame]
  BY Sizes, Spans DEF Tap!Frame
<1>2. TapEncoder' /\ TapTypes'
  BY <1>1 DEF TapEncoder, TapStored, TapTypes, Tap!Forget, Tap!encoder
<1>3. QED
  BY <1>2 DEF OneBehind, TapBuffer, TapCopy, TapBefore

LEMMA Emits ==
  ASSUME Tap!TapConstants, TapInv, Tap!Filled, Tap!Emit
  PROVE  /\ e_out' \in Tap!Output /\ e_out' # None
         /\ e_out'.frame = e_copied[1] /\ e_out'.of = e_copied /\ e_out'.start = (e_phase = "start")
         /\ e_out'.len = e_got /\ e_out'.late = (e_newest # e_got)
         /\ e_out'.parts = Tap!Written(e_opt, Content[e_copied[1]], e_phase = "start")
         /\ e_copied[1] \in {e_time, Succ(e_time)}
<1>1. /\ e_pc = "copy" /\ e_copied \in [Tap!Piece -> Tap!Frame] /\ e_got \in Tap!Frame
      /\ e_at = Span[e_got]
  BY DEF TapInv, TapTypes, Tap!Filled
<1>2. 1 \in Tap!Piece /\ 1 \in 1 .. e_at
  BY <1>1, Spans
<1>3. Tap!Written(e_opt, Content[e_copied[1]], e_phase = "start") \in Seq(Tap!Sent)
  BY Parts
<1>4. e_out' \in Tap!Output
  BY <1>1, <1>2, <1>3 DEF Tap!Emit, Tap!Output
<1>5. e_copied[1] \in {e_time, Succ(e_time)}
  <2>1. e_copied[1] \in {e_got, e_newest} /\ e_newest \in {e_time, Succ(e_time)}
    BY <1>1, <1>2 DEF TapInv, TapCopy, OneBehind
  <2>2. e_newest = e_got \/ e_got = e_time
    BY <1>1 DEF TapInv, TapBuffer
  <2>3. QED
    BY <2>1, <2>2
<1>6. QED
  BY <1>4, <1>5 DEF Tap!Emit, Tap!TapConstants

LEMMA StartsStream == ASSUME Tap!TapConstants, TapInv, Tap!StartStream PROVE TapInv'
<1>1. /\ Tap!Filled /\ e_pc = "copy" /\ e_phase = "start"
      /\ UNCHANGED <<Tap!encoder, e_opt, e_time>>
      /\ TapEncoder /\ TapTypes
  BY DEF TapInv, Tap!StartStream, Tap!Filled
<1>2. CASE Tap!IsKey(e_copied[1])
  <2>1. Tap!Emit /\ e_phase' = "stream"
    BY <1>2 DEF Tap!StartStream
  <2>2. /\ e_out' \in Tap!Output /\ e_out' # None /\ e_out'.start
        /\ e_out'.frame = e_copied[1] /\ e_copied[1] \in {e_time, Succ(e_time)}
    BY <1>1, <2>1, Emits
  <2>3. TapEncoder' /\ TapTypes' /\ OneBehind' /\ TapBuffer' /\ TapCopy' /\ TapBefore'
    BY <1>1, <2>1, <2>2, Forgets DEF Tap!Emit
  <2>4. InStream' /\ WholeFrames'
    BY <1>1, <2>1, <2>2 DEF InStream, WholeFrames, Tap!WholeFrames, Tap!Emit, Succ
  <2>5. QED
    BY <2>3, <2>4 DEF TapInv
<1>3. CASE ~Tap!IsKey(e_copied[1])
  <2>1. e_old' = e_time /\ e_pc' = "poll" /\ Tap!Forget /\ UNCHANGED <<e_phase, e_out>>
    BY <1>3 DEF Tap!StartStream
  <2>2. TapEncoder' /\ TapTypes' /\ OneBehind' /\ TapBuffer' /\ TapCopy' /\ TapBefore'
    BY <1>1, <2>1, Forgets DEF TapTypes
  <2>3. InStream' /\ WholeFrames'
    BY <1>1, <2>1 DEF TapInv, InStream, WholeFrames, Tap!WholeFrames
  <2>4. QED
    BY <2>2, <2>3 DEF TapInv
<1>4. QED
  BY <1>2, <1>3

(* Copies whose samples agree are of the frame whose length was read,      *)
(* wherever it was sampled, or of the next in the place of it.             *)
LEMMA EqualCopies ==
  ASSUME Tap!TapConstants, TapInv, Tap!Filled, e_before = Tap!check2
  PROVE  /\ e_newest = e_got => \A p \in 1 .. Span[e_got] : e_copied[p] = e_got
         /\ \/ \A p \in Compared[Span[e_got]] : e_copied[p] = e_got
            \/ e_newest = Succ(e_got) /\ \A p \in 1 .. Span[e_got] : e_copied[p] = Late(p)
<1> DEFINE C == Compared[Span[e_got]]
<1>1. /\ e_pc = "copy" /\ e_at = Span[e_got] /\ e_got \in Tap!Frame
      /\ e_copied \in [Tap!Piece -> Tap!Frame]
      /\ e_before = [p \in C |-> e_copied[p]]
  BY DEF TapInv, TapTypes, Tap!Filled, Tap!check2, Tap!fillCheck
<1>2. \A p \in C : e_copied[p] \in Tap!Frame /\ e_copied[p] # None
  BY <1>1, Spans DEF Tap!TapConstants
<1>3. e_newest = e_got => \A p \in 1 .. Span[e_got] : e_copied[p] = e_got
  BY <1>1 DEF TapInv, TapCopy
<1>4. CASE e_before = Tap!Zeros(Span[e_got])
  <2>1. \A p \in C : e_before[p] = e_copied[p] /\ e_before[p] = None
    BY <1>1, <1>4 DEF Tap!Zeros
  <2>2. C = {}
    BY <2>1, <1>2
  <2>3. QED
    BY <2>2, <1>3
<1>5. CASE e_before = [p \in C |-> e_got]
  <2>1. \A p \in C : e_before[p] = e_copied[p] /\ e_before[p] = e_got
    BY <1>1, <1>5
  <2>2. QED
    BY <2>1, <1>3
<1>6. CASE e_newest = Succ(e_got) /\ \A i \in 1 .. e_at : e_copied[i] = Late(i)
  BY <1>1, <1>3, <1>6
<1>7. QED
  BY <1>1, <1>4, <1>5, <1>6 DEF TapInv, TapBefore

LEMMA WritesFrame == ASSUME Tap!TapConstants, TapInv, Tap!WriteFrame PROVE TapInv'
<1>1. /\ Tap!Filled /\ e_pc = "copy" /\ e_phase = "stream" /\ e_before = Tap!check2 /\ Tap!Emit
      /\ UNCHANGED <<Tap!encoder, e_opt, e_time, e_phase>> /\ TapEncoder /\ TapTypes
  BY DEF TapInv, Tap!WriteFrame, Tap!Filled
<1>2. /\ e_out' \in Tap!Output /\ e_out' # None /\ e_out'.of = e_copied
      /\ e_out'.frame = e_copied[1] /\ e_out'.len = e_got /\ e_out'.late = (e_newest # e_got)
      /\ e_out'.parts = Tap!Written(e_opt, Content[e_copied[1]], FALSE)
      /\ e_copied[1] \in {e_time, Succ(e_time)}
  BY <1>1, Emits
<1>3. TapEncoder' /\ TapTypes' /\ OneBehind' /\ TapBuffer' /\ TapCopy' /\ TapBefore'
  BY <1>1, <1>2, Forgets DEF Tap!Emit
<1>4. InStream'
  BY <1>1, <1>2 DEF InStream, Tap!Emit, Succ
<1>5. WholeFrames'
  <2> DEFINE o == e_out'
             n == Span[o.len]
             next == Tap!Following(o.len)
  <2>1. ~o.late => \A p \in 1 .. n : o.of[p] = o.len
    BY <1>1, <1>2, EqualCopies
  <2>2. \/ \A p \in Compared[n] : o.of[p] = o.len
        \/ \A p \in 1 .. n : o.of[p] = IF p <= Span[next] THEN next ELSE o.len
    BY <1>1, <1>2, EqualCopies DEF Late, Succ, Tap!Following
  <2>3. Tap!IsKey(o.frame) /\ ~(e_opt.ssf0 /\ ~e_opt.noti)
          => \E i \in DOMAIN o.parts : o.parts[i] \in {"all", "idr", "rest"}
    BY <1>2, Parts DEF Tap!IsKey
  <2>4. e_opt' = e_opt /\ Tap!IsKey(e_out.frame)' = Tap!IsKey(e_out'.frame)
    BY <1>1 DEF Tap!IsKey
  <2>5. QED
    BY <2>1, <2>2, <2>3, <2>4 DEF WholeFrames, Tap!WholeFrames, Tap!Following
<1>6. QED
  BY <1>3, <1>4, <1>5 DEF TapInv

LEMMA TapInductive == ASSUME Tap!TapConstants, TapInv, [Tap!Next]_Tap!vars PROVE TapInv'
<1>1. CASE UNCHANGED Tap!vars
  <2>1. TapEncoder' /\ TapTypes'
    BY <1>1 DEF TapInv, Tap!vars, TapEncoder, TapStored, TapTypes
  <2>2. OneBehind' /\ TapBuffer' /\ TapCopy' /\ TapBefore'
    BY <1>1 DEF TapInv, Tap!vars, OneBehind, TapBuffer, TapCopy, TapBefore, Showing, Late
  <2>3. InStream' /\ WholeFrames'
    BY <1>1 DEF TapInv, Tap!vars, InStream, WholeFrames, Tap!WholeFrames
  <2>4. QED
    BY <2>1, <2>2, <2>3 DEF TapInv
<1>2. CASE Tap!Encoder
  BY <1>2, BeginsFrame, StoresPart DEF Tap!Encoder
<1>3. QED
  BY <1>1, <1>2, OpensOutput, Polls, ReadsLength, CopiesPiece, StartsStream, CopiesAgain,
     WritesFrame DEF Tap!Next

-----------------------------------------------------------------------------
LEMMA TapOk == Tap!TapConstants
BY ReaderAssumption

(* Of the three readers, h264grabber behaves as EncoderTap says.           *)
LEMMA TapSteps == [ReadersNext]_readers => [Tap!Next]_Tap!vars
<1>1. UNCHANGED tapVars => UNCHANGED Tap!vars
  BY DEF tapVars, Tap!vars
<1>2. QED
  BY <1>1 DEF ReadersNext, readers, Others

LEMMA TapInvariance == ReadersSpec => []TapInv
<1>1. ReadersInit => TapInv
  BY TapInitially, TapOk DEF ReadersInit
<1>2. TapInv /\ [ReadersNext]_readers => TapInv'
  BY TapSteps, TapInductive, TapOk
<1>3. QED
  BY <1>1, <1>2, PTL DEF ReadersSpec

(* However the encoder overwrites its one buffer while the program copies  *)
(* it, for any lengths of the frames and whichever pieces are compared: a  *)
(* frame written in a stream is whole if no other came up meanwhile, it is *)
(* one frame wherever it is compared, or the next one in the place of it,  *)
(* and a key frame comes with its picture.                                 *)
THEOREM FramesAreWhole == ReadersSpec => []WholeFrames
<1>1. TapInv => WholeFrames
  BY DEF TapInv
<1>2. QED
  BY <1>1, TapInvariance, PTL

(* A stream starts with a key frame, and two frames of it are never        *)
(* further apart than what the code calls in sync, with timestamps that    *)
(* wrap.                                                                   *)
THEOREM GapsEndInKeys == ReadersSpec => KeyAfterGap
<1> DEFINE Close == e_out' # e_out =>
       IF e_out = None \/ e_out'.start THEN Tap!IsKey(e_out'.frame)
       ELSE Tap!Ahead(e_out'.frame, e_out.frame) <= LostGap
<1>1. ASSUME TapInv, Tap!Next PROVE Close
  <2>1. CASE Tap!StartStream
    <3>1. CASE Tap!IsKey(e_copied[1])
      <4>1. Tap!Filled /\ e_phase = "start" /\ Tap!Emit
        BY <2>1, <3>1 DEF Tap!StartStream
      <4>2. e_out'.frame = e_copied[1] /\ e_out'.start
        BY <1>1, <4>1, Emits, TapOk
      <4>3. QED
        BY <3>1, <4>2
    <3>2. CASE ~Tap!IsKey(e_copied[1])
      BY <2>1, <3>2 DEF Tap!StartStream
    <3>3. QED
      BY <3>1, <3>2
  <2>2. CASE Tap!WriteFrame
    <3>1. Tap!Filled /\ e_pc = "copy" /\ e_phase = "stream" /\ Tap!Emit
      BY <2>2 DEF Tap!WriteFrame, Tap!Filled
    <3>2. e_out'.frame \in {e_time, Succ(e_time)} /\ ~e_out'.start
      BY <1>1, <3>1, Emits, TapOk
    <3>3. /\ e_out # None /\ e_out.frame \in {e_old, Succ(e_old)}
          /\ Tap!Ahead(e_time, e_old) \in 1 .. LostGap - 1
          /\ e_time \in Tap!Frame /\ e_old \in Tap!Frame
      BY <1>1, <3>1 DEF TapInv, InStream, TapTypes
    <3>4. Tap!Ahead(e_out'.frame, e_out.frame) <= LostGap
      BY <3>2, <3>3, GapBound, TapOk
    <3>5. QED
      BY <3>2, <3>3, <3>4
  <2>3. CASE e_out' = e_out
    BY <2>3
  <2>4. QED
    BY <1>1, <2>1, <2>2, <2>3
       DEF Tap!Next, Tap!Encoder, Tap!OpenOutput, Tap!FirstStamp, Tap!Poll, Tap!ReadLen,
           Tap!CopyPiece, Tap!CopyAgain
<1>2. TapInv /\ [ReadersNext]_readers => [Close]_e_out
  BY <1>1, TapSteps DEF Tap!vars
<1>3. QED
  BY TapInvariance, <1>2, PTL DEF ReadersSpec, KeyAfterGap, Tap!KeyAfterGap
=============================================================================
