---------------------------- MODULE PictureLayout ----------------------------
(***************************************************************************)
(* How imggrabber turns a picture buffer into the rows libjpeg is given.   *)
(* A buffer is a function from addresses to the address each byte had in   *)
(* the camera's memory, so that a conversion shows where it took each byte *)
(* from; Garbage is a byte nobody wrote.  The conversions work in place,   *)
(* one strip of blocks at a time, through the small buffer bufOut.         *)
(***************************************************************************)
EXTENDS Integers

CONSTANTS
  MB,          \* W_MB, H_MB: a macro block is MB x MB, split in four
  B,           \* W_B, H_B: the small blocks of the H305R
  Wd, Ht,      \* W_HIGH, H_HIGH
  UvOff,       \* UV_OFFSET_HIGH: where the chroma of a high picture begins
  LowW, LowH,  \* W_LOW, H_LOW
  UvGap        \* UV_OFFSET_LOW: bytes between luma and chroma of a low one

ASSUME LayoutAssumption ==
  /\ {MB, B, Wd, Ht, LowW, LowH} \subseteq Nat \ {0} /\ UvGap \in Nat
  /\ MB % (2 * B) = 0 /\ Wd % MB = 0 /\ Ht % MB = 0
  /\ LowW % 2 = 0 /\ LowH % 2 = 0
  /\ UvOff \in Nat /\ UvOff >= Wd * Ht

Garbage == -1
Half(n) == n \div 2
Camera(size) == [a \in 0 .. size - 1 |-> a]
HighSize == UvOff + Half(Wd * Ht)
LowSize == LowW * LowH + UvGap + Half(LowW * LowH)

(* len bytes from address in are spread over bufOut by dest and bufOut is  *)
(* moved to address to.                                                    *)
Strip(buf, in, to, len, dest) ==
  LET From(d) == IF \E n \in 0 .. len - 1 : dest[n] = d
                 THEN buf[in + CHOOSE n \in 0 .. len - 1 : dest[n] = d] ELSE Garbage
  IN [a \in DOMAIN buf |-> IF a \in to .. to + len - 1 THEN From(a - to) ELSE buf[a]]

(* Where byte n of a strip goes: four sub-blocks per macro block; a block  *)
(* of U, then one of V; blocks read backwards; pairs with V first.         *)
LumaTile == [n \in 0 .. Wd * MB - 1 |->
  LET k == (n \div Half(Half(MB * MB))) % 4
      l == n % Half(Half(MB * MB))
  IN (n \div (MB * MB)) * MB + (k % 2) * Half(MB) + (k \div 2) * Half(MB) * Wd
     + (l \div Half(MB)) * Wd + (l % Half(MB))]

ChromaTile == [n \in 0 .. Half(Wd * MB) - 1 |->
  LET l == n % Half(Half(MB * MB))
  IN (n \div Half(MB * MB)) * MB + (l \div Half(MB)) * Wd + 2 * (l % Half(MB))
     + ((n \div Half(Half(MB * MB))) % 2)]

LumaBlock == [n \in 0 .. Wd * B - 1 |->
  LET l == n % (B * B)
  IN (n \div (B * B)) * B + (B - 1 - l \div B) * Wd + B - 1 - (l % B)]

ChromaBlock == [n \in 0 .. Wd * B - 1 |->
  LET l == Half(n) % (B * B)
  IN 2 * ((Half(n) \div (B * B)) * B + (l \div B) * Half(Wd) + B - 1 - (l % B)) + 1 - (n % 2)]

(* The loops over the strips: the first one reads and writes at the same   *)
(* place, the second one moves the chroma down next to the luma.           *)
Strips(buf, n, in, to, len, dest) ==
  LET after[i \in 0 .. n] ==
        IF i = 0 THEN buf
        ELSE Strip(after[i - 1], in + (i - 1) * len, to + (i - 1) * len, len, dest)
  IN after[n]

img2YUV(buf) ==
  Strips(Strips(buf, Ht \div MB, 0, 0, Wd * MB, LumaTile),
         Ht \div MB, UvOff, Wd * Ht, Half(Wd * MB), ChromaTile)

img2YUV_2(buf) ==
  Strips(Strips(buf, Ht \div B, 0, 0, Wd * B, LumaBlock),
         Half(Ht) \div B, UvOff, Wd * Ht, Wd * B, ChromaBlock)

lowYUV(buf) ==
  [a \in DOMAIN buf |-> IF a \in LowW * LowH .. Half(3 * LowW * LowH) - 1
                        THEN buf[a + UvGap] ELSE buf[a]]

(* frame_decode: the planes of a decoded dw x dh frame, chroma interleaved,*)
(* at the beginning of a buffer for a w x h one.                           *)
Decoded(dw, dh, w, h) ==
  [a \in 0 .. Half(3 * w * h) - 1 |-> IF a < Half(3 * dw * dh) THEN a ELSE Garbage]

JpegPixelLate(buf, w, h, x, y) ==
  LET offset == y * w + x - (x % 2)
      uv == w * (h - Half(y))
  IN <<buf[offset + (x % 2)], buf[offset + uv], buf[offset + uv + 1]>>

(* YUVtoJPG: luma, U and V of pixel <<x, y>>.                              *)
JpegPixel(buf, w, h, x, y) ==
  LET offset == y * w + x - (x % 2)
      uv == w * (h - Half(y + 1))
  IN <<buf[offset + (x % 2)], buf[offset + uv], buf[offset + uv + 1]>>

Jpeg(buf, w, h) ==
  [p \in (0 .. w - 1) \X (0 .. h - 1) |-> JpegPixel(buf, w, h, p[1], p[2])]

-----------------------------------------------------------------------------
(* The same layouts read from the picture's side: where the camera keeps   *)
(* the three bytes of pixel <<x, y>>.                                      *)
Nv12At(base, w, x, y) == base + Half(y) * w + x - (x % 2)

TiledAt(x, y) ==
  LET block == (y \div MB) * (Wd \div MB) + x \div MB
      within(n, bx, by) == (by % n) * n + (bx % n)
      quarter == 2 * ((y % MB) \div Half(MB)) + ((x % MB) \div Half(MB))
      u == UvOff + block * Half(MB * MB) + within(Half(MB), Half(x), Half(y))
  IN <<block * MB * MB + quarter * Half(MB) * Half(MB) + within(Half(MB), x, y),
       u, u + Half(MB) * Half(MB)>>

BlockedAt(x, y) ==
  LET start(w, bx, by) == ((by \div B) * (w \div B) + bx \div B) * B * B
      v == UvOff + 2 * (start(Half(Wd), Half(x), Half(y)) + (Half(y) % B) * B
                        + B - 1 - (Half(x) % B))
  IN <<start(Wd, x, y) + (B - 1 - (y % B)) * B + B - 1 - (x % B), v + 1, v>>

LowAt(x, y) ==
  LET u == Nv12At(LowW * LowH + UvGap, LowW, x, y) IN <<y * LowW + x, u, u + 1>>

DecodedAt(dw, dh, x, y) ==
  LET u == Nv12At(dw * dh, dw, x, y) IN <<y * dw + x, u, u + 1>>
=============================================================================
