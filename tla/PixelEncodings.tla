--------------------------- MODULE PixelEncodings ---------------------------
(* The encoders of a rectangle (rfbserver.c, rre.c, corre.c, hextile.c,      *)
(* zlib.c, ultra.c, tight.c): what each writes to cl->updateBuf, and when    *)
(* that is flushed.  The viewer's pixels are 32 bits wide with 24 bits of    *)
(* colour.  A rectangle's data is a function of its points; a sequence of    *)
(* items stands for the bytes, and the bytes they take are counted.          *)
EXTENDS Integers, Sequences, SequencesExt, FiniteSets, FiniteSetsExt

CONSTANTS
  UPDATE_BUF_SIZE,
  HextileSize, CorreMax,          \* 16 and 48 (correMaxWidth, correMaxHeight)
  MaxStripSize,                   \* ZLIB_MAX_RECT_SIZE, ULTRA_MAX_RECT_SIZE
  MinSplitRect, MaxSplitTile, MinSolidSubrect,      \* 4096, 16, 2048 of tight.c
  MaxRectSize, MaxRectWidth, ColorsDivisor, MonoMinRect,   \* a row of tightConf,
  ZlibLevel,                      \* its rawZlibLevel, monoZlibLevel and idxZlibLevel
  PackedLens                      \* lengths of compressed bodies, see BodyLen

\* What the code takes for granted of its tables, and of updateBuf: that a tile of
\* Hextile fits into it, and a palette of Tight.
ASSUME EncodingAssumption ==
  /\ \A n \in {UPDATE_BUF_SIZE, HextileSize, CorreMax, MaxStripSize, MinSplitRect, MaxSplitTile,
               MinSolidSubrect, MaxRectSize, MaxRectWidth, ColorsDivisor, MonoMinRect} :
       n \in Nat \ {0}
  /\ MaxRectWidth <= MaxRectSize
  /\ 1 + (2 + HextileSize * HextileSize) * 4 <= UPDATE_BUF_SIZE
  /\ ZlibLevel \in [{"full", "mono", "indexed"} -> Nat]
  /\ PackedLens \in Seq(Nat \ {0}) /\ PackedLens # <<>>
  /\ \A n \in 2..256 : n = 2 \/ n <= MaxRectSize \div ColorsDivisor => 18 + n * 4 <= UPDATE_BUF_SIZE

BPP == 4                          \* cl->format.bitsPerPixel / 8
sz_rfbFramebufferUpdateRectHeader == 12
sz_rfbRREHeader == 4              \* and sz_rfbZlibHeader
VNC_ENCODE_ZLIB_MIN_COMP_SIZE == 17
TIGHT_MIN_TO_COMPRESS == 12
PIXEL24 == 3                      \* a colour that Pack24 has packed

Rect(x, y, w, h) == [x |-> x, y |-> y, w |-> w, h |-> h]
Area(r) == r.w * r.h
Points(r) == (r.x .. r.x + r.w - 1) \X (r.y .. r.y + r.h - 1)
\* translateFn: the pixels of r, from <<0, 0>>.
Crop(pic, r) == [p \in Points(Rect(0, 0, r.w, r.h)) |-> pic[<<r.x + p[1], r.y + p[2]>>]]
Lesser(a, b) == IF a < b THEN a ELSE b

\* What step makes of start when it is given the members of seq one by one: the
\* loops of the encoders and decoders.
InTurn(step(_, _), start, seq) ==
  LET after[i \in 0 .. Len(seq)] == IF i = 0 THEN start ELSE step(after[i - 1], seq[i])
  IN  after[Len(seq)]
UpTo(n) == [i \in 1 .. n |-> i]

\* Point i of the points of a rectangle of width w, line by line.
Nth(i, w) == <<(i - 1) % w, (i - 1) \div w>>
Flat(data, r) == [i \in 1..Area(r) |-> data[Nth(i, r.w)]]

-----------------------------------------------------------------------------
(* cl->updateBuf.  high is the largest ublen there was, headers the number of *)
(* rectangles begun and deflated that of the bodies each compressor has       *)
(* produced in this update.                                                  *)

Streams == {"zlib", "zrle", "full", "mono", "indexed"}
Empty == [ublen |-> 0, high |-> 0, headers |-> 0, items |-> <<>>,
          deflated |-> [s \in Streams |-> 0]]
rfbSendUpdateBuf(o) == [o EXCEPT !.ublen = 0]

\* Faulty Room: asks only whether the buffer is full.
RoomForOne(o, n) == IF o.ublen >= UPDATE_BUF_SIZE THEN rfbSendUpdateBuf(o) ELSE o

\* The room an encoder asks for before it writes.
Room(o, n) == IF o.ublen + n > UPDATE_BUF_SIZE THEN rfbSendUpdateBuf(o) ELSE o
Peak(o, n) == IF o.high < n THEN n ELSE o.high
Put(o, item, n) ==
  [o EXCEPT !.ublen = @ + n, !.items = Append(@, item),
            !.high = Peak(o, o.ublen + n)]
Header(o, r, enc) ==
  [Put(o, <<"rect", r, enc>>, sz_rfbFramebufferUpdateRectHeader) EXCEPT !.headers = @ + 1]

\* The loop that copies a body of n bytes and flushes whenever the buffer is full.
Copied(o, item, n) ==
  [o EXCEPT !.items = Append(@, item), !.high = Peak(o, Lesser(o.ublen + n, UPDATE_BUF_SIZE)),
            !.ublen = IF n = 0 THEN @ ELSE (@ + n) % UPDATE_BUF_SIZE]

\* A compressor's next body: only the order of its bodies matters.
Deflate(o, s) == [o EXCEPT !.deflated[s] = @ + 1]
Body(o, s, data) == <<"deflated", s, o.deflated[s], data>>

\* The bytes a compressed body takes: each belongs to a rectangle of its own, and
\* may be of any length, shorter or longer than updateBuf.
BodyLen(o) == PackedLens[(o.headers % Len(PackedLens)) + 1]

-----------------------------------------------------------------------------
(* Raw: as many whole lines as there is room for, again and again.           *)

\* The lines that are in the buffer at the end, and the bytes ahead of them.
RawTail(r) ==
  LET lines == UPDATE_BUF_SIZE \div (r.w * BPP)
      first == Lesser(r.h, (UPDATE_BUF_SIZE - sz_rfbFramebufferUpdateRectHeader) \div (r.w * BPP))
  IN  IF first = r.h THEN sz_rfbFramebufferUpdateRectHeader + r.h * r.w * BPP
      ELSE (((r.h - first - 1) % lines) + 1) * r.w * BPP

rfbSendRectEncodingRaw(o, pic, r) ==
  LET header == Header(rfbSendUpdateBuf(o), r, "raw")
  IN  [Put(header, <<"pixels", Crop(pic, r)>>, 0)
         EXCEPT !.ublen = RawTail(r), !.high = Peak(header, RawTail(r))]

-----------------------------------------------------------------------------
(* Subrectangles.                                                            *)

\* The last point of the line of p's colour that starts in column p[1] of line j.
RunEnd(d, w, p, j) ==
  Max({i \in p[1]..w - 1 : \A k \in p[1]..i : d[<<k, j>>] = d[p]})

\* The larger of the two rectangles of one colour whose corner is p: as wide
\* as p's own line, and as high as p's column.
Subrect(d, w, h, p) ==
  LET x == p[1] y == p[2]
      vy == Max({j \in y..h - 1 : \A k \in y..j : d[<<x, k>>] = d[p]})
      vx == Min({RunEnd(d, w, p, j) : j \in y..vy})
      hx == RunEnd(d, w, p, y)
      hy == Max({j \in y..vy : \A k \in y..j : RunEnd(d, w, p, k) >= hx})
      wide == Rect(x, y, hx - x + 1, hy - y + 1)
      high == Rect(x, y, vx - x + 1, vy - y + 1)
  IN  IF Area(wide) > Area(high) THEN wide ELSE high

\* subrectEncode: <<colour, rectangle>> for all that is not of the background,
\* each "marked as done" before the next is looked for.
Subrects(data, r, bg) ==
  LET step(acc, i) ==
        LET p == Nth(i, r.w) IN
        IF acc.d[p] = bg THEN acc
        ELSE LET s == Subrect(acc.d, r.w, r.h, p)
             IN  [d    |-> [q \in DOMAIN acc.d |-> IF q \in Points(s) THEN bg ELSE acc.d[q]],
                  subs |-> Append(acc.subs, <<acc.d[p], s>>)]
  IN  InTurn(step, [d |-> data, subs |-> <<>>], UpTo(Area(r))).subs

\* RRE, and CoRRE, whose coordinates take a byte each: raw if that is smaller.
Rre(o, pic, r, enc, szSubrect) ==
  LET data == Crop(pic, r)
      bg   == data[<<0, 0>>]                       \* getBgColour
      subs == Subrects(data, r, bg)
      len  == BPP + Len(subs) * (BPP + szSubrect)
      room == Room(o, sz_rfbFramebufferUpdateRectHeader + sz_rfbRREHeader)
  IN  IF len > Area(r) * BPP THEN rfbSendRectEncodingRaw(o, pic, r)
      ELSE Copied(Put(Header(room, r, enc), <<"subrects", Len(subs)>>, sz_rfbRREHeader),
                  <<"filled", bg, subs>>, len)

rfbSendRectEncodingRRE(o, pic, r) == Rre(o, pic, r, "rre", 8)

\* The tiles of r, line by line.
Tiles(r, w, h) ==
  LET cols == (r.w - 1) \div w + 1
      rows == (r.h - 1) \div h + 1
  IN  [i \in 1..cols * rows |->
         LET x == r.x + w * Nth(i, cols)[1] y == r.y + h * Nth(i, cols)[2]
         IN  Rect(x, y, Lesser(w, r.x + r.w - x), Lesser(h, r.y + r.h - y))]

\* The recursion splits off rows of CorreMax lines, and from each of them
\* tiles of that width.
rfbSendRectEncodingCoRRE(o, pic, r) ==
  LET send(out, t) == Rre(out, pic, t, "corre", 4)
  IN  InTurn(send, o, Tiles(r, CorreMax, CorreMax))

-----------------------------------------------------------------------------
(* Hextile: tiles, line by line, that remember the background and the        *)
(* foreground of the one before.                                             *)

\* testColours, which looks no further than the third colour.
Mono(data, r)  == Cardinality({data[p] : p \in DOMAIN data}) <= 2
Solid(data, r) == Cardinality({data[p] : p \in DOMAIN data}) = 1
TestColours(data, r) ==
  LET flat   == Flat(data, r)
      other  == {i \in DOMAIN flat : flat[i] # flat[1]}
      second == IF other = {} THEN flat[1] ELSE flat[Min(other)]
      third  == {i \in other : flat[i] # second}
      seen   == IF third = {} THEN DOMAIN flat ELSE 1..Min(third) - 1
      n1     == Cardinality({i \in seen : flat[i] = flat[1]})
  IN  IF n1 > Cardinality(seen) - n1
        THEN [bg |-> flat[1], fg |-> second] ELSE [bg |-> second, fg |-> flat[1]]

\* Faulty AfterRaw: a raw tile leaves both as they are.
AfterRawKept(c, fg) == [bg |-> <<c.bg>>, fg |-> fg]

\* What is left of them after a raw tile.
AfterRaw(c, fg) == [bg |-> <<>>, fg |-> <<>>]

\* The tile r with this data.  acc.bg and acc.fg are <<>> when the viewer's
\* are not known to be right.
Hextile(acc, data, r) ==
  LET c    == TestColours(data, r)
      mono == Mono(data, r)
      subs == Subrects(data, r, c.bg)
      size == IF mono THEN 2 ELSE BPP + 2
      newBg == acc.bg # <<c.bg>>
      newFg == mono /\ acc.fg # <<c.fg>>
      room == Room(acc.o, 1 + (2 + HextileSize * HextileSize) * BPP)
      tile(bg, fg, list) == <<"tile", bg, fg, mono, list>>
      Bg   == IF newBg THEN <<c.bg>> ELSE <<>>
      Fg   == IF newFg THEN <<c.fg>> ELSE <<>>
      start == 1 + (IF newBg THEN BPP ELSE 0)
      After(o, known) == [o |-> o, bg |-> known.bg, fg |-> known.fg]
  IN  IF Solid(data, r)
        THEN After(Put(room, tile(Bg, <<>>, <<>>), start), [bg |-> <<c.bg>>, fg |-> acc.fg])
      ELSE IF 1 + size * Len(subs) > Area(r) * BPP
        THEN After(Put(room, <<"rawtile", data>>, 1 + Area(r) * BPP), AfterRaw(c, acc.fg))
      ELSE After(Put(room, tile(Bg, Fg, subs),
                     start + (IF newFg THEN BPP ELSE 0) + 1 + size * Len(subs)),
                 [bg |-> <<c.bg>>, fg |-> IF mono THEN <<c.fg>> ELSE <<>>])

rfbSendRectEncodingHextile(o, pic, r) ==
  LET send(acc, t) == Hextile(acc, Crop(pic, t), t)
      header == Header(Room(o, sz_rfbFramebufferUpdateRectHeader), r, "hextile")
  IN  InTurn(send, [o |-> header, bg |-> <<>>, fg |-> <<>>], Tiles(r, HextileSize, HextileSize)).o

-----------------------------------------------------------------------------
(* Zlib and Ultra: strips of whole lines, each a rectangle of its own.       *)

\* ZLIB_MAX_SIZE(w) / w, at least two lines.
StripLines(w) == (IF 2 * w > MaxStripSize THEN 2 * w ELSE MaxStripSize) \div w
Strips(r) == Tiles(r, r.w, StripLines(r.w))

Packed(o, pic, r, enc, item) ==
  LET h == Put(Header(Room(o, sz_rfbFramebufferUpdateRectHeader + sz_rfbRREHeader), r, enc),
               <<"length">>, sz_rfbRREHeader)
  IN  Copied(h, item, BodyLen(h))
Flushed(o, r, s) == IF s.h = StripLines(r.w) THEN rfbSendUpdateBuf(o) ELSE o

\* A strip that is very small is sent raw.
SendOneRectEncodingZlib(o, pic, r) ==
  IF Area(r) * BPP < VNC_ENCODE_ZLIB_MIN_COMP_SIZE
    THEN rfbSendRectEncodingRaw(IF o.ublen % BPP # 0 THEN rfbSendUpdateBuf(o) ELSE o, pic, r)
    ELSE LET done == Deflate(o, "zlib")
         IN  Packed(done, pic, r, "zlib", Body(done, "zlib", Crop(pic, r)))

rfbSendRectEncodingZlib(o, pic, r) ==
  LET send(out, s) == Flushed(SendOneRectEncodingZlib(out, pic, s), r, s)
  IN  InTurn(send, o, Strips(r))

\* Each body of Ultra is compressed on its own.
rfbSendRectEncodingUltra(o, pic, r) ==
  LET send(out, s) == Flushed(Packed(out, pic, s, "ultra", <<"lzo", Crop(pic, s)>>), r, s)
  IN  InTurn(send, o, Strips(r))
=============================================================================
