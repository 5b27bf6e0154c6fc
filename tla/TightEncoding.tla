---------------------------- MODULE TightEncoding ----------------------------
(* The Tight encoder (tight.c), without JPEG and PNG: how a rectangle is     *)
(* split around its areas of one colour, and how each part is coded.         *)
EXTENDS PixelEncodings

-----------------------------------------------------------------------------
(* A part.                                                                   *)

\* Faulty Method: the control byte is that of zlib whatever the level.
MethodZlib(stream) == "zlib"

\* What the control byte says of the data: with level 0 it has rfbTightNoZlib.
Method(stream) == IF ZlibLevel[stream] = 0 THEN "NoZlib" ELSE "zlib"

\* n bytes are sent in portions that fit into an empty buffer.
Portions(n) ==
  [i \in 1 .. (n - 1) \div UPDATE_BUF_SIZE + 1 |->
     Lesser(UPDATE_BUF_SIZE, n - (i - 1) * UPDATE_BUF_SIZE)]

\* Faulty Portion: does not ask for room.
PortionUnasked(o, n) == [o EXCEPT !.ublen = @ + n, !.high = Peak(o, o.ublen + n)]

\* The bytes of one.
Portion(o, n) ==
  LET room == Room(o, n) IN [room EXCEPT !.ublen = @ + n, !.high = Peak(room, room.ublen + n)]

\* The length, of 7 bits in each byte, and the body.
rfbSendCompressedDataTight(o, item, n) ==
  LET length == IF n > 16383 THEN 3 ELSE IF n > 127 THEN 2 ELSE 1
      sent   == InTurn(Portion, Put(o, <<"length">>, length), Portions(n))
  IN  [sent EXCEPT !.items = Append(@, item)]

\* What is short has no length; neither that is compressed nor what level 0 sends as it is.
CompressData(o, stream, data, len) ==
  LET plain == <<"plain", len, data>>
      done  == Deflate(o, stream)
  IN  IF len < TIGHT_MIN_TO_COMPRESS THEN Put(o, plain, len)
      ELSE IF ZlibLevel[stream] = 0 THEN rfbSendCompressedDataTight(o, plain, len)
      ELSE rfbSendCompressedDataTight(done, Body(done, stream, data), BodyLen(o))

\* paletteNumColors: 0 when there are more colours than a palette may have.
PaletteNumColors(data, r) ==
  LET n     == Cardinality({data[p] : p \in DOMAIN data})
      asked == Area(r) \div ColorsDivisor
      max   == IF asked < 2 /\ Area(r) >= MonoMinRect THEN 2 ELSE Lesser(asked, 256)
  IN  IF n = 1 \/ n <= max THEN n ELSE 0

SendSolidRect(o, c) == Put(Room(o, 1 + PIXEL24), <<"tight", "fill", c>>, 1 + PIXEL24)

SendMonoRect(o, data, r) ==
  CompressData(Put(Room(o, TIGHT_MIN_TO_COMPRESS + 6 + 2 * BPP), <<"tight", "palette", 2, Method("mono")>>,
                   3 + 2 * PIXEL24), "mono", data, ((r.w + 7) \div 8) * r.h)

SendIndexedRect(o, data, r, n) ==
  CompressData(Put(Room(o, TIGHT_MIN_TO_COMPRESS + 6 + n * BPP), <<"tight", "palette", n, Method("indexed")>>,
                   3 + n * PIXEL24), "indexed", data, Area(r))

SendFullColorRect(o, data, r) ==
  CompressData(Put(Room(o, TIGHT_MIN_TO_COMPRESS + 1), <<"tight", "copy", 0, Method("full")>>, 1),
               "full", data, Area(r) * PIXEL24)

rfbSendTightHeader(o, r) == Header(Room(o, sz_rfbFramebufferUpdateRectHeader), r, "tight")

SendSubrect(o, pic, r) ==
  LET data   == Crop(pic, r)
      n      == PaletteNumColors(data, r)
      header == rfbSendTightHeader(IF o.ublen > 128 THEN rfbSendUpdateBuf(o) ELSE o, r)
  IN  IF n = 0 THEN SendFullColorRect(header, data, r)
      ELSE IF n = 1 THEN SendSolidRect(header, data[<<0, 0>>])
      ELSE IF n = 2 THEN SendMonoRect(header, data, r)
      ELSE SendIndexedRect(header, data, r, n)

-----------------------------------------------------------------------------
(* Rectangles without areas of one colour.                                   *)

SubrectMaxHeight(w) == MaxRectSize \div Lesser(w, MaxRectWidth)
SimpleParts(r) ==
  IF r.w <= MaxRectWidth /\ Area(r) <= MaxRectSize THEN <<r>>
  ELSE Tiles(r, MaxRectWidth, SubrectMaxHeight(r.w))

SendRectSimple(o, pic, r) ==
  LET send(out, s) == SendSubrect(out, pic, s) IN InTurn(send, o, SimpleParts(r))

-----------------------------------------------------------------------------
(* Areas of one colour.                                                      *)

\* The points of one colour are all that matters of the picture here.
OfColour(pic, c) == {p \in DOMAIN pic : pic[p] = c}
CheckSolidTile(same, r) == Points(r) \subseteq same

\* The widest row of solid tiles at the left of <<x, y>>, up to w wide; 0: none.
SolidWidth(same, x, y, w, h) ==
  LET widths == {k * MaxSplitTile : k \in 0..(w \div MaxSplitTile)} \cup {w}
  IN  Max({v \in widths : CheckSolidTile(same, Rect(x, y, v, h))})

\* FindBestSolidArea: rows of tiles below r's corner, each no wider than the
\* one above, until there is none; the largest area they make wins.
FindBestSolidArea(same, r) ==
  LET row(found, i) ==
        LET dy   == r.y + (i - 1) * MaxSplitTile
            dh   == Lesser(MaxSplitTile, r.y + r.h - dy)
            wide == SolidWidth(same, r.x, dy, found.w, dh)
            area == Rect(r.x, r.y, wide, dy + dh - r.y)
        IN  [w |-> wide, best |-> IF Area(area) > Area(found.best) THEN area ELSE found.best]
      none == [w |-> r.w, best |-> Rect(r.x, r.y, 0, 0)]
  IN  InTurn(row, none, UpTo((r.h - 1) \div MaxSplitTile + 1)).best

\* ExtendSolidArea: up, down, left and right, line by line, within r.
ExtendSolidArea(same, r, s) ==
  LET solid(x1, y1, x2, y2) == CheckSolidTile(same, Rect(x1, y1, x2 - x1, y2 - y1))
      right  == s.x + s.w
      top    == Min({y \in r.y..s.y : solid(s.x, y, right, s.y)})
      bottom == Max({y \in s.y + s.h..r.y + r.h : solid(s.x, s.y + s.h, right, y)})
      x1     == Min({x \in r.x..s.x : solid(x, top, s.x, bottom)})
      x2     == Max({x \in right..r.x + r.w : solid(right, top, x, bottom)})
  IN  Rect(x1, top, x2 - x1, bottom - top)

\* The solid area found in tile t of r, or one without points.
SolidArea(pic, r, t) ==
  LET same == OfColour(pic, pic[<<t.x, t.y>>])
      rest == Rect(t.x, t.y, r.x + r.w - t.x, r.y + r.h - t.y)
      best == FindBestSolidArea(same, rest)
  IN  IF CheckSolidTile(same, t) /\ (Area(best) = Area(r) \/ Area(best) >= MinSolidSubrect)
        THEN ExtendSolidArea(same, r, best) ELSE Rect(t.x, t.y, 0, 0)

\* Faulty Below: without the last line.
BelowShort(r, s) == Rect(r.x, s.y + s.h, r.w, r.h - (s.y - r.y) - s.h - 1)

\* What is left of r below its solid area s.
Below(r, s) == Rect(r.x, s.y + s.h, r.w, r.h - (s.y - r.y) - s.h)

\* The solid areas found in the row of tiles of r at dy.
FoundIn(pic, r, dy) ==
  LET x(i)    == r.x + MaxSplitTile * (i - 1)
      area(i) == SolidArea(pic, r, Rect(x(i), dy, Lesser(MaxSplitTile, r.x + r.w - x(i)),
                                        Lesser(MaxSplitTile, r.y + r.h - dy)))
  IN  {a \in {<<i, area(i)>> : i \in 1..(r.w - 1) \div MaxSplitTile + 1} : Area(a[2]) > 0}
FirstFound(found) == (CHOOSE a \in found : \A b \in found : a[1] <= b[1])[2]

\* How SendRectEncodingTight divides a rectangle, in the order of sending: what
\* is split by its size only, areas of one colour, and where the buffer is flushed.
Simple(r) == <<<<"simple", r>>>>
SolidOne(r) == <<<<"solid", r>>>>
Flush(r) == <<<<"flush", r>>>>
Rects == [x : Int, y : Int, w : Nat \ {0}, h : Nat \ {0}]

\* SendRectEncodingTight, whose rows of tiles are searched by search.
Entered(search, r) ==
  IF Area(r) = 0 THEN <<>>
  ELSE IF Area(r) < MinSplitRect THEN Flush(r) \o Simple(r)
  ELSE Flush(r) \o search[<<r, r.y>>]

\* The search of `all' from its row of tiles at dy on, above which there is
\* no solid area.  The part above is sent when it has become large enough.
Searched(search, pic, all, dy) ==
  LET rows  == SubrectMaxHeight(all.w)               \* nMaxRows
      large == dy - all.y >= rows
      r     == IF large THEN Rect(all.x, all.y + rows, all.w, all.h - rows) ELSE all
      sent  == IF large THEN Simple(Rect(all.x, all.y, all.w, rows)) ELSE <<>>
      found == FoundIn(pic, r, dy)
      s     == FirstFound(found)
      above == IF s.y = r.y THEN <<>> ELSE Simple(Rect(r.x, r.y, r.w, s.y - r.y))
      left  == Rect(r.x, s.y, s.x - r.x, s.h)
      right == Rect(s.x + s.w, s.y, r.x + r.w - s.x - s.w, s.h)
  IN  IF dy >= all.y + all.h THEN Simple(all)
      ELSE IF found = {} THEN sent \o search[<<r, dy + MaxSplitTile>>]
      ELSE sent \o above \o Entered(search, left) \o SolidOne(s) \o Entered(search, right)
             \o Entered(search, Below(r, s))

Search(pic) ==
  LET search[q \in {q \in Rects \X Int : q[1].y <= q[2]}] == Searched(search, pic, q[1], q[2])
  IN  search

SendPart(o, pic, part) ==
  LET r == part[2] IN
  IF part[1] = "flush" THEN rfbSendUpdateBuf(o)
  ELSE IF part[1] = "simple" THEN SendRectSimple(o, pic, r)
  ELSE SendSolidRect(rfbSendTightHeader(o, r), pic[<<r.x, r.y>>])

rfbSendRectEncodingTight(o, pic, r, lastRect) ==
  LET send(out, part) == SendPart(out, pic, part)
  IN  InTurn(send, o, IF lastRect THEN Entered(Search(pic), r) ELSE Flush(r) \o Simple(r))

\* 0: not known.
rfbNumCodedRectsTight(r, lastRect) ==
  IF lastRect /\ Area(r) >= MinSplitRect THEN 0
  ELSE IF r.w > MaxRectWidth \/ Area(r) > MaxRectSize
    THEN ((r.w - 1) \div MaxRectWidth + 1) * ((r.h - 1) \div SubrectMaxHeight(r.w) + 1)
  ELSE 1
=============================================================================
