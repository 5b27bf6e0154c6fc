--------------------------- MODULE PixelDecodings ---------------------------
(* How the viewer (libvncclient) reads a FramebufferUpdate: the loop over    *)
(* its rectangles in rfbproto.c and the decoders of rre.c, corre.c,          *)
(* hextile.c, zlib.c, ultra.c, tight.c and zrle.c.  v.at is the item it      *)
(* reads next, v.pic its framebuffer, v.inflated the bodies each             *)
(* decompressor has seen, v.ended says that it has read the marker of the    *)
(* last rectangle.  An item that is not what a decoder expects means that    *)
(* the viewer has lost its place in the stream: v.ok is FALSE from there on. *)
EXTENDS TightEncoding, ZrleEncoding, PseudoRectangles

LastRectUnknown == 65535                           \* nRects of an update whose number is not known

Viewer(pic, items) ==
  [pic |-> pic, items |-> items, at |-> 1, ok |-> TRUE, ended |-> FALSE,
   inflated |-> [s \in Streams |-> 0]]
Left(v)  == Len(v.items) - v.at + 1                \* the items not read
Next1(v) == IF Left(v) = 0 THEN <<"nothing">> ELSE v.items[v.at]
Took(v)  == [v EXCEPT !.at = @ + 1]
Lost(v)  == [v EXCEPT !.ok = FALSE]
\* Rectangle r of the viewer's framebuffer becomes pixels, or one colour.
GotBitmap(v, r, pixels) ==
  [v EXCEPT !.pic = [p \in DOMAIN @ |->
     IF p \in Points(r) THEN pixels[<<p[1] - r.x, p[2] - r.y>>] ELSE @[p]]]
GotFillRect(v, r, colour) ==
  [v EXCEPT !.pic = [p \in DOMAIN @ |-> IF p \in Points(r) THEN colour ELSE @[p]]]

\* <<colour, rectangle>> in r, one after the other.
Drawn(v, r, subs) ==
  LET draw(u, s) == GotFillRect(u, Rect(r.x + s[2].x, r.y + s[2].y, s[2].w, s[2].h), s[1])
  IN  InTurn(draw, v, subs)

HandleRaw(v, r) ==
  IF Next1(v)[1] = "pixels" THEN GotBitmap(Took(v), r, Next1(v)[2]) ELSE Lost(v)

\* HandleRRE and HandleCoRRE.
HandleRRE(v, r) ==
  LET n == Next1(v) b == Next1(Took(v)) IN
  IF n[1] = "subrects" /\ b[1] = "filled" /\ n[2] = Len(b[3])
    THEN Drawn(GotFillRect(Took(Took(v)), r, b[2]), r, b[3]) ELSE Lost(v)

\* The subrectangles of a tile, those without a colour of their own in fg.
Coloured(item, fg) ==
  IF item[4] THEN [i \in DOMAIN item[5] |-> <<fg[1], item[5][i][2]>>] ELSE item[5]

\* A tile; a.bg and a.fg are what the viewer remembers.  Coloured subrectangles
\* leave the last one's colour in fg.
HandleTile(a, t) ==
  LET item == Next1(a.v)
      bg   == IF item[2] # <<>> THEN item[2] ELSE a.bg
      fg   == IF item[3] # <<>> THEN item[3] ELSE a.fg
      subs == item[5]
      drawn == Drawn(GotFillRect(Took(a.v), t, bg[1]), t, Coloured(item, fg))
  IN  IF item[1] = "rawtile" THEN [a EXCEPT !.v = GotBitmap(Took(@), t, item[2])]
      ELSE IF item[1] = "tile" /\ bg # <<>> /\ (subs = <<>> \/ ~item[4] \/ fg # <<>>)
        THEN [v |-> drawn, bg |-> bg, fg |-> IF item[4] \/ subs = <<>> THEN fg ELSE <<Last(subs)[1]>>]
      ELSE [a EXCEPT !.v = Lost(@)]

HandleHextile(v, r) ==
  InTurn(HandleTile, [v |-> v, bg |-> <<>>, fg |-> <<>>], Tiles(r, HextileSize, HextileSize)).v

\* A body is inflated if its decompressor has seen all those before it.
Inflated(v, r, s) ==
  LET b == Next1(v) IN
  IF b[1] = "deflated" /\ b[2] = s /\ b[3] = v.inflated[s] + 1
    THEN [GotBitmap(Took(v), r, b[4]) EXCEPT !.inflated[s] = @ + 1] ELSE Lost(v)
Length(v) == IF Next1(v)[1] = "length" THEN Took(v) ELSE Lost(v)

HandleZlib(v, r) == Inflated(Length(v), r, "zlib")
HandleUltra(v, r) ==
  LET u == Length(v) IN
  IF Next1(u)[1] = "lzo" THEN GotBitmap(Took(u), r, Next1(u)[2]) ELSE Lost(u)

\* Data of that size as they are.
Uncompressed(v, r, size) ==
  LET d == Next1(v) IN
  IF d[1] = "plain" /\ d[2] = size THEN GotBitmap(Took(v), r, d[3]) ELSE Lost(v)

\* The bits of a pixel and the bytes of a line: what is short is read without a
\* length.  The rest is compressed, unless the control byte has rfbTightNoZlib.
HandleTight(v, r) ==
  LET c    == Next1(v)
      bits == IF c[2] = "copy" THEN 8 * PIXEL24 ELSE IF c[3] = 2 THEN 1 ELSE 8
      size == r.h * ((r.w * bits + 7) \div 8)
      s    == IF c[2] = "copy" THEN "full" ELSE IF c[3] = 2 THEN "mono" ELSE "indexed"
  IN  IF c[1] # "tight" THEN Lost(v)
      ELSE IF c[2] = "fill" THEN GotFillRect(Took(v), r, c[3])
      ELSE IF size < TIGHT_MIN_TO_COMPRESS
        THEN Uncompressed(Took(v), r, size)
      ELSE IF c[4] = "NoZlib" THEN Uncompressed(Length(Took(v)), r, size)
      ELSE Inflated(Length(Took(v)), r, s)

\* The pixels of a tile.
TilePixels(t, n) ==
  LET colour(c) == IF t.type = PlainRle THEN c ELSE t.palette[c + 1]
      run(e) == [i \in 1 .. (IF Len(e) = 1 THEN 1 ELSE e[2] + 1) |-> colour(e[1])]
      add(pixels, e) == pixels \o run(e)
  IN  IF t.type = RawTile THEN t.rest
      ELSE IF t.type = SolidTile THEN [i \in 1..n |-> t.palette[1]]
      ELSE IF t.type \in 2..127 THEN [i \in DOMAIN t.rest |-> t.palette[t.rest[i] + 1]]
      ELSE InTurn(add, <<>>, t.rest)

\* As many colours are read as the type says, and pixels until the tile is
\* full.  After a tile that cannot be right the others are not drawn.
HandleZRLETile(a, t, r) ==
  LET size == IF t.type >= PlainRle THEN t.type - PlainRle ELSE t.type
      pixels == TilePixels(t, Area(r))
      good == t.type # 129 /\ Len(t.palette) = size /\ Len(pixels) = Area(r)
  IN  IF a.failed \/ ~good THEN [a EXCEPT !.failed = TRUE]
      ELSE [a EXCEPT !.v = GotBitmap(@, r, [p \in Points(Rect(0, 0, r.w, r.h)) |-> pixels[p[2] * r.w + p[1] + 1]])]

\* Returns TRUE even when a tile failed.
HandleZRLE(v, r) ==
  LET u == Length(v)
      b == Next1(u)
      tiles == Tiles(r, rfbZRLETileWidth, rfbZRLETileHeight)
      tile(a, i) == HandleZRLETile(a, b[4][i], tiles[i])
      seen == [Took(u) EXCEPT !.inflated["zrle"] = @ + 1]
  IN  IF b[1] = "deflated" /\ b[2] = "zrle" /\ b[3] = u.inflated["zrle"] + 1
        THEN InTurn(tile, [v |-> seen, failed |-> FALSE], UpTo(Len(tiles))).v
        ELSE Lost(u)

HandleCopyRect(v, r) ==
  LET src == Next1(v)
      from(p) == <<p[1] - r.x + src[2], p[2] - r.y + src[3]>>
  IN  IF src[1] # "source" THEN Lost(v)
      ELSE [Took(v) EXCEPT !.pic = [p \in DOMAIN @ |-> IF p \in Points(r) THEN @[from(p)] ELSE @[p]]]

\* HandleCursorShape and the branches of rfbproto.c that read past a rectangle
\* without pixels.
HandleNotice(v, r, enc) ==
  LET items == NoticeItems(r, enc) IN
  IF Len(items) <= Left(v) /\ \A i \in 1..Len(items) : v.items[v.at + i - 1] = items[i]
    THEN [v EXCEPT !.at = @ + Len(items)] ELSE Lost(v)

Handle(v, r, enc) ==
  CASE enc \in ToSet(Notices) -> HandleNotice(v, r, enc)
    [] enc = "raw"      -> HandleRaw(v, r)
    [] enc = "copyrect" -> HandleCopyRect(v, r)
    [] enc \in {"rre", "corre"} -> HandleRRE(v, r)
    [] enc = "hextile"  -> HandleHextile(v, r)
    [] enc = "zlib"     -> HandleZlib(v, r)
    [] enc = "ultra"    -> HandleUltra(v, r)
    [] enc = "tight"    -> HandleTight(v, r)
    [] enc = "zrle"     -> HandleZRLE(v, r)

\* A rectangle, or the marker that ends the loop.
HandleRect(v) ==
  LET item == Next1(v) IN
  IF ~v.ok \/ v.ended THEN v
  ELSE IF item[1] # "rect" THEN Lost(v)
  ELSE IF item[3] = "last" THEN [Took(v) EXCEPT !.ended = TRUE]
  ELSE Handle(Took(v), item[2], item[3])

\* n rectangles, or as many as there are before the marker.  Each takes an item:
\* with none left the viewer is lost.
HandleRects(v, n) ==
  LET turn(u, i) == HandleRect(u) IN InTurn(turn, v, UpTo(Lesser(n, Left(v) + 1)))
=============================================================================
