------------------------ MODULE UpdateMessageTerms --------------------------
(* What the proofs about UpdateMessage speak of: what a part of the stream    *)
(* shows when it is read, the steps of the loops, and the invariant.         *)
EXTENDS UpdateMessage

-----------------------------------------------------------------------------
(* The loops, each with what stays as it is ahead of what a turn changes.    *)

TurnStep(a, b, v, i) == HandleRect(v)
Turn == INSTANCE Turns WITH Step <- TurnStep

-----------------------------------------------------------------------------
(* What is written.                                                          *)

IsSeq(s) == \E S : s \in Seq(S)
\* t goes on from s.
Extends(t, s) == Len(s) <= Len(t) /\ \A i \in 1 .. Len(s) : t[i] = s[i]

\* The record of an update being written; the buffer has never held too much.
Out(u, h, k, s, d) == [ublen |-> u, high |-> h, headers |-> k, items |-> s, deflated |-> d]

IsOut(o) ==
  /\ o = Out(o.ublen, o.high, o.headers, o.items, o.deflated)
  /\ o.ublen \in 0 .. UPDATE_BUF_SIZE /\ o.high \in 4 .. UPDATE_BUF_SIZE
  /\ IsSeq(o.items) /\ o.deflated \in [Streams -> Nat]
  /\ o.headers \in Nat /\ o.headers <= Len(o.items)

\* Two that hold the same, except for what is in the buffer.
Quiet(o, q) == q.headers = o.headers /\ q.items = o.items /\ q.deflated = o.deflated

\* One more item, with as many headers.
Adds(o, q, item) == q.headers = o.headers /\ q.items = Append(o.items, item) /\ q.deflated = o.deflated

-----------------------------------------------------------------------------
(* What is read.                                                             *)

\* The record of a viewer, and one that is in step.  (The names of the truth values
\* keep the provers from taking them for anything but values.)
Yes == TRUE

No  == FALSE
Viewing(pic, items, at, ok, ended, inflated) ==
  [pic |-> pic, items |-> items, at |-> at, ok |-> ok, ended |-> ended, inflated |-> inflated]

View(items, pic, at, inflated) == Viewing(pic, items, at, Yes, No, inflated)
Pictures == [Screen -> Colours]
Seen == [Screen -> Colours \cup {Blank}]
\* A picture with what is drawn in D.
Overlay(pic, D, drawn) == [p \in Screen |-> IF p \in D THEN drawn[p] ELSE pic[p]]

\* A viewer with a picture.
Reader(v) == v.pic \in Seen /\ "ok" \in DOMAIN v

\* v becomes w by reading n rectangles, and shows nothing else on the way.
Turning(v, n, w) ==
  \E g : /\ g[0] = v /\ g[n] = w
         /\ \A i \in 1 .. n : g[i] = HandleRect(g[i - 1])
         /\ \A i \in 0 .. n : Reader(g[i])

\* What q has more than o is read as rectangles that show all of D as it is in scr,
\* whatever is written after it.
Serve(scr, o, q, D) ==
  /\ IsOut(q) /\ o.headers <= q.headers /\ Extends(q.items, o.items)
  /\ \A items, pic : IsSeq(items) /\ Extends(items, q.items) /\ pic \in Seen =>
       Turning(View(items, pic, Len(o.items) + 1, o.deflated), q.headers - o.headers,
               View(items, Overlay(pic, D, scr), Len(q.items) + 1, q.deflated))

\* One after the other.
UnionOf(D, n) == UNION {D[i] : i \in 1 .. n}

-----------------------------------------------------------------------------
(* Rectangles and their points.                                              *)

IsRect(r) == r = Rect(r.x, r.y, r.w, r.h) /\ r.x \in Int /\ r.y \in Int /\ r.w \in Nat \ {0} /\ r.h \in Nat \ {0}
Within(s, r) == r.x <= s.x /\ r.y <= s.y /\ s.x + s.w <= r.x + r.w /\ s.y + s.h <= r.y + r.h
\* A rectangle of the screen.
On(r) == IsRect(r) /\ 0 <= r.x /\ 0 <= r.y /\ r.x + r.w <= Width /\ r.y + r.h <= Height

\* data are the pixels of scr at r.
Cut(scr, r, data) == \A p \in Points(r) : data[<<p[1] - r.x, p[2] - r.y>>] = scr[p]

\* The viewer fills a rectangle.
Filled(pic, r, c) == [p \in Screen |-> IF p \in Points(r) THEN c ELSE pic[p]]

-----------------------------------------------------------------------------
(* The tiles of a rectangle.                                                 *)

HasCell(c, d, x, y) == \E i \in 1 .. c * d : i = (c * y) + x + 1 /\ (i - 1) % c = x /\ (i - 1) \div c = y
\* Where a tile of size t, the k-th of a length n from x on, begins and ends.
Spans(x, n, t, k, a, d) ==
  /\ a \in Int /\ d \in Nat \ {0} /\ d <= t /\ x <= a /\ a + d <= x + n
  /\ \A z \in Int : a <= z /\ z < a + d <=> x <= z /\ z < x + n /\ (z - x) \div t = k

\* Tiles divides a rectangle.
Divides(r, w, h, T, n) ==
  /\ n \in Nat \ {0} /\ DOMAIN T = 1 .. n /\ Len(T) = n /\ IsSeq(T)
  /\ \A i \in 1 .. n : IsRect(T[i]) /\ Within(T[i], r) /\ T[i].w <= w /\ T[i].h <= h
  /\ Points(r) = UNION {Points(T[i]) : i \in 1 .. n}

-----------------------------------------------------------------------------
(* The first items of a rectangle.                                           *)

\* items goes on, after those of s, with a, b, c and d.
Follows1(items, s, a) == Len(s) + 1 \in 1 .. Len(items) /\ items[Len(s) + 1] = a

Follows2(items, s, a, b) == Follows1(items, s, a) /\ Len(s) + 2 \in 1 .. Len(items) /\ items[Len(s) + 2] = b
Follows3(items, s, a, b, c) == Follows2(items, s, a, b) /\ Len(s) + 3 \in 1 .. Len(items) /\ items[Len(s) + 3] = c
Follows4(items, s, a, b, c, d) == Follows3(items, s, a, b, c) /\ Len(s) + 4 \in 1 .. Len(items) /\ items[Len(s) + 4] = d
\* t is s with a, and b, and c, and d.
Ends1(t, s, a) == t = Append(s, a)

Ends2(t, s, a, b) == t = Append(Append(s, a), b)
Ends3(t, s, a, b, c) == t = Append(Append(Append(s, a), b), c)
Ends4(t, s, a, b, c, d) == t = Append(Append(Append(Append(s, a), b), c), d)
IsQuot(q, a, b) == q \in Int /\ q = a \div b /\ a % b \in 0 .. b - 1 /\ \A m \in Int : m <= q <=> m * b <= a

-----------------------------------------------------------------------------
(* Raw.                                                                      *)

\* One rectangle sent for k.
Sends(scr, o, q, r, k) == Serve(scr, o, q, Points(r)) /\ q.headers = o.headers + k

-----------------------------------------------------------------------------
(* Subrectangles.                                                            *)

\* The points of a rectangle's data.
Zone(w, h) == Points(Rect(0, 0, w, h))

IsNth(w, h, q) == \E i \in 1 .. w * h : Nth(i, w) = q /\ i = (w * q[2]) + q[1] + 1
\* The rectangle that an encoder finds at p has one colour.
IsSub(d, w, h, p, s) ==
  /\ IsRect(s) /\ Within(s, Rect(0, 0, w, h)) /\ Points(s) \subseteq Zone(w, h)
  /\ p \in Points(s) /\ \A q \in Points(s) : d[q] = d[p]

-----------------------------------------------------------------------------
(* What a sequence of subrectangles shows, and that it is the data.          *)

SubsStep(r, bg, acc, i) ==
  LET p == Nth(i, r.w) IN
  IF acc.d[p] = bg THEN acc
  ELSE LET s == Subrect(acc.d, r.w, r.h, p)
       IN  [d    |-> [q \in DOMAIN acc.d |-> IF q \in Points(s) THEN bg ELSE acc.d[q]],
            subs |-> Append(acc.subs, <<acc.d[p], s>>)]

PaintStep(Z, b, c, s) == [q \in Z |-> IF q \in Points(s[2]) THEN s[1] ELSE c[q]]
DrawStep(r, b, u, s) == GotFillRect(u, Rect(r.x + s[2].x, r.y + s[2].y, s[2].w, s[2].h), s[1])
Taking   == INSTANCE Turns WITH Step <- SubsStep
Painting == INSTANCE Turns WITH Step <- PaintStep
Drawing  == INSTANCE Turns WITH Step <- DrawStep
Plain(w, h, bg) == [q \in Zone(w, h) |-> bg]
Paint(w, h, bg, subs) == Painting!After(Zone(w, h), 0, Plain(w, h, bg), subs)[Len(subs)]
IsSubs(w, h, subs, C) ==
  /\ IsSeq(subs)
  /\ \A i \in 1 .. Len(subs) : /\ subs[i] = <<subs[i][1], subs[i][2]>> /\ subs[i][1] \in C
                               /\ IsRect(subs[i][2]) /\ Within(subs[i][2], Rect(0, 0, w, h))

\* What has been taken from data, and what has been left in acc.d.
Took1(w, h, data, bg, C, acc) ==
  /\ DOMAIN acc.d = Zone(w, h) /\ IsSubs(w, h, acc.subs, C \ {bg})
  /\ \A q \in Zone(w, h) : \/ acc.d[q] = data[q] /\ Paint(w, h, bg, acc.subs)[q] = bg
                           \/ acc.d[q] = bg /\ Paint(w, h, bg, acc.subs)[q] = data[q]

Takes(r, data, bg, C, acc, new, i) ==
  /\ Took1(r.w, r.h, data, bg, C, new) /\ new.d[Nth(i, r.w)] = bg
  /\ \A q \in Zone(r.w, r.h) : acc.d[q] = bg => new.d[q] = bg

Shows(r, subs, bg, data, C) ==
  IsSubs(r.w, r.h, subs, C \ {bg}) /\ \A q \in Zone(r.w, r.h) : Paint(r.w, r.h, bg, subs)[q] = data[q]

-----------------------------------------------------------------------------
(* What the viewer draws of subrectangles.  RRE and CoRRE.                   *)

\* A picture with data at r.
Shade(pic, r, data) == [p \in Screen |-> IF p \in Points(r) THEN data[<<p[1] - r.x, p[2] - r.y>>] ELSE pic[p]]

-----------------------------------------------------------------------------
(* Rectangles of three and four items; several for one.                      *)

Reads3(scr, o, q, r, enc, b, c, D) ==
  \A items, pic, at : /\ IsSeq(items) /\ pic \in Seen
                      /\ at \in 1 .. Len(items) /\ items[at] = b
                      /\ at + 1 \in 1 .. Len(items) /\ items[at + 1] = c
    => Handle(View(items, pic, at, o.deflated), r, enc) = View(items, Overlay(pic, D, scr), at + 2, q.deflated)

Reads4(scr, o, q, r, enc, b, c, e, D) ==
  \A items, pic, at : /\ IsSeq(items) /\ pic \in Seen
                      /\ at \in 1 .. Len(items) /\ items[at] = b
                      /\ at + 1 \in 1 .. Len(items) /\ items[at + 1] = c
                      /\ at + 2 \in 1 .. Len(items) /\ items[at + 2] = e
    => Handle(View(items, pic, at, o.deflated), r, enc) = View(items, Overlay(pic, D, scr), at + 3, q.deflated)

-----------------------------------------------------------------------------
(* CoRRE.                                                                    *)

CorreStep(pic, b, out, t) == Rre(out, pic, t, "corre", 4)
Correing == INSTANCE Turns WITH Step <- CorreStep

-----------------------------------------------------------------------------
(* Compressed bodies.  Zlib and Ultra.                                       *)

With(v, x) == [v EXCEPT !.inflated = x]
\* A body that is in its place among those of its compressor.
Bumped(inf, s) == [inf EXCEPT ![s] = @ + 1]

\* A header, a length and a body.
IsPacked(done, q, r, enc, item) ==
  /\ IsOut(q) /\ q.headers = done.headers + 1 /\ q.deflated = done.deflated
  /\ Ends3(q.items, done.items, <<"rect", r, enc>>, <<"length">>, item)

ZlibStep(pic, r, out, s) == Flushed(SendOneRectEncodingZlib(out, pic, s), r, s)
UltraStep(pic, r, out, s) == Flushed(Packed(out, pic, s, "ultra", <<"lzo", Crop(pic, s)>>), r, s)
Zlibbing == INSTANCE Turns WITH Step <- ZlibStep
Ultraing == INSTANCE Turns WITH Step <- UltraStep

-----------------------------------------------------------------------------
(* The colours of a rectangle.                                               *)

ColoursOf(data) == {data[p] : p \in DOMAIN data}
\* The two colours are those of the tile when it has no others.
Tested(data, r, c) ==
  /\ c.bg \in ColoursOf(data) /\ c.fg \in ColoursOf(data)
  /\ Solid(data, r) => \A q \in Zone(r.w, r.h) : data[q] = c.bg
  /\ Mono(data, r) /\ ~Solid(data, r) => ColoursOf(data) = {c.bg, c.fg}

-----------------------------------------------------------------------------
(* A tile of Hextile.                                                        *)

\* What the encoder and the viewer remember.
Acc(o, bg, fg) == [o |-> o, bg |-> bg, fg |-> fg]

Rec(v, bg, fg) == [v |-> v, bg |-> bg, fg |-> fg]
\* What the encoder takes the viewer to remember is right, unless it is <<>>.
Agrees(known, seen) == known = <<>> \/ seen = known

\* What is told, or else what has been known.
Told(new, old) == IF new # <<>> THEN new ELSE old

\* x has drawn tile t, of one item, and remembers what the encoder takes it to.
TileDraws(scr, t, items, pic, at, inf, b, nf, x) ==
  \E f : x = Rec(View(items, Overlay(pic, Points(t), scr), at + 1, inf), b, f) /\ Agrees(nf, f)

TileDone(scr, t, items, pic, at, inf, nb, nf, x) ==
  \E b : TileDraws(scr, t, items, pic, at, inf, b, nf, x) /\ Agrees(nb, b)

TileRead(scr, item, t, kb, kf, nb, nf) ==
  \A items, pic, at, inf, bg, fg :
    /\ IsSeq(items) /\ at \in 1 .. Len(items) /\ items[at] = item /\ pic \in Seen
    /\ Agrees(kb, bg) /\ Agrees(kf, fg)
    => TileDone(scr, t, items, pic, at, inf, nb, nf, HandleTile(Rec(View(items, pic, at, inf), bg, fg), t))

\* A tile that has been sent, and what the encoder remembers.
TileSent(scr, acc, new, t) ==
  /\ IsOut(new.o) /\ new.o.headers = acc.o.headers /\ new.o.deflated = acc.o.deflated
  /\ \E item : new.o.items = Append(acc.o.items, item) /\ TileRead(scr, item, t, acc.bg, acc.fg, new.bg, new.fg)

-----------------------------------------------------------------------------
(* The tiles of a rectangle of Hextile.                                      *)

\* g has drawn U and is at item `at', and remembers what it is taken to.
HexSeen(scr, pic, items, U, at, inf, kb, kf, g) ==
  \E b, f : /\ g = Rec(View(items, Overlay(pic, U, scr), at, inf), b, f)
            /\ Agrees(kb, b) /\ Agrees(kf, f)

HexStep(pic, b, acc, t) == Hextile(acc, Crop(pic, t), t)
HexTurn(a, b, g, t) == HandleTile(g, t)
Hexing == INSTANCE Turns WITH Step <- HexStep
HexReading == INSTANCE Turns WITH Step <- HexTurn
\* The items of tiles sent one after the other.
HexItems(scr, T, f, n, L, t) ==
  \A i \in 1 .. n : \E item : t[L + i] = item /\ L + i \in 1 .. Len(t)
                              /\ TileRead(scr, item, T[i], f[i - 1].bg, f[i - 1].fg, f[i].bg, f[i].fg)

HexDone(v, T) == InTurn(HandleTile, Rec(v, <<>>, <<>>), T).v
HexReads(scr, pic, items, T, r, L, n, inf) ==
  HexDone(View(items, pic, L + 1, inf), T) = View(items, Overlay(pic, Points(r), scr), L + n + 1, inf)

-----------------------------------------------------------------------------
(* Runs of pixels.                                                           *)

Copies1(c, l) == [i \in 1 .. l |-> c]
RunsOf(C) == C \X (Nat \ {0})
ExpandStep(a, b, pixels, run) == pixels \o Copies1(run[1], run[2])
Expanding == INSTANCE Turns WITH Step <- ExpandStep
\* The pixels that runs stand for.
Expand(runs) == Expanding!After(0, 0, <<>>, runs)[Len(runs)]

CopiesJoin(s, c, l, m) == (s \o Copies1(c, l)) \o Copies1(c, m) = s \o Copies1(c, l + m)
RunsStep(a, b, runs, c) ==
  IF runs # <<>> /\ Last(runs)[1] = c THEN [runs EXCEPT ![Len(runs)][2] = @ + 1]
  ELSE Append(runs, <<c, 1>>)

Running == INSTANCE Turns WITH Step <- RunsStep
Grows(runs, new, c, C) == new \in Seq(RunsOf(C)) /\ Expand(new) = Append(Expand(runs), c)

-----------------------------------------------------------------------------
(* Palettes, and what a tile of ZRLE stands for.                             *)

PalStep(a, b, pal, c) == IF c \in Range(pal) THEN pal ELSE Append(pal, c)
Choosing == INSTANCE Turns WITH Step <- PalStep
HasAll(pal, C) == pal \in Seq(C) /\ \A c \in C : \E i \in DOMAIN pal : pal[i] = c
PalGrows(pal, new, c, C) == new \in Seq(C) /\ Range(pal) \subseteq Range(new) /\ c \in Range(new)
\* The entries of a tile in runs.
Entries == {<<i>> : i \in Int} \cup (Int \X Nat)

ColourOf(t, x) == IF t.type = PlainRle THEN x ELSE t.palette[x + 1]
LengthOf(e) == IF Len(e) = 1 THEN 1 ELSE e[2] + 1
AddStep(t, b, pixels, e) ==
  pixels \o [i \in 1 .. (IF Len(e) = 1 THEN 1 ELSE e[2] + 1) |-> IF t.type = PlainRle THEN e[1] ELSE t.palette[e[1] + 1]]

Adding == INSTANCE Turns WITH Step <- AddStep
Decode(t, rest) == Adding!After(t, 0, <<>>, rest)[Len(rest)]
Decodes(t, new, rest, c, l) == Decode(t, new) = Decode(t, rest) \o Copies1(c, l)
RestStep(pal, b, rest, run) == rest \o PaletteRun(pal, run)
Resting == INSTANCE Turns WITH Step <- RestStep
\* Runs of a palette's colours.
RestMore(t, rest, new, run) ==
  new \in Seq(Entries) /\ Decode(t, new) = Decode(t, rest) \o Copies1(run[1], run[2])

-----------------------------------------------------------------------------
(* The tiles of ZRLE.                                                        *)

BetterStep(a, b, x, y) == IF y[2] < x[2] THEN y ELSE x
Bettering == INSTANCE Turns WITH Step <- BetterStep
\* The types that a tile of so many colours may have.
TypesFor(size) ==
  {0, 128} \cup (IF size < 128 THEN {128 + size} ELSE {}) \cup (IF size < 17 THEN {size} ELSE {})

TypeFits(k, size) == IF size = 1 THEN k = 1 ELSE k \in TypesFor(size)
\* A tile that the viewer takes for flat.
TileShows(t, n, flat) ==
  /\ t.type # 129 /\ TilePixels(t, n) = flat
  /\ Len(t.palette) = IF t.type >= PlainRle THEN t.type - PlainRle ELSE t.type

Tile(type, palette, rest) == [type |-> type, palette |-> palette, rest |-> rest]
Picked(t) == [i \in DOMAIN t.rest |-> t.palette[t.rest[i] + 1]]

-----------------------------------------------------------------------------
(* How the viewer reads them.                                                *)

ZRec(v) == [v |-> v, failed |-> No]
ZTurnStep(coded, T, a, i) == HandleZRLETile(a, coded[i], T[i])
ZTurning == INSTANCE Turns WITH Step <- ZTurnStep
ZDone(v, coded, T) == ZTurning!After(coded, T, ZRec(v), UpTo(Len(T)))[Len(T)].v
ZReads(scr, pic, items, coded, T, r, at, inf) ==
  ZDone(View(items, pic, at, inf), coded, T) = View(items, Overlay(pic, Points(r), scr), at, inf)

IsCoded(scr, T, n, coded) ==
  \A i \in 1 .. n : On(T[i]) /\ TileShows(coded[i], Area(T[i]), Flat(Crop(scr, T[i]), T[i]))

Covered(r, T, n) == Points(r) = UNION {Points(T[i]) : i \in 1 .. n}
\* The rectangle whose tiles follow in one body.
ZHandles(scr, items, pic, at, d, r) ==
  HandleZRLE(View(items, pic, at, d), r) = View(items, Overlay(pic, Points(r), scr), at + 2, Bumped(d, "zrle"))

ZBody(body, d, coded) == body = <<"deflated", "zrle", d["zrle"] + 1, coded>>

-----------------------------------------------------------------------------
(* Tight: a part of a rectangle.                                             *)

Reads2(scr, o, q, r, enc, b, D) ==
  \A items, pic, at : IsSeq(items) /\ pic \in Seen /\ at \in 1 .. Len(items) /\ items[at] = b
    => Handle(View(items, pic, at, o.deflated), r, enc) = View(items, Overlay(pic, D, scr), at + 1, q.deflated)

TightStream(c) == IF c[2] = "copy" THEN "full" ELSE IF c[3] = 2 THEN "mono" ELSE "indexed"
TightBits(c) == IF c[2] = "copy" THEN 8 * PIXEL24 ELSE IF c[3] = 2 THEN 1 ELSE 8
TightSize(c, r) == r.h * ((r.w * TightBits(c) + 7) \div 8)
\* The item of data that have a length.
Lengthy(p, q, s, data, len, item) ==
  IF ZlibLevel[s] = 0 THEN q.deflated = p.deflated /\ item = <<"plain", len, data>>
  ELSE q.deflated = Bumped(p.deflated, s) /\ item = <<"deflated", s, p.deflated[s] + 1, data>>

\* What CompressData writes.
Compressed(p, q, s, data, len) ==
  /\ IsOut(q) /\ q.headers = p.headers
  /\ IF len < TIGHT_MIN_TO_COMPRESS
       THEN q.deflated = p.deflated /\ q.items = Append(p.items, <<"plain", len, data>>)
       ELSE \E item : Lengthy(p, q, s, data, len, item) /\ q.items = Append(Append(p.items, <<"length">>), item)

\* A part with data that the viewer takes to be as long, and as they are.
TightForm(c, r, s, len) ==
  c[1] = "tight" /\ c[2] # "fill" /\ c[4] = Method(s) /\ TightSize(c, r) = len /\ TightStream(c) = s

\* The loop that sends a body in portions.
PortionStep(a, b, out, n) == Portion(out, n)
Portioning == INSTANCE Turns WITH Step <- PortionStep

\* A palette is as large as the colours are many, and fits into the buffer.
PaletteFits(n, C) ==
  /\ n \in Nat /\ (n # 0 => Cardinality(C) = n) /\ Cardinality(C) # 0
  /\ n > 2 => 18 + n * 4 <= UPDATE_BUF_SIZE

\* What is sent of a part's form, and then of its data.
TightPut(o, h, p, c, n) == IsOut(p) /\ Adds(h, p, c) /\ p.ublen + n <= UPDATE_BUF_SIZE

-----------------------------------------------------------------------------
(* Rectangles without areas of one colour.                                   *)

SimpleCount(r) ==
  IF r.w > MaxRectWidth \/ Area(r) > MaxRectSize
    THEN ((r.w - 1) \div MaxRectWidth + 1) * ((r.h - 1) \div SubrectMaxHeight(r.w) + 1)
  ELSE 1

SubrectStep(pic, b, out, s) == SendSubrect(out, pic, s)
Subrecting == INSTANCE Turns WITH Step <- SubrectStep
SimpleDivides(r, T, n) ==
  /\ n \in Nat \ {0} /\ Len(T) = n /\ Points(r) = UNION {Points(T[i]) : i \in 1 .. n}
  /\ \A i \in 1 .. n : On(T[i]) /\ Area(T[i]) <= MaxRectSize

-----------------------------------------------------------------------------
(* Tight: areas of one colour.                                               *)

RowStep(same, r, found, i) ==
  LET dy   == r.y + (i - 1) * MaxSplitTile
      dh   == Lesser(MaxSplitTile, r.y + r.h - dy)
      wide == SolidWidth(same, r.x, dy, found.w, dh)
      area == Rect(r.x, r.y, wide, dy + dh - r.y)
  IN  [w |-> wide, best |-> IF Area(area) > Area(found.best) THEN area ELSE found.best]

Rowing == INSTANCE Turns WITH Step <- RowStep
\* An area of one colour that starts at the corner of r, or is empty.
Corner(same, r, s) ==
  /\ s = Rect(r.x, r.y, s.w, s.h) /\ s.w \in 0 .. r.w /\ s.h \in 0 .. r.h
  /\ CheckSolidTile(same, s)

\* What there is after k lines.
Grown(same, r, found, k) == Corner(same, r, Rect(r.x, r.y, found.w, k)) /\ Corner(same, r, found.best)

\* An area of one colour within r, and where it lies.
Uniform(same, r, s) == IsRect(s) /\ Within(s, r) /\ CheckSolidTile(same, s)

\* What is between two lines, and between two columns.
Between(same, x1, y1, x2, y2) == CheckSolidTile(same, Rect(x1, y1, x2 - x1, y2 - y1))

\* The solid area of a tile, if there is one.
OneColour(pic, s) == \A p \in Points(s) : pic[p] = pic[<<s.x, s.y>>]

SolidIn(pic, r, s) == IsRect(s) /\ Within(s, r) /\ OneColour(pic, s)

-----------------------------------------------------------------------------
(* Tight: the search.                                                        *)

\* What Searched makes a rectangle into.
RestOf(all, dy) ==
  IF dy - all.y >= SubrectMaxHeight(all.w)
    THEN Rect(all.x, all.y + SubrectMaxHeight(all.w), all.w, all.h - SubrectMaxHeight(all.w)) ELSE all

SentOf(all, dy) ==
  IF dy - all.y >= SubrectMaxHeight(all.w) THEN Simple(Rect(all.x, all.y, all.w, SubrectMaxHeight(all.w))) ELSE <<>>

AboveOf(r, s) == IF s.y = r.y THEN <<>> ELSE Simple(Rect(r.x, r.y, r.w, s.y - r.y))
LeftOf(r, s) == Rect(r.x, s.y, s.x - r.x, s.h)
RightOf(r, s) == Rect(s.x + s.w, s.y, r.x + r.w - s.x - s.w, s.h)
SolidOf(pic, r, dy) == FirstFound(FoundIn(pic, r, dy))
Queries == {q \in Rects \X Int : q[1].y <= q[2]}
\* The rest of a rectangle when the part above has been sent.
IsRest(all, dy, r) ==
  /\ IsRect(r) /\ Within(r, all) /\ r.w = all.w /\ r.h <= all.h /\ r.y + r.h = all.y + all.h
  /\ r.y <= dy /\ dy < r.y + r.h

\* A smaller rectangle within one, which may be without points.
Smaller(r, e) ==
  /\ e = Rect(e.x, e.y, e.w, e.h) /\ e.x \in Int /\ e.y \in Int /\ e.w \in Nat /\ e.h \in Nat
  /\ Within(e, r) /\ e.w + e.h < r.w + r.h

\* What becomes less with every part that is searched.
Half(r) == r.w + r.h

To(r, dy) == IF dy < r.y + r.h THEN r.y + r.h - dy ELSE 0
Rank(q) == Half(q[1]) * Half(q[1]) + To(q[1], q[2])
\* Two searches agree on what ranks below n.
Agree(g, h, n) == \A q \in Queries : Rank(q) < n => g[q] = h[q]

\* A search that is right about what ranks below n.
Right(pic, g, n) == \A q \in Queries : Rank(q) < n => g[q] = Searched(g, pic, q[1], q[2])

-----------------------------------------------------------------------------
(* Tight: what the search makes of a rectangle covers it.                    *)

\* A part, and what it draws.
GoodPart(scr, p) ==
  /\ p[1] \in {"flush", "simple", "solid"}
  /\ p[1] # "flush" => On(p[2])
  /\ p[1] = "solid" => OneColour(scr, p[2])

DrawnBy(p) == IF p[1] = "flush" THEN {} ELSE Points(p[2])
\* T is a sequence of parts that draw D.
Cuts(scr, T, D) ==
  /\ IsSeq(T) /\ \A i \in 1 .. Len(T) : GoodPart(scr, T[i])
  /\ \A p : p \in D <=> \E i \in 1 .. Len(T) : p \in DrawnBy(T[i])

\* What Searched gives where what it goes on with cuts what it should.
CutsBelow(scr, g, all, dy) ==
  \A q \in Queries : Rank(q) < Rank(<<all, dy>>) /\ On(q[1]) => Cuts(scr, g[q], Points(q[1]))

\* The parts in which rfbSendRectEncodingTight sends a rectangle.
TightParts(scr, r, lastRect) == IF lastRect THEN Entered(Search(scr), r) ELSE Flush(r) \o Simple(r)

PartStep(pic, b, out, part) == SendPart(out, pic, part)
Parting == INSTANCE Turns WITH Step <- PartStep

-----------------------------------------------------------------------------
(* The rectangles of an update.                                              *)

EncodingNames == {"raw", "rre", "corre", "hextile", "zlib", "ultra", "tight", "zrle"}
\* How many rectangles r is sent as; 0: not known.
Number(enc, r, lastRect) ==
  CASE enc = "corre" -> ((r.w - 1) \div CorreMax + 1) * ((r.h - 1) \div CorreMax + 1)
    [] enc \in {"zlib", "ultra"} -> (r.h - 1) \div StripLines(r.w) + 1
    [] enc = "tight" -> rfbNumCodedRectsTight(r, lastRect)
    [] OTHER -> 1

\* A rectangle is sent as many as it counts for, if that is known.
SentAs(scr, o, q, r, k) == Serve(scr, o, q, Points(r)) /\ (k # 0 => q.headers = o.headers + k)

-----------------------------------------------------------------------------
(* How many rectangles are announced.                                        *)

CountStep(enc, lastRect, sum, r) == sum + Number(enc, r, lastRect)
Counting == INSTANCE Turns WITH Step <- CountStep
Sum(enc, lastRect, rs) == Counting!After(enc, lastRect, 0, rs)[Len(rs)]
Rectangles(rs) == IsSeq(rs) /\ \A i \in 1 .. Len(rs) : On(rs[i])
TailIs(rs, t) == IsSeq(t) /\ Len(t) + 1 = Len(rs) /\ \A i \in 1 .. Len(t) : t[i] = rs[i + 1]

-----------------------------------------------------------------------------
(* Rectangles without pixels.                                                *)

NoticeNames == {"xcursor", "pos", "led", "messages", "encodings", "identity"}
\* What follows the header of a rectangle without pixels is what is read past.
NoticeFollows(items, at, N) == at + Len(N) <= Len(items) + 1 /\ \A i \in 1 .. Len(N) : items[at + i - 1] = N[i]

\* q is o with a rectangle that N follows, and has been flushed.
IsTold(o, q, r, enc, N) ==
  /\ IsOut(q) /\ q.headers = o.headers + 1 /\ q.deflated = o.deflated /\ q.ublen = 0
  /\ Len(q.items) = Len(o.items) + 1 + Len(N) /\ Extends(q.items, o.items)
  /\ q.items[Len(o.items) + 1] = <<"rect", r, enc>>
  /\ \A i \in 1 .. Len(N) : q.items[Len(o.items) + 1 + i] = N[i]

Tells(scr, o, q) == Serve(scr, o, q, {}) /\ q.headers = o.headers + 1 /\ q.ublen = 0
\* The colours and the two bitmaps of a shape.
Shape(m) == <<<<"colours">>, <<"bits", m>>, <<"bits", m>>>>

ShapeOut(o, r, m) ==
  rfbSendUpdateBuf(Put(Put(Put(Header(Room(o, 18 + 2 * m), r, "xcursor"), <<"colours">>, 6), <<"bits", m>>, m), <<"bits", m>>, m))

\* A cursor that fits, or none.
CursorFits(c) == (c[1] = 0 <=> c[2] = 0) /\ 18 + 2 * MaskBytes(c[1], c[2]) <= UPDATE_BUF_SIZE

\* All of those that are due.
DueUpTo(due, i) == {j \in 1 .. i : Notices[j] \in due}

NoticeStep(due, cursor, out, e) == IF e \in due THEN SendNotice(out, e, cursor) ELSE out
Noticing == INSTANCE Turns WITH Step <- NoticeStep
Noticed(due, cursor, o) == Noticing!After(due, cursor, o, Notices)[Len(Notices)]
Number0(due) == Cardinality({i \in DOMAIN Notices : Notices[i] \in due})
NoticesTold(scr, o, q, due) == Serve(scr, o, q, {}) /\ q.headers = o.headers + Number0(due) /\ q.ublen <= o.ublen

-----------------------------------------------------------------------------
(* The order of the copies.                                                  *)

\* R orders 1 .. n.
IsOrder(R, n) ==
  /\ \A i, j, k \in 1 .. n : <<i, j>> \in R /\ <<j, k>> \in R => <<i, k>> \in R
  /\ \A i \in 1 .. n : <<i, i>> \notin R
  /\ \A i, j \in 1 .. n : i # j => <<i, j>> \in R \/ <<j, i>> \in R

Sorts(t, R, n) ==
  /\ t \in [1 .. n -> 1 .. n] /\ (\A i \in 1 .. n : \E k \in 1 .. n : t[k] = i)
  /\ \A k, l \in 1 .. n : k < l => <<t[k], t[l]>> \in R

\* The source of a copy is on the screen as well.
Sourced(r, dx, dy) == 0 <= r.x - dx /\ 0 <= r.y - dy /\ r.x - dx + r.w <= Width /\ r.y - dy + r.h <= Height

Banding(rs, n) ==
  \A i, j \in 1 .. n : i < j =>
    \/ rs[i].y + rs[i].h <= rs[j].y
    \/ rs[i].y = rs[j].y /\ rs[i].x + rs[i].w <= rs[j].x

IsCopy(c, n) ==
  /\ n \in Nat \ {0} /\ IsSeq(c[1]) /\ Len(c[1]) = n /\ DOMAIN c[1] = 1 .. n
  /\ c[2] \in Int /\ c[3] \in Int /\ c # <<>> /\ c[1] # <<>>
  /\ \A i \in 1 .. n : On(c[1][i]) /\ Sourced(c[1][i], c[2], c[3])
  /\ Banding(c[1], n)
  /\ 4 + 16 * n <= UPDATE_BUF_SIZE

\* a is copied before b.
Earlier(c, a, b) ==
  IF a.y = b.y THEN (IF c[2] > 0 THEN a.x > b.x ELSE a.x < b.x)
               ELSE (IF c[3] > 0 THEN a.y > b.y ELSE a.y < b.y)

\* What CopyOrder(c) is.
Ordered(c, n, s) ==
  /\ IsSeq(s) /\ Len(s) = n /\ DOMAIN s = 1 .. n
  /\ \A k \in 1 .. n : On(s[k]) /\ Sourced(s[k], c[2], c[3])
  /\ Union(s) = Union(c[1])
  /\ \A k, l \in 1 .. n : k < l => \A p \in Points(s[l]) : <<p[1] - c[2], p[2] - c[3]>> \notin Points(s[k])

IsCopyOrder(c, s) ==
  /\ s \in [DOMAIN c[1] -> ToSet(c[1])] /\ ToSet(s) = ToSet(c[1])
  /\ \A i, j \in DOMAIN s : i < j => Earlier(c, s[i], s[j])

-----------------------------------------------------------------------------
(* What has been read so far, from the picture there was before the update.  *)

Zero == [s \in Streams |-> 0]
Reads(first, o, P) ==
  /\ IsOut(o) /\ P \in Seen
  /\ \A items : IsSeq(items) /\ Extends(items, o.items) =>
       Turning(View(items, first, 1, Zero), o.headers, View(items, P, Len(o.items) + 1, o.deflated))

\* Part of the picture is moved.
MovedBy(pic, D, dx, dy) == [p \in Screen |-> IF p \in D THEN pic[<<p[1] - dx, p[2] - dy>>] ELSE pic[p]]

CopyAdds(first, o, q, P, D, dx, dy) ==
  Reads(first, q, MovedBy(P, D, dx, dy)) /\ q.ublen = o.ublen + 16 /\ q.headers = o.headers + 1

CopyStep(dx, dy, out, r) == Put(Header(out, r, "copyrect"), <<"source", r.x - dx, r.y - dy>>, 4)
FirstOnes(s, i) == UNION {Points(s[j]) : j \in 1 .. i}
Copying == INSTANCE Turns WITH Step <- CopyStep
AllCopied(c, o, s) == Copying!After(c[2], c[3], o, s)[Len(s)]
Copies0(first, o, q, P, c, n) ==
  /\ Reads(first, q, MovedBy(P, Union(c[1]), c[2], c[3])) /\ q.headers = o.headers + n

-----------------------------------------------------------------------------
(* The viewer reads an update.                                               *)

\* All of q is read with the marker, if marked, as its last rectangle.
WillRead(first, q, P, marked) ==
  /\ IsOut(q) /\ P \in Seen
  /\ Turning(View(q.items, first, 1, Zero), q.headers, Viewing(P, q.items, Len(q.items) + 1, Yes, marked, q.deflated))

Marked(o) == Header(Room(o, 12), Rect(0, 0, 0, 0), "last")
\* f reads n rectangles.
ReadBy(f, v, n) == f[0] = v /\ \A i \in 1 .. n : f[i] = HandleRect(f[i - 1])

\* What the viewer has when n rectangles were announced.
ReadRight(v, q, P, marked, n) ==
  /\ v.pic \in Seen
  /\ v.ok = Yes /\ Left(v) = 0 => v.pic = P
  /\ n = q.headers \/ (marked = Yes /\ q.headers <= n) => v.ok = Yes /\ Left(v) = 0

-----------------------------------------------------------------------------
(* The invariant.                                                            *)

\* The record of an update under way.
IsUpd(u) ==
  {"phase", "enc", "lastRect", "rects", "copies", "due", "cursor", "unknown", "nRects", "out"} \subseteq DOMAIN u

Choice(enc, lastRect) == enc \in Encodings /\ lastRect \in BOOLEAN
Shapely(due, cursor) == cursor \in Nat \X Nat /\ (due # {} => CursorFits(cursor))
Whole(unknown, n) == unknown \in BOOLEAN /\ n \in 0 .. LastRectUnknown /\ (unknown = Yes => n = LastRectUnknown)
Typed(u) ==
  /\ IsUpd(u) /\ Choice(u.enc, u.lastRect) /\ Rectangles(u.rects) /\ Shapely(u.due, u.cursor)
  /\ Whole(u.unknown, u.nRects) /\ IsOut(u.out)

\* A number of 16 bits.
Wrapped(n) == n % 65536

Alike(pic, scr, D) == \A p \in Screen : p \notin D => pic[p] = scr[p]
\* What was announced is what has been written and k more, unless that is not known.
Announced(u, k) ==
  u.unknown = No => /\ u.nRects = Wrapped(u.out.headers + k)
                    /\ \A i \in 1 .. Len(u.rects) : Number(u.enc, u.rects[i], u.lastRect) # 0

InSum(u) == Sum(u.enc, u.lastRect, u.rects)
Telling(u, scr, sh, mod, c) ==
  /\ u.phase = "notices" /\ u.out = Out(4, 4, 0, <<>>, Zero)
  /\ (c = <<>> => u.copies = <<>> /\ Alike(sh, scr, mod \cup Union(u.rects))) /\ (c # <<>> => u.copies = CopyOrder(c))
  /\ Announced(u, Number0(u.due) + Len(u.copies) + InSum(u))

Moving(u, scr, sh, mod, c) ==
  /\ u.phase = "copies" /\ c # <<>> /\ u.copies = CopyOrder(c)
  /\ Reads(sh, u.out, sh) /\ u.out.ublen <= 4 /\ Announced(u, Len(u.copies) + InSum(u))

Sending(u, scr, sh, mod, c) ==
  /\ u.phase = "rects" /\ c = <<>> /\ Announced(u, InSum(u))
  /\ \E P : Reads(sh, u.out, P) /\ Alike(P, scr, mod \cup Union(u.rects))

Gone(u, scr, sh, mod, c) ==
  /\ u.phase = "sent" /\ c = <<>> /\ Announced(u, 0)
  /\ \E P : WillRead(sh, u.out, P, u.unknown) /\ Alike(P, scr, mod)

UnderWay(u, scr, sh, mod, c) ==
  Typed(u) /\ (Telling(u, scr, sh, mod, c) \/ Moving(u, scr, sh, mod, c) \/ Sending(u, scr, sh, mod, c) \/ Gone(u, scr, sh, mod, c))

\* Each of the variables, and with a copy to be told the pictures that it makes of each other.
StateInv ==
  /\ screen \in Pictures /\ shown \in Seen /\ modified \subseteq Screen /\ copy \in Copies \cup {<<>>}
  /\ pending \in NoticeSets \cup {NoNotice} /\ lost \in BOOLEAN

CopyInv == copy # <<>> /\ ~lost => modified = {} /\ screen = MovedBy(shown, Union(copy[1]), copy[2], copy[3])
IdleInv == update = Idle /\ ~lost /\ copy = <<>> => Alike(shown, screen, modified)
UpdateInv == update = Idle \/ (~lost /\ UnderWay(update, screen, shown, modified, copy))
IInv == StateInv /\ CopyInv /\ IdleInv /\ UpdateInv
\* t is u with another phase, and what is left to send, and what is written.
Becomes(u, t, ph, rs, o) ==
  /\ IsUpd(t) /\ t.phase = ph /\ t.enc = u.enc /\ t.lastRect = u.lastRect /\ t.rects = rs /\ t.copies = u.copies
  /\ t.due = u.due /\ t.cursor = u.cursor /\ t.unknown = u.unknown /\ t.nRects = u.nRects /\ t.out = o

-----------------------------------------------------------------------------
(* An update is announced.                                                   *)

\* What is announced: how many when that is known.
Announces(k, d, n, unknown, nRects) ==
  unknown = (n = LastRectUnknown) /\ nRects = IF n = LastRectUnknown THEN n ELSE Wrapped(k + n + d)

Empty0 == Out(4, 4, 0, <<>>, Zero)
\* The number of rectangles is announced in 16 bits.
Announceable == update # Idle => update.out.headers <= 65535
=============================================================================
