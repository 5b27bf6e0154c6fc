---------------------------- MODULE ZrleEncoding ----------------------------
(* The ZRLE encoder (zrle.c, zrleencodetemplate.c, zrlepalettehelper.c),     *)
(* without wavelets: tiles, each coded the way that is estimated to take the *)
(* fewest bytes, and all of a rectangle's tiles compressed in one body.      *)
EXTENDS PixelEncodings

CONSTANTS
  rfbZRLETileWidth, rfbZRLETileHeight,             \* 64 and 64
  BitsPerByte                                      \* of the estimate: 8

ASSUME ZrleAssumption ==
  /\ rfbZRLETileWidth \in Nat \ {0} /\ rfbZRLETileHeight \in Nat \ {0}
  /\ BitsPerByte \in Nat \ {0}

CPIXEL == 3                       \* BPPOUT/8 when colours fit in three bytes

\* The types of a tile; a palette's size is added to PaletteRle, or is the type.
RawTile == 0
SolidTile == 1
PlainRle == 128
bitsPerPackedPixel(n) == CASE n = 1 -> 0 [] n = 2 -> 1 [] n \in {3, 4} -> 2 [] OTHER -> 4

\* <<colour, length>> of each run; runs go on from line to line.
Runs(flat) ==
  LET extend(runs, c) ==
        IF runs # <<>> /\ Last(runs)[1] = c THEN [runs EXCEPT ![Len(runs)][2] = @ + 1]
        ELSE Append(runs, <<c, 1>>)
  IN  InTurn(extend, <<>>, flat)

\* zrlePaletteHelperInsert and zrlePaletteHelperLookup: the colours in the order they appear.
Palette(flat) ==
  LET insert(pal, c) == IF c \in Range(pal) THEN pal ELSE Append(pal, c)
  IN  InTurn(insert, <<>>, flat)
Index(pal, c) == (CHOOSE i \in DOMAIN pal : pal[i] = c) - 1

\* <<type, estimated bytes>>; a later way of coding is taken only if it is better.
Estimates(r, runs, size) ==
  LET singlePixels == Cardinality({i \in DOMAIN runs : runs[i][2] = 1})
      longer  == Len(runs) - singlePixels
      packed  == CPIXEL * size + (Area(r) * bitsPerPackedPixel(size)) \div BitsPerByte
  IN  << <<RawTile, CPIXEL * Area(r)>>, <<PlainRle, (CPIXEL + 1) * Len(runs)>> >>
      \o (IF size < 128 THEN << <<PlainRle + size, CPIXEL * size + 2 * longer + singlePixels>> >> ELSE <<>>)
      \o (IF size < 17 THEN << <<size, packed>> >> ELSE <<>>)
TileType(r, runs, size) ==
  LET better(a, b) == IF b[2] < a[2] THEN b ELSE a
  IN  IF size = 1 THEN SolidTile
      ELSE InTurn(better, <<RawTile, CPIXEL * Area(r)>>, Estimates(r, runs, size))[1]

\* Faulty PaletteRun: a run of two is one index.
PaletteRunOnce(pal, run) ==
  IF run[2] <= 2 THEN << <<Index(pal, run[1])>> >>
  ELSE << <<Index(pal, run[1]), run[2] - 1>> >>

\* A run in palette RLE: one or two pixels stand for themselves.
PaletteRun(pal, run) ==
  IF run[2] <= 2 THEN [i \in 1..run[2] |-> <<Index(pal, run[1])>>]
  ELSE << <<Index(pal, run[1]), run[2] - 1>> >>

\* ZRLE_ENCODE_TILE: the type, the palette and what follows.
EncodedTile(data, r) ==
  LET flat == Flat(data, r)
      runs == Runs(flat)
      pal  == Palette(flat)
      type == TileType(r, runs, Len(pal))
      add(rest, run) == rest \o PaletteRun(pal, run)
      tile(colours, rest) == [type |-> type, palette |-> colours, rest |-> rest]
  IN  IF type = SolidTile THEN tile(pal, <<>>)
      ELSE IF type = RawTile THEN tile(<<>>, flat)
      ELSE IF type = PlainRle THEN tile(<<>>, [i \in DOMAIN runs |-> <<runs[i][1], runs[i][2] - 1>>])
      ELSE IF type > PlainRle THEN tile(pal, InTurn(add, <<>>, runs))
      ELSE tile(pal, [i \in DOMAIN flat |-> Index(pal, flat[i])])

rfbSendRectEncodingZRLE(o, pic, r) ==
  LET tiles == Tiles(r, rfbZRLETileWidth, rfbZRLETileHeight)
      done  == Deflate(o, "zrle")
  IN  Packed(done, pic, r, "zrle",
             Body(done, "zrle", [i \in DOMAIN tiles |-> EncodedTile(Crop(pic, tiles[i]), tiles[i])]))
=============================================================================
