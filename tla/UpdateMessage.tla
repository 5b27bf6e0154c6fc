---------------------------- MODULE UpdateMessage ----------------------------
(* One FramebufferUpdate after the other, from the regions to the viewer's   *)
(* framebuffer: the second half of rfbSendFramebufferUpdate (rfbserver.c),   *)
(* which announces the rectangles and writes them, rfbSendCopyRegion, and    *)
(* the viewer that reads them.  Which regions are sent, and when, is the     *)
(* matter of UpdatePipeline.                                                  *)
EXTENDS PixelDecodings

CONSTANTS
  Width, Height, Colours,
  Blank,               \* what the viewer shows at first
  Encodings,
  Updates,             \* regions: their rectangles, in the iterator's order
  Copies,              \* <<rectangles, dx, dy>> of rfbDoCopyRegion
  MaxRectsPerUpdate,
  NoticeSets           \* [due |-> pseudo-rectangles that fall due together,
                       \*  cursor |-> the cursor's width and height]

\* Rectangles of the screen.
Areas == {r \in [x : 0..Width, y : 0..Height, w : 1..Width, h : 1..Height] :
            r.x + r.w <= Width /\ r.y + r.h <= Height}

\* The iterator of a region gives bands from top to bottom, each from left to right.
Banded(rs) ==
  \A i, j \in DOMAIN rs : i < j =>
    \/ rs[i].y + rs[i].h <= rs[j].y
    \/ rs[i].y = rs[j].y /\ rs[i].x + rs[i].w <= rs[j].x

ASSUME RegionAssumption ==
  /\ Width \in Nat \ {0} /\ Height \in Nat \ {0}
  /\ Updates \subseteq Seq(Areas)
  /\ \A c \in Copies :
       /\ c = <<c[1], c[2], c[3]>> /\ c[1] \in Seq(Areas) \ {<<>>} /\ Banded(c[1])
       /\ c[2] \in Int /\ c[3] \in Int
       /\ \A i \in DOMAIN c[1] : [c[1][i] EXCEPT !.x = @ - c[2], !.y = @ - c[3]] \in Areas
ASSUME ChoiceAssumption ==
  /\ Encodings \subseteq {"raw", "rre", "corre", "hextile", "zlib", "ultra", "tight", "zrle"}
  /\ MaxRectsPerUpdate \in Int
  /\ \A n \in NoticeSets : n \in [due : SUBSET ToSet(Notices), cursor : Nat \X Nat]

\* Not so in the code, where a line that does not fit into updateBuf closes the
\* connection, a shape that does not makes the update fail, and rfbSendCopyRegion
\* does not ask; and where a shape with a width or height of 0 is sent like any other.
ASSUME FitAssumption ==
  /\ Width * BPP <= UPDATE_BUF_SIZE
  /\ \A c \in Copies : 4 + 16 * Len(c[1]) <= UPDATE_BUF_SIZE
  /\ \A k \in DOMAIN NoticeBytes : sz_rfbFramebufferUpdateRectHeader + NoticeBytes[k] <= UPDATE_BUF_SIZE
  /\ \A n \in NoticeSets :
       /\ n.cursor[1] = 0 <=> n.cursor[2] = 0
       /\ sz_rfbFramebufferUpdateRectHeader + sz_rfbXCursorColors
            + 2 * MaskBytes(n.cursor[1], n.cursor[2]) <= UPDATE_BUF_SIZE

VARIABLES
  screen,              \* the framebuffer
  shown,               \* the viewer's
  modified,            \* the points drawn and not yet sent
  copy,                \* the copyRegion and its dx, dy: <<>> when there is none
  pending,             \* a member of NoticeSets, or NoNotice
  update,              \* the update under way
  lost                 \* the viewer no longer knows where it is in the stream

vars == <<screen, shown, modified, copy, pending, update, lost>>

Screen  == Points(Rect(0, 0, Width, Height))
Idle    == [phase |-> "idle"]
NoNotice == [due |-> {}, cursor |-> <<0, 0>>]
Union(rs) == UNION {Points(rs[i]) : i \in DOMAIN rs}

-----------------------------------------------------------------------------
(* The number of rectangles.                                                 *)

\* Faulty Counted: a rectangle is one rectangle.
CountedWhole(enc, rs, lastRect) == Len(rs)

\* nUpdateRegionRects.  Tight's number is not known when one of them is not.
Counted(enc, rs, lastRect) ==
  LET number(r) ==
        CASE enc = "corre" -> ((r.w - 1) \div CorreMax + 1) * ((r.h - 1) \div CorreMax + 1)
          [] enc \in {"zlib", "ultra"} -> (r.h - 1) \div StripLines(r.w) + 1
          [] enc = "tight" -> rfbNumCodedRectsTight(r, lastRect)
          [] OTHER -> 1
      add(sum, r) == sum + number(r)
  IN  IF enc = "tight" /\ \E i \in DOMAIN rs : number(rs[i]) = 0 THEN LastRectUnknown
      ELSE InTurn(add, 0, rs)

\* sraRgnBBox
BBox(rs) ==
  LET x == Min({rs[i].x : i \in DOMAIN rs}) y == Min({rs[i].y : i \in DOMAIN rs})
  IN  Rect(x, y, Max({rs[i].x + rs[i].w : i \in DOMAIN rs}) - x,
                 Max({rs[i].y + rs[i].h : i \in DOMAIN rs}) - y)

\* Many rectangles are replaced by the one around them, by encoders that do
\* not split them.
Limited(enc, rs) ==
  IF MaxRectsPerUpdate > 0 /\ Len(rs) > MaxRectsPerUpdate /\ enc \in {"raw", "rre", "hextile", "zrle"}
    THEN <<BBox(rs)>> ELSE rs

\* Faulty CopyOrder: always from the top left.
CopyOrderForward(c) == c[1]

\* sraRgnGetReverseIterator(reg, dx > 0, dy > 0): later copies must not need
\* what earlier ones have overwritten.
CopyOrder(c) ==
  LET before(a, b) ==
        IF a.y = b.y THEN (IF c[2] > 0 THEN a.x > b.x ELSE a.x < b.x)
                     ELSE (IF c[3] > 0 THEN a.y > b.y ELSE a.y < b.y)
  IN  CHOOSE s \in [DOMAIN c[1] -> ToSet(c[1])] :
        ToSet(s) = ToSet(c[1]) /\ \A i, j \in DOMAIN s : i < j => before(s[i], s[j])

-----------------------------------------------------------------------------
Init ==
  /\ screen \in [Screen -> Colours]
  /\ shown = [p \in Screen |-> Blank]
  /\ modified = Screen
  /\ copy = <<>> /\ pending = NoNotice /\ update = Idle /\ lost = FALSE

\* The application moves pixels that the viewer has.
Copyable == {c \in Copies : modified = {} /\ copy = <<>> /\ update = Idle}

\* rfbDoCopyRegion
DoCopyRegion(c) ==
  LET to == Union(c[1]) IN
  /\ screen' = [p \in Screen |-> IF p \in to THEN screen[<<p[1] - c[2], p[2] - c[3]>>] ELSE screen[p]]
  /\ copy' = c
  /\ UNCHANGED <<shown, modified, pending, update, lost>>

\* Bound: only while every column of the screen has one colour.
NoticesBound == \A p \in Screen : screen[p] = screen[<<p[1], 0>>]

\* SetEncodings, another cursor, a moved pointer or a changed light set the
\* flags of what the viewer is to be told.
FallDue(n) ==
  /\ pending = NoNotice /\ update = Idle /\ NoticesBound
  /\ pending' = n
  /\ UNCHANGED <<screen, shown, modified, copy, update, lost>>

\* What is sent need not have been drawn since (a request that is not
\* incremental), but it is not in the copyRegion.
Sendable == {rs \in Updates : copy # <<>> => Union(rs) \cap Union(copy[1]) = {}}

\* The number of rectangles is announced first, those of the notices that are
\* due among them.
Begin(enc, region, lastRect) ==
  LET rs     == Limited(enc, region)
      copies == IF copy = <<>> THEN <<>> ELSE CopyOrder(copy)
      due    == Cardinality({i \in DOMAIN Notices : Notices[i] \in pending.due})
      n      == Counted(enc, rs, lastRect)
      header == [Empty EXCEPT !.ublen = 4, !.high = 4]        \* sz_rfbFramebufferUpdateMsg
  IN  /\ update = Idle /\ ~lost
      /\ region # <<>> \/ copy # <<>> \/ due # 0
      /\ lastRect => enc = "tight"
      /\ update' = [phase |-> "notices", enc |-> enc, lastRect |-> lastRect,
                    rects |-> rs, copies |-> copies, due |-> pending.due, cursor |-> pending.cursor,
                    unknown |-> n = LastRectUnknown,
                    nRects |-> IF n = LastRectUnknown THEN n ELSE (Len(copies) + n + due) % 65536,
                    out |-> header]
      /\ modified' = modified \ Union(region)
      /\ pending' = NoNotice
      /\ UNCHANGED <<screen, shown, copy, lost>>

SendNotices ==
  LET send(out, e) == IF e \in update.due THEN SendNotice(out, e, update.cursor) ELSE out
  IN  /\ update.phase = "notices"
      /\ update' = [update EXCEPT !.phase = IF update.copies = <<>> THEN "rects" ELSE "copies",
                                  !.out = InTurn(send, @, Notices)]
      /\ UNCHANGED <<screen, shown, modified, copy, pending, lost>>

\* rfbSendCopyRegion does not ask whether there is room.
SendCopyRegion ==
  LET put(out, r) == Put(Header(out, r, "copyrect"), <<"source", r.x - copy[2], r.y - copy[3]>>, 4)
  IN  /\ update.phase = "copies"
      /\ update' = [update EXCEPT !.phase = "rects", !.out = InTurn(put, @, update.copies)]
      /\ copy' = <<>>
      /\ UNCHANGED <<screen, shown, modified, pending, lost>>

Sent(o, r) ==
  CASE update.enc = "raw"     -> rfbSendRectEncodingRaw(o, screen, r)
    [] update.enc = "rre"     -> rfbSendRectEncodingRRE(o, screen, r)
    [] update.enc = "corre"   -> rfbSendRectEncodingCoRRE(o, screen, r)
    [] update.enc = "hextile" -> rfbSendRectEncodingHextile(o, screen, r)
    [] update.enc = "zlib"    -> rfbSendRectEncodingZlib(o, screen, r)
    [] update.enc = "ultra"   -> rfbSendRectEncodingUltra(o, screen, r)
    [] update.enc = "zrle"    -> rfbSendRectEncodingZRLE(o, screen, r)
    [] update.enc = "tight"   -> rfbSendRectEncodingTight(o, screen, r, update.lastRect)

SendRect ==
  /\ update.phase = "rects" /\ update.rects # <<>>
  /\ update' = [update EXCEPT !.rects = Tail(@), !.out = Sent(@, Head(update.rects))]
  /\ UNCHANGED <<screen, shown, modified, copy, pending, lost>>

\* rfbSendLastRectMarker, and the buffer is flushed.
Finish ==
  LET o == update.out
      marked == Header(Room(o, sz_rfbFramebufferUpdateRectHeader), Rect(0, 0, 0, 0), "last")
  IN  /\ update.phase = "rects" /\ update.rects = <<>>
      /\ update' = [update EXCEPT !.phase = "sent", !.out = IF update.unknown THEN marked ELSE o]
      /\ UNCHANGED <<screen, shown, modified, copy, pending, lost>>

\* HandleRFBServerMessage
Read ==
  LET v == HandleRects(Viewer(shown, update.out.items), update.nRects)
  IN  /\ update.phase = "sent"
      /\ shown' = v.pic
      /\ lost' = (~v.ok \/ Left(v) # 0)
      /\ update' = Idle
      /\ UNCHANGED <<screen, modified, copy, pending>>

Next ==
  \/ \E c \in Copyable : DoCopyRegion(c)
  \/ \E enc \in Encodings, rs \in Sendable, lastRect \in BOOLEAN : Begin(enc, rs, lastRect)
  \/ \E n \in NoticeSets : FallDue(n)
  \/ SendNotices \/ SendCopyRegion \/ SendRect \/ Finish \/ Read

Spec == Init /\ [][Next]_vars

-----------------------------------------------------------------------------
\* The buffer never holds more than it has room for, through all the checks
\* the encoders make, or need not make, before they write.
TypeOK ==
  /\ screen \in [Screen -> Colours] /\ shown \in [Screen -> Colours \cup {Blank}]
  /\ modified \subseteq Screen /\ copy \in Copies \cup {<<>>} /\ lost \in BOOLEAN
  /\ pending \in NoticeSets \cup {NoNotice}
  /\ update.phase \in {"idle", "notices", "copies", "rects", "sent"}
  /\ update # Idle => /\ update.enc \in Encodings /\ update.nRects \in 0..65535
                      /\ update.out.ublen \in 0..UPDATE_BUF_SIZE
                      /\ update.out.high \in 4..UPDATE_BUF_SIZE

\* What the viewer reads is, rectangle by rectangle and body by body, what was
\* written: as many rectangles as were announced, each as long as its decoder
\* takes it to be, and nothing is left over.
InStep == ~lost

\* Between updates the viewer shows the framebuffer wherever that has been sent,
\* whatever its picture, the encoding, the way it was split and copied.
Shown ==
  update = Idle /\ copy = <<>> => \A p \in Screen \ modified : shown[p] = screen[p]
=============================================================================
