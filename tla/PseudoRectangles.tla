-------------------------- MODULE PseudoRectangles --------------------------
(* What an update tells a viewer besides pixels: its cursor's shape          *)
(* (XCursor) and position, the keyboard's lights, and what the server        *)
(* supports and is.  Each is a rectangle without pixels, sent ahead of the   *)
(* others, and flushed by itself (cursor.c, rfbserver.c); the viewer's side  *)
(* is in rfbproto.c and cursor.c of libvncclient.                            *)
EXTENDS PixelEncodings

CONSTANT
  NoticeBytes          \* the length of what comes with these:
ASSUME NoticeAssumption == NoticeBytes \in [{"messages", "encodings", "identity"} -> Nat]

sz_rfbXCursorColors == 6
\* The order of sending.
Notices == <<"xcursor", "pos", "led", "messages", "encodings", "identity">>
\* bitmapRowBytes * height
MaskBytes(w, h) == ((w + 7) \div 8) * h

\* Faulty rfbSendCursorShape: no room is asked for.
CursorShapeNoRoom(o, w, h) ==
  LET mask == MaskBytes(w, h)
      colours == Put(Header(o, Rect(0, 0, w, h), "xcursor"), <<"colours">>, sz_rfbXCursorColors)
  IN  rfbSendUpdateBuf(Put(Put(colours, <<"bits", mask>>, mask), <<"bits", mask>>, mask))

\* w = 0 when there is no cursor.  One that does not fit into an empty buffer
\* makes the update fail; there is none here (UpdateMessage!FitAssumption).
rfbSendCursorShape(o, w, h) ==
  LET mask == MaskBytes(w, h)
      size == sz_rfbFramebufferUpdateRectHeader + sz_rfbXCursorColors + 2 * mask
      colours == Put(Header(Room(o, size), Rect(0, 0, w, h), "xcursor"), <<"colours">>, sz_rfbXCursorColors)
      shape == Put(Put(colours, <<"bits", mask>>, mask), <<"bits", mask>>, mask)
  IN  rfbSendUpdateBuf(IF w = 0
        THEN Header(Room(o, sz_rfbFramebufferUpdateRectHeader), Rect(0, 0, 0, 0), "xcursor")
        ELSE shape)

\* rfbSendCursorPos, rfbSendKeyboardLedState: all is in the header.
HeaderOnly(o, enc) ==
  rfbSendUpdateBuf(Header(Room(o, sz_rfbFramebufferUpdateRectHeader), Rect(0, 0, 0, 0), enc))

\* rfbSendSupportedMessages, rfbSendSupportedEncodings, rfbSendServerIdentity:
\* the width says how many bytes follow.
WithBytes(o, enc) ==
  LET n == NoticeBytes[enc]
      head == Header(Room(o, sz_rfbFramebufferUpdateRectHeader + n), Rect(0, 0, n, 0), enc)
  IN  rfbSendUpdateBuf(Put(head, <<"bytes", n>>, n))

\* cursor is its width and height.
SendNotice(o, enc, cursor) ==
  CASE enc = "xcursor"        -> rfbSendCursorShape(o, cursor[1], cursor[2])
    [] enc \in {"pos", "led"} -> HeaderOnly(o, enc)
    [] OTHER                  -> WithBytes(o, enc)

-----------------------------------------------------------------------------
\* How many items the viewer takes to belong to the rectangle, and which.
\* The length of the supported messages is fixed.
NoticeItems(r, enc) ==
  LET mask == MaskBytes(r.w, r.h) IN
  CASE enc = "xcursor" ->
         IF Area(r) = 0 THEN <<>> ELSE <<<<"colours">>, <<"bits", mask>>, <<"bits", mask>>>>
    [] enc \in {"pos", "led"} -> <<>>
    [] enc = "messages"       -> <<<<"bytes", NoticeBytes["messages"]>>>>
    [] OTHER                  -> <<<<"bytes", r.w>>>>
=============================================================================
