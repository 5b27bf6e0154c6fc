--------------------------- MODULE UpdatePipeline ---------------------------
(***************************************************************************)
(* The framebuffer-update pipeline of libvncserver: how main.c records     *)
(* what changed on the screen, per client, and how rfbserver.c turns that  *)
(* record into the update that brings the viewer's picture up to date.     *)
(*                                                                         *)
(* A client record is the part of struct _rfbClient (rfb/rfbproto.h) that  *)
(* "represents the update needed to get the client's framebuffer from its  *)
(* present state to the current state of our framebuffer" (1885-1887),     *)
(* together with view, the picture the viewer at the far end holds after   *)
(* the updates pushed so far.  Updates travel in order on one stream and a *)
(* viewer applies them in order, so view changes in the step that pushes.  *)
(*                                                                         *)
(* A region (rfbregion.c) is the set of its pixels.  The library runs on   *)
(* one thread and calls nothing back between the lines of a handler, so a  *)
(* handler is one step; clients, viewers and the application interleave    *)
(* between handlers.  Not in this module: the other half of                *)
(* rfbUpdateClient (deferred pointer events), scaled screens, a change of  *)
(* the framebuffer's size, colour maps, and what the pseudo-encodings      *)
(* carry (here only "one of them is due").                                 *)
(***************************************************************************)
EXTENDS Integers, FiniteSets

CONSTANTS
  Clients,              \* the rfbClient structures the application owns
  Width, Height,        \* screen->width, screen->height
  Colours,              \* the values a framebuffer pixel takes
  Blank,                \* a viewer pixel no update has reached yet
  Cursors,              \* cursor images, each standing for its opaque pixels
  CursorExtent,         \* [Cursors -> offsets covered, relative to cursorX/Y]
  Points,               \* where the pointer goes: on the screen or off it
  Offsets,              \* the displacements (dx, dy) the application copies by
  Buffers,              \* the frame buffers it starts with and switches to
  DrawRegions,          \* the regions the application draws and marks
  CopyRegions,          \* the regions it passes to rfbDoCopyRegion
  Requests,             \* the rectangles viewers ask for, already clipped
  Encodings,            \* what SetEncodings lists: records of the four flags
  DeferUpdates,         \* screen->deferUpdateTime # 0
  SliceHeight,          \* screen->progressiveSliceHeight, 0 for none
  MaxRectsPerUpdate,    \* screen->maxRectsPerUpdate, 0 for no limit
  MaxWork               \* bound: the application's operations in a behaviour

Pixels == (0 .. Width - 1) \X (0 .. Height - 1)

EncodingFlags ==
  [copyRect : BOOLEAN, shape : BOOLEAN, newFBSize : BOOLEAN, extDesktopSize : BOOLEAN]

ASSUME ConstantsAssumption ==
  /\ Width \in Nat \ {0} /\ Height \in Nat \ {0}
  /\ Colours # {} /\ Cursors # {}
  /\ Blank \notin Colours \cup Cursors
  /\ Colours \cap Cursors = {}
  /\ Points # {} /\ Points \subseteq Int \X Int
  /\ Offsets \subseteq Int \X Int
  /\ CursorExtent \in [Cursors -> SUBSET (Int \X Int)]
  /\ Buffers \subseteq [Pixels -> Colours]
  /\ DrawRegions \subseteq SUBSET Pixels
  /\ CopyRegions \subseteq SUBSET Pixels
  /\ Requests \subseteq SUBSET Pixels
  /\ Encodings \subseteq EncodingFlags
  /\ DeferUpdates \in BOOLEAN
  /\ SliceHeight \in Nat /\ MaxRectsPerUpdate \in Nat /\ MaxWork \in Nat

VARIABLES
  fb,         \* screen->frameBuffer, without the drawn cursor
  cursorXY,   \* screen->cursorX, cursorY
  cursor,     \* screen->cursor
  clients,    \* the clients on the screen's list (clientHead)
  cl,         \* the client records
  work        \* application operations so far, at most MaxWork

vars == <<fb, cursorXY, cursor, clients, cl, work>>

-----------------------------------------------------------------------------
(* Regions.                                                                *)

Minus(p, d) == <<p[1] - d[1], p[2] - d[2]>>
Plus(p, d)  == <<p[1] + d[1], p[2] + d[2]>>

\* sraRgnOffset, cut to the screen: every use intersects the result with a
\* region of the screen.
Offset(S, d) == {p \in Pixels : Minus(p, d) \in S}

\* The pixels a copy to S by d reads.
Sources(S, d) == {q \in Pixels : Plus(q, d) \in S}

Row(S, y) == {x \in 0 .. Width - 1 : <<x, y>> \in S}

\* A region is a list of bands, rows with the same spans, and a band a list
\* of spans: two pixels are in one rectangle of the iterator when they are in
\* one band and one span of it.
SameBand(S, p, q) ==
  \A y \in 0 .. Height - 1 :
    (p[2] <= y /\ y <= q[2]) \/ (q[2] <= y /\ y <= p[2]) => Row(S, y) = Row(S, p[2])

SameSpan(S, p, q) ==
  \A x \in 0 .. Width - 1 :
    (p[1] <= x /\ x <= q[1]) \/ (q[1] <= x /\ x <= p[1]) => x \in Row(S, p[2])

SameRect(S, p, q) == SameBand(S, p, q) /\ SameSpan(S, p, q)

\* The rectangle of p comes before the rectangle of q in the order of
\* sraRgnGetReverseIterator(S, reverseX, reverseY).
RectBefore(S, reverseX, reverseY, p, q) ==
  \/ /\ ~SameBand(S, p, q)
     /\ IF reverseY THEN p[2] > q[2] ELSE p[2] < q[2]
  \/ /\ SameBand(S, p, q) /\ ~SameSpan(S, p, q)
     /\ IF reverseX THEN p[1] > q[1] ELSE p[1] < q[1]

\* When a region is copied in place rectangle by rectangle, the pixel that
\* lands on p may itself have been overwritten by an earlier rectangle.
Overwritten(S, d, reverseX, reverseY, p) ==
  /\ Minus(p, d) \in S
  /\ RectBefore(S, reverseX, reverseY, Minus(p, d), p)

Back(p, d, n) == <<p[1] - n * d[1], p[2] - n * d[2]>>

\* Where the colour that ends up on p stood before the copy: one step back if
\* the source was still intact, one step more for every earlier rectangle
\* that had overwritten it.
Origin(S, d, reverseX, reverseY, p) ==
  LET hops == CHOOSE n \in 1 .. Width + Height :
                /\ ~Overwritten(S, d, reverseX, reverseY, Back(p, d, n - 1))
                /\ \A m \in 1 .. n - 1 :
                     Overwritten(S, d, reverseX, reverseY, Back(p, d, m - 1))
  IN  Back(p, d, hops)

\* A picture after its region S is copied in place by d, one memmove per
\* rectangle, the rectangles in iterator order.
CopyInPlace(pic, S, d, reverseX, reverseY) ==
  [p \in Pixels |-> IF p \in S THEN pic[Origin(S, d, reverseX, reverseY, p)] ELSE pic[p]]

\* The copy the application means: every pixel of S takes the colour its
\* source had before.
Moved(pic, S, d) == [p \in Pixels |-> IF p \in S THEN pic[Minus(p, d)] ELSE pic[p]]

\* A copy the application may ask for: source and destination on the screen.
Copyable(S, d) == \A p \in S : Minus(p, d) \in Pixels

\* A rectangle, the region of rfbDoCopyRect.
IsRect(S) ==
  \E x1, x2 \in 0 .. Width, y1, y2 \in 0 .. Height :
    S = {p \in Pixels : x1 <= p[1] /\ p[1] < x2 /\ y1 <= p[2] /\ p[2] < y2}

BBox(S) == {p \in Pixels : \E a, b, e, g \in S : /\ a[1] <= p[1] /\ p[1] <= b[1]
                                                 /\ e[2] <= p[2] /\ p[2] <= g[2]}

CountRects(S) == Cardinality({{q \in S : SameRect(S, p, q)} : p \in S})

-----------------------------------------------------------------------------
(* The drawn cursor of a viewer that does not draw its own.                *)

\* Faulty CursorRect: not clipped to the screen (no sraClipRect2).
CursorRectUnclipped(image, xy) == {Plus(xy, o) : o \in CursorExtent[image]}

\* The rectangle rfbRedrawAfterHideCursor sends again.
CursorRect(image, xy) == {p \in Pixels : Minus(p, xy) \in CursorExtent[image]}

\* What rfbShowCursor paints of it: it clips to width - 1 and height - 1.
CursorPainted(image, xy) ==
  {p \in CursorRect(image, xy) : p[1] < Width - 1 /\ p[2] < Height - 1}

\* What the frame buffer holds while an update is encoded: rfbShowCursor has
\* the cursor up at xy unless the viewer draws its own.
Image(viewerDraws, xy) ==
  [p \in Pixels |-> IF ~viewerDraws /\ p \in CursorPainted(cursor, xy)
                    THEN cursor ELSE fb[p]]

-----------------------------------------------------------------------------
(* Client records.                                                         *)

ClientState ==
  [ view : [Pixels -> Colours \cup Cursors \cup {Blank}],
    modifiedRegion : SUBSET Pixels, copyRegion : SUBSET Pixels,
    requestedRegion : SUBSET Pixels, copyD : Int \X Int, cursorXY : Int \X Int,
    useCopyRect : BOOLEAN, enableCursorShapeUpdates : BOOLEAN,
    useNewFBSize : BOOLEAN, useExtDesktopSize : BOOLEAN, newFBSizePending : BOOLEAN,
    onHold : BOOLEAN, deferring : BOOLEAN, progressiveSliceY : 0 .. Height - 1 ]

\* Faulty NewClient: nothing is modified yet.
NewClientUnmarked(hold, pending, deferring) ==
  [ view |-> [p \in Pixels |-> Blank],
    modifiedRegion |-> {}, copyRegion |-> {}, requestedRegion |-> {},
    copyD |-> <<0, 0>>, cursorXY |-> cursorXY,
    useCopyRect |-> FALSE, enableCursorShapeUpdates |-> FALSE,
    useNewFBSize |-> FALSE, useExtDesktopSize |-> FALSE, newFBSizePending |-> pending,
    onHold |-> hold, deferring |-> deferring, progressiveSliceY |-> 0 ]

\* A client as rfbNewStreamClient leaves it.  newFBSizePending and
\* startDeferring are read later but not set: they hold what the
\* application's memory held.
NewClient(hold, pending, deferring) ==
  [ view |-> [p \in Pixels |-> Blank],
    modifiedRegion |-> Pixels, copyRegion |-> {}, requestedRegion |-> {},
    copyD |-> <<0, 0>>, cursorXY |-> cursorXY,
    useCopyRect |-> FALSE, enableCursorShapeUpdates |-> FALSE,
    useNewFBSize |-> FALSE, useExtDesktopSize |-> FALSE, newFBSizePending |-> pending,
    onHold |-> hold, deferring |-> deferring, progressiveSliceY |-> 0 ]

\* Faulty ScheduleCopy: modified pixels that are copied are not marked.
ScheduleCopyUnmarked(k, S, d) ==
  LET restart == k.copyD # d
      mod0 == k.modifiedRegion \cup IF restart THEN k.copyRegion
                                    ELSE k.copyRegion \cap Sources(S, d)
      drawn == CursorRect(cursor, k.cursorXY)
      copy == S \cup IF restart THEN {} ELSE k.copyRegion
  IN  IF ~k.useCopyRect
      THEN [k EXCEPT !.modifiedRegion = @ \cup S]
      ELSE [k EXCEPT !.copyRegion = copy, !.copyD = d,
              !.modifiedRegion =
                 IF k.enableCursorShapeUpdates THEN mod0
                 ELSE mod0 \cup ((drawn \cup Offset(drawn, d)) \cap copy)]

\* Faulty ScheduleCopy: the source of a copy may be a copy that is pending.
ScheduleCopyChained(k, S, d) ==
  LET restart == k.copyD # d
      mod0 == k.modifiedRegion \cup IF restart THEN k.copyRegion ELSE {}
      copy == S \cup IF restart THEN {} ELSE k.copyRegion
      mod1 == mod0 \cup (Offset(mod0, d) \cap copy)
      drawn == CursorRect(cursor, k.cursorXY)
  IN  IF ~k.useCopyRect
      THEN [k EXCEPT !.modifiedRegion = @ \cup S]
      ELSE [k EXCEPT !.copyRegion = copy, !.copyD = d,
              !.modifiedRegion =
                 IF k.enableCursorShapeUpdates THEN mod1
                 ELSE mod1 \cup ((drawn \cup Offset(drawn, d)) \cap copy)]

\* Faulty ScheduleCopy: the drawn cursor is copied along.
ScheduleCopyWithCursor(k, S, d) ==
  LET restart == k.copyD # d
      mod0 == k.modifiedRegion \cup IF restart THEN k.copyRegion
                                    ELSE k.copyRegion \cap Sources(S, d)
      copy == S \cup IF restart THEN {} ELSE k.copyRegion
  IN  IF ~k.useCopyRect
      THEN [k EXCEPT !.modifiedRegion = @ \cup S]
      ELSE [k EXCEPT !.copyRegion = copy, !.copyD = d,
              !.modifiedRegion = mod0 \cup (Offset(mod0, d) \cap copy)]

\* rfbScheduleCopyRegion for one client, after the screen's pixels moved.
ScheduleCopy(k, S, d) ==
  LET restart == k.copyD # d
      mod0 == k.modifiedRegion \cup IF restart THEN k.copyRegion
                                    ELSE k.copyRegion \cap Sources(S, d)
      copy == S \cup IF restart THEN {} ELSE k.copyRegion
      mod1 == mod0 \cup (Offset(mod0, d) \cap copy)
      drawn == CursorRect(cursor, k.cursorXY)
  IN  IF ~k.useCopyRect
      THEN [k EXCEPT !.modifiedRegion = @ \cup S]
      ELSE [k EXCEPT !.copyRegion = copy, !.copyD = d,
              !.modifiedRegion =
                 IF k.enableCursorShapeUpdates THEN mod1
                 ELSE mod1 \cup ((drawn \cup Offset(drawn, d)) \cap copy)]

Mark(k, S) == [k EXCEPT !.modifiedRegion = @ \cup S]

\* rfbSetCursor for one client: the drawn cursor changes to image.
Recursor(k, image) ==
  IF k.enableCursorShapeUpdates THEN k
  ELSE Mark(k, CursorRect(cursor, k.cursorXY) \cup CursorRect(image, k.cursorXY))

\* rfbNewFramebuffer for one client.
Renew(k) ==
  [k EXCEPT !.modifiedRegion = Pixels, !.copyRegion = {}, !.copyD = <<0, 0>>,
            !.newFBSizePending = k.useNewFBSize \/ @]

\* A request for S; one that is not incremental marks S and, from a viewer
\* that knows ExtendedDesktopSize, asks for the screen's size too.
Request(k, S, incremental) ==
  IF incremental THEN [k EXCEPT !.requestedRegion = @ \cup S]
  ELSE [k EXCEPT !.requestedRegion = @ \cup S,
                 !.modifiedRegion = @ \cup S, !.copyRegion = @ \ S,
                 !.newFBSizePending = @ \/ k.useExtDesktopSize]

\* All flags are reset and then set from the list; a viewer that draws the
\* cursor itself has the drawn one taken out of its picture.
Encoded(k, e) ==
  [k EXCEPT !.useCopyRect = e.copyRect, !.enableCursorShapeUpdates = e.shape,
            !.useNewFBSize = e.newFBSize \/ e.extDesktopSize,
            !.useExtDesktopSize = e.extDesktopSize,
            !.modifiedRegion =
               @ \cup IF e.shape THEN CursorRect(cursor, k.cursorXY) ELSE {}]

Deferring(k, running) == [k EXCEPT !.deferring = running]

-----------------------------------------------------------------------------
(* rfbSendFramebufferUpdate.                                               *)

Rows(S) == {p[2] : p \in S}

\* The row a progressive update starts from: the saved one if the modified
\* region's bounding box has it, else the top of the box.
SliceTops(k) ==
  LET rows == Rows(k.modifiedRegion)
      y == k.progressiveSliceY
  IN  IF rows = {} \/ \E lo, hi \in rows : lo <= y /\ y <= hi THEN {y}
      ELSE {top \in rows : \A z \in rows : top <= z}

Slice(S, top) ==
  IF SliceHeight = 0 THEN S ELSE {p \in S : top <= p[2] /\ p[2] < top + SliceHeight}

\* Faulty NextSliceY: every slice starts at the top.
NextSliceYStuck(k, top) == 0

NextSliceY(k, top) ==
  IF SliceHeight = 0 THEN k.progressiveSliceY
  ELSE IF top + SliceHeight >= Height THEN 0 ELSE top + SliceHeight

CursorMoved(k) == ~k.enableCursorShapeUpdates /\ k.cursorXY # cursorXY

\* What an update sends: the copies not overwritten since, the pixels and
\* copies that were asked for, and of these the part the viewer can copy
\* itself, the source of which it asked for too.
PendingCopyStale(k) == k.copyRegion        \* faulty PendingCopy

PendingCopy(k) == k.copyRegion \ k.modifiedRegion

Wanted(k, top) == (Slice(k.modifiedRegion, top) \cup PendingCopy(k)) \cap k.requestedRegion

Copied(k) == PendingCopy(k) \cap k.requestedRegion \cap Offset(k.requestedRegion, k.copyD)

\* The rectangles of pixels: those not copied, with the cursor's old and new
\* place when it has to be drawn elsewhere; their bounding box if they are
\* too many and boxed, the encoding one whose rectangles are not split.
SentPixels(k, top, boxed) ==
  LET drawn == (Wanted(k, top) \ Copied(k)) \cup
                 IF CursorMoved(k)
                 THEN CursorRect(cursor, k.cursorXY) \cup CursorRect(cursor, cursorXY)
                 ELSE {}
  IN  IF boxed /\ MaxRectsPerUpdate > 0 /\ CountRects(drawn) > MaxRectsPerUpdate
      THEN BBox(drawn) ELSE drawn

\* Faulty Pushed: the rectangles of the copy in the opposite order.
PushedBackwards(k, top, boxed) ==
  LET xy == IF k.enableCursorShapeUpdates THEN k.cursorXY ELSE cursorXY
      moved == CopyInPlace(k.view, Copied(k), k.copyD, k.copyD[1] < 0, k.copyD[2] < 0)
      sent == SentPixels(k, top, boxed)
      image == Image(k.enableCursorShapeUpdates, xy)
  IN  [p \in Pixels |-> IF p \in sent THEN image[p] ELSE moved[p]]

\* The viewer's picture after the copies and then the pixels.
Pushed(k, top, boxed) ==
  LET xy == IF k.enableCursorShapeUpdates THEN k.cursorXY ELSE cursorXY
      moved == CopyInPlace(k.view, Copied(k), k.copyD, k.copyD[1] > 0, k.copyD[2] > 0)
      sent == SentPixels(k, top, boxed)
      image == Image(k.enableCursorShapeUpdates, xy)
  IN  [p \in Pixels |-> IF p \in sent THEN image[p] ELSE moved[p]]

\* Faulty SendFramebufferUpdate: the parts of modifiedRegion outside the slice
\* and the request are dropped.
SendFramebufferUpdateAll(k, top, pseudo, boxed) ==
  IF k.useNewFBSize /\ k.newFBSizePending
  THEN [k EXCEPT !.newFBSizePending = FALSE]
  ELSE [k EXCEPT
          !.modifiedRegion = {},
          !.copyRegion = {}, !.copyD = <<0, 0>>, !.requestedRegion = {},
          !.progressiveSliceY = NextSliceY(k, top),
          !.cursorXY = IF k.enableCursorShapeUpdates THEN @ ELSE cursorXY,
          !.view = Pushed(k, top, boxed)]

\* The state of client k after rfbSendFramebufferUpdate(k, k.modifiedRegion).
\* top: the first row of the slice; pseudo: a pseudo-rectangle is due.
SendFramebufferUpdate(k, top, pseudo, boxed) ==
  IF k.useNewFBSize /\ k.newFBSizePending
  THEN [k EXCEPT !.newFBSizePending = FALSE]
  ELSE IF Wanted(k, top) = {} /\ ~CursorMoved(k) /\ ~pseudo
  THEN [k EXCEPT !.copyRegion = PendingCopy(k), !.progressiveSliceY = NextSliceY(k, top)]
  ELSE [k EXCEPT
          !.modifiedRegion = (@ \cup PendingCopy(k)) \ (Wanted(k, top) \cup Copied(k)),
          !.copyRegion = {}, !.copyD = <<0, 0>>, !.requestedRegion = {},
          !.progressiveSliceY = NextSliceY(k, top),
          !.cursorXY = IF k.enableCursorShapeUpdates THEN @ ELSE cursorXY,
          !.view = Pushed(k, top, boxed)]

\* FB_UPDATE_PENDING and a non-empty request.  cursorDue stands for the two
\* flags of viewers that draw the cursor themselves.
UpdateDue(k, cursorDue) ==
  /\ ~k.onHold /\ k.requestedRegion # {}
  /\ \/ k.enableCursorShapeUpdates /\ cursorDue
     \/ CursorMoved(k)
     \/ k.useNewFBSize /\ k.newFBSizePending
     \/ k.copyRegion # {} \/ k.modifiedRegion # {}

-----------------------------------------------------------------------------
(* Actions of the application.                                             *)

Work == work < MaxWork /\ work' = work + 1

\* The application draws in S and marks it (rfbMarkRectAsModified ends in
\* rfbMarkRegionAsModified).
Draw(S, colour) ==
  /\ Work
  /\ fb' = [p \in Pixels |-> IF p \in S THEN colour ELSE fb[p]]
  /\ cl' = [c \in Clients |-> IF c \in clients THEN Mark(cl[c], S) ELSE cl[c]]
  /\ UNCHANGED <<cursorXY, cursor, clients>>

\* rfbDoCopyRegion moves the pixels itself, rectangles left to right and top
\* to bottom unless dx, dy are negative, and schedules the copy.
DoCopyRegion(S, d) ==
  /\ Work /\ Copyable(S, d)
  /\ fb' = CopyInPlace(fb, S, d, d[1] < 0, d[2] < 0)
  /\ cl' = [c \in Clients |-> IF c \in clients THEN ScheduleCopy(cl[c], S, d) ELSE cl[c]]
  /\ UNCHANGED <<cursorXY, cursor, clients>>

\* An application that moves the pixels by its own means calls
\* rfbScheduleCopyRegion alone.
ScheduleCopyRegion(S, d) ==
  /\ Work /\ Copyable(S, d)
  /\ fb' = Moved(fb, S, d)
  /\ cl' = [c \in Clients |-> IF c \in clients THEN ScheduleCopy(cl[c], S, d) ELSE cl[c]]
  /\ UNCHANGED <<cursorXY, cursor, clients>>

\* The pointer moves (rfbDefaultPtrAddEvent, for any client's event).
MoveCursor(xy) ==
  /\ Work /\ xy # cursorXY
  /\ cursorXY' = xy
  /\ UNCHANGED <<fb, cursor, clients, cl>>

\* rfbSetCursor redraws under the old image and under the new one.
SetCursor(image) ==
  /\ Work
  /\ cursor' = image
  /\ cl' = [c \in Clients |-> IF c \in clients THEN Recursor(cl[c], image) ELSE cl[c]]
  /\ UNCHANGED <<fb, cursorXY, clients>>

Clip(i, size) == IF i >= size THEN size - 1 ELSE i

\* rfbNewFramebuffer with a buffer of the same size.
NewFramebuffer(buffer) ==
  /\ Work
  /\ fb' = buffer
  /\ cursorXY' = <<Clip(cursorXY[1], Width), Clip(cursorXY[2], Height)>>
  /\ cl' = [c \in Clients |-> IF c \in clients THEN Renew(cl[c]) ELSE cl[c]]
  /\ UNCHANGED <<cursor, clients>>

\* rfbNewStreamClient, accepted or on hold.
NewStreamClient(c) ==
  /\ c \notin clients
  /\ clients' = clients \cup {c}
  /\ \E hold, pending, deferring \in BOOLEAN :
       cl' = [cl EXCEPT ![c] = NewClient(hold, pending, deferring)]
  /\ UNCHANGED <<fb, cursorXY, cursor, work>>

StartOnHoldClient(c) ==
  /\ c \in clients /\ cl[c].onHold
  /\ cl' = [cl EXCEPT ![c].onHold = FALSE]
  /\ UNCHANGED <<fb, cursorXY, cursor, clients, work>>

\* rfbClientConnectionGone; the record is dead until the next connection.
ClientConnectionGone(c) ==
  /\ c \in clients
  /\ clients' = clients \ {c}
  /\ cl' = [cl EXCEPT ![c] = NewClient(FALSE, FALSE, FALSE)]
  /\ UNCHANGED <<fb, cursorXY, cursor, work>>

-----------------------------------------------------------------------------
(* Messages of the viewer and the periodic update.                         *)

FramebufferUpdateRequest(c, S, incremental) ==
  /\ c \in clients
  /\ cl' = [cl EXCEPT ![c] = Request(cl[c], S, incremental)]
  /\ UNCHANGED <<fb, cursorXY, cursor, clients, work>>

SetEncodings(c, e) ==
  /\ c \in clients
  /\ cl' = [cl EXCEPT ![c] = Encoded(cl[c], e)]
  /\ UNCHANGED <<fb, cursorXY, cursor, clients, work>>

\* rfbUpdateClient: the first call that finds an update due starts the timer,
\* a call after the timer ran out sends.
StartDeferring(c) ==
  /\ c \in clients /\ DeferUpdates /\ ~cl[c].deferring
  /\ \E cursorDue \in BOOLEAN : UpdateDue(cl[c], cursorDue)
  /\ cl' = [cl EXCEPT ![c] = Deferring(cl[c], TRUE)]
  /\ UNCHANGED <<fb, cursorXY, cursor, clients, work>>

SendUpdate(c) ==
  /\ c \in clients /\ (DeferUpdates => cl[c].deferring)
  /\ \E cursorDue, pseudo, boxed \in BOOLEAN, top \in SliceTops(cl[c]) :
       /\ UpdateDue(cl[c], cursorDue)
       /\ cl' = [cl EXCEPT ![c] =
            SendFramebufferUpdate(Deferring(cl[c], cl[c].deferring /\ ~DeferUpdates),
                                  top, pseudo, boxed)]
  /\ UNCHANGED <<fb, cursorXY, cursor, clients, work>>

UpdateClient(c) == StartDeferring(c) \/ SendUpdate(c)

-----------------------------------------------------------------------------
Init ==
  /\ fb \in Buffers
  /\ cursorXY \in Points
  /\ cursor \in Cursors
  /\ clients = {}
  /\ cl = [c \in Clients |-> NewClient(FALSE, FALSE, FALSE)]
  /\ work = 0

Application ==
  \/ \E S \in DrawRegions, colour \in Colours : Draw(S, colour)
  \/ \E S \in CopyRegions, d \in Offsets : DoCopyRegion(S, d)
  \/ \E S \in CopyRegions, d \in Offsets : ScheduleCopyRegion(S, d)
  \/ \E xy \in Points : MoveCursor(xy)
  \/ \E image \in Cursors : SetCursor(image)
  \/ \E buffer \in Buffers : NewFramebuffer(buffer)

Next ==
  \/ Application
  \/ \E c \in Clients :
       \/ NewStreamClient(c) \/ StartOnHoldClient(c) \/ ClientConnectionGone(c)
       \/ \E S \in Requests, incremental \in BOOLEAN :
            FramebufferUpdateRequest(c, S, incremental)
       \/ \E e \in Encodings : SetEncodings(c, e)
       \/ UpdateClient(c)

Spec == Init /\ [][Next]_vars

-----------------------------------------------------------------------------
(* Properties.                                                             *)

\* The types of the screen and of the client records.
TypeOK ==
  /\ fb \in [Pixels -> Colours]
  /\ cursorXY \in Int \X Int /\ cursor \in Cursors
  /\ clients \subseteq Clients
  /\ cl \in [Clients -> ClientState]
  /\ work \in 0 .. MaxWork

\* The viewer of k shows at p what the screen shows there: the pixel, or the
\* cursor where the server paints it for this viewer.
Current(k, p) ==
  \/ k.view[p] = fb[p]
  \/ /\ ~k.enableCursorShapeUpdates
     /\ p \in CursorPainted(cursor, k.cursorXY)
     /\ k.view[p] = cursor

\* What is pending for k brings p up to date: p is sent again, or it is the
\* destination of the pending copy and the viewer's own source pixel holds
\* what the screen now has at p, or there is nothing to do.
Accounted(k, p) ==
  \/ p \in k.modifiedRegion
  \/ /\ p \in k.copyRegion
     /\ Minus(p, k.copyD) \in Pixels
     /\ k.view[Minus(p, k.copyD)] = fb[p]
  \/ p \notin k.copyRegion /\ Current(k, p)

\* Nothing the application did is lost on the way to a viewer: copyRegion and
\* modifiedRegion always "represent the update needed to get the client's
\* framebuffer from its present state to the current state of our
\* framebuffer" (rfbproto.h:1885), whatever was drawn over, copied twice by
\* one or by different offsets, copied from under a drawn cursor, requested
\* in parts or sent in slices.
Coherent == \A c \in clients, p \in Pixels : Accounted(cl[c], p)

\* What Coherent takes of the application: the regions it passes to
\* rfbDoCopyRegion are rectangles, as those of rfbDoCopyRect are.
RectangularCopies == \A S \in CopyRegions : IsRect(S)

\* The pipeline implements the lagging mirror.
Mirror == INSTANCE ScreenMirror WITH
  shown <- [c \in Clients |-> cl[c].view],
  overlay <- [c \in Clients |-> IF cl[c].enableCursorShapeUpdates THEN {}
                                ELSE CursorPainted(cursor, cl[c].cursorXY)]

\* No update puts into a viewer's picture anything but what the screen shows
\* at that pixel when the update is pushed: in particular no CopyRect ever
\* moves a pixel the viewer had not yet seen change, or a piece of the drawn
\* cursor, and no rectangle of the copy spoils the source of a later one.
MirrorSpec == Mirror!Spec

\* Fairness: the application keeps calling rfbProcessEvents, so a timer that
\* was started runs out; a viewer keeps asking for the whole screen, and a
\* client put on hold is eventually let in.
FairSpec ==
  /\ Spec
  /\ \A c \in Clients :
       /\ WF_vars(UpdateClient(c))
       /\ WF_vars(FramebufferUpdateRequest(c, Pixels, TRUE))
       /\ WF_vars(StartOnHoldClient(c))

\* A viewer that keeps asking does see every change: a pixel that is out of
\* date is brought up to date, although requests are emptied by every
\* update, slices reach one part of the screen at a time, and updates wait
\* for the timer.
CatchesUp ==
  \A c \in Clients, p \in Pixels :
    (c \in clients /\ ~Current(cl[c], p)) ~> (c \notin clients \/ Current(cl[c], p))
=============================================================================
