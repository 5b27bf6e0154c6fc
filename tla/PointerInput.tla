---------------------------- MODULE PointerInput ----------------------------
(***************************************************************************)
(* Pointer events of several viewers: how PointerEvent messages reach the  *)
(* application's ptrAddEvent, at once or deferred (rfbserver.c 2201-2237,  *)
(* the second half of rfbUpdateClient in main.c), who may press a button   *)
(* (screen->pointerClient), and how the other viewers learn that the       *)
(* pointer moved (rfbDefaultPtrAddEvent, PointerPos rectangles).           *)
(*                                                                         *)
(* ptrAddEvent is rfbDefaultPtrAddEvent, which applications with their own *)
(* ptrAddEvent call from it.  given and at are not in the code: the        *)
(* buttons the application takes a client to press, and where the cursor   *)
(* was when the client was last notified of it.  Coordinates are unscaled. *)
(***************************************************************************)
EXTENDS Naturals, FiniteSets

CONSTANTS
  Clients,    \* the rfbClient structures the application owns
  Nobody,     \* screen->pointerClient = NULL
  Buttons,    \* the button masks a viewer sends, 0 among them
  Points,     \* the positions it sends
  None,       \* no position: lastPtrX < 0
  Sizes,      \* the sizes rfbNewFramebuffer sets
  DeferPtr    \* screen->deferPtrUpdateTime # 0

ASSUME PointerAssumption ==
  /\ Nobody \notin Clients
  /\ 0 \in Buttons /\ Buttons \subseteq Nat
  /\ Points \subseteq Nat \X Nat /\ <<0, 0>> \in Points
  /\ None \notin Nat \X Nat
  /\ Sizes \subseteq (Nat \ {0}) \X (Nat \ {0})
  /\ DeferPtr \in BOOLEAN

VARIABLES
  pointerClient,  \* screen->pointerClient, "Mutex" for pointer events
  cursorXY,       \* screen->window.cursorX/Y
  clients,        \* the clients linked in window.clientHead
  cl              \* [Clients -> ClientState]

vars == <<pointerClient, cursorXY, clients, cl>>

ClientState ==
  [ viewOnly : BOOLEAN, lastPtrButtons : Buttons, lastPtr : Points \cup {None},
    deferring : BOOLEAN, enableCursorShapeUpdates : BOOLEAN,
    enableCursorPosUpdates : BOOLEAN, cursorWasMoved : BOOLEAN,
    cursorXY : Nat \X Nat,
    given : Buttons, at : Nat \X Nat ]

\* Faulty NewClient: an event deferred for the record's former viewer stays.
NewClientKept(k, view) ==
  [k EXCEPT !.viewOnly = view, !.enableCursorShapeUpdates = FALSE,
            !.enableCursorPosUpdates = FALSE, !.cursorXY = cursorXY, !.given = 0,
            !.at = cursorXY]

\* rfbNewStreamClient.  It sets neither lastPtrButtons nor startPtrDeferring nor
\* cursorWasMoved: they keep what the application's memory held, of an
\* earlier viewer say.
NewClient(k, view) ==
  [k EXCEPT !.viewOnly = view, !.lastPtr = None, !.enableCursorShapeUpdates = FALSE,
            !.enableCursorPosUpdates = FALSE, !.cursorXY = cursorXY,
            !.given = 0, !.at = cursorXY]

Passed(k, moved, buttons, p) ==
  [k EXCEPT !.cursorWasMoved = moved, !.given = buttons, !.at = p]
Accepted(k, buttons) == [k EXCEPT !.lastPtrButtons = buttons]
Waiting(k, p) == [k EXCEPT !.lastPtr = p]
Timed(k, running) == [k EXCEPT !.deferring = running]
Notify(k, moved) == [k EXCEPT !.cursorWasMoved = moved]

\* Faulty WasMoved: a client that has not yet been told of the last move is taken
\* for informed.
WasMovedOnce(c, d, p) ==
  IF p = cursorXY \/ ~cl[d].enableCursorPosUpdates THEN cl[d].cursorWasMoved
  ELSE d # c /\ ~cl[d].cursorWasMoved

\* cursorWasMoved of d after c moved the pointer: unless the pointer stays where it
\* is, everyone who takes positions is to be notified, but not the client
\* that moved it.
WasMoved(c, d, p) ==
  IF p = cursorXY \/ ~cl[d].enableCursorPosUpdates THEN cl[d].cursorWasMoved ELSE d # c

\* screen->ptrAddEvent(buttons, p, c) for a client whose record becomes k otherwise.
PtrAddEvent(c, buttons, p, k) ==
  /\ cursorXY' = p
  /\ cl' = [d \in Clients |->
              IF d = c THEN Passed(k, WasMoved(c, d, p), buttons, p)
              ELSE IF d \in clients THEN Notify(cl[d], WasMoved(c, d, p)) ELSE cl[d]]

-----------------------------------------------------------------------------
\* rfbNewStreamClient on a record that is not in the list; a password of the
\* view-only kind sets viewOnly before any pointer event can come.
NewStreamClient(c, view) ==
  /\ c \notin clients
  /\ clients' = clients \cup {c}
  /\ cl' = [cl EXCEPT ![c] = NewClient(cl[c], view)]
  /\ UNCHANGED <<pointerClient, cursorXY>>

Forgotten(k) == [k EXCEPT !.given = 0, !.at = <<0, 0>>]

\* rfbClientConnectionGone.  The rest of the record stays as it is.
ClientConnectionGone(c) ==
  /\ c \in clients
  /\ clients' = clients \ {c}
  /\ pointerClient' = IF pointerClient = c THEN Nobody ELSE pointerClient
  /\ cl' = [cl EXCEPT ![c] = Forgotten(cl[c])]
  /\ UNCHANGED cursorXY

Encoded(k, shape, pos) ==
  [k EXCEPT !.enableCursorShapeUpdates = shape, !.enableCursorPosUpdates = pos /\ shape,
            !.cursorWasMoved = pos \/ k.cursorWasMoved]

\* SetEncodings.  Positions are turned off again for a viewer without shapes.
SetEncodings(c, shape, pos) ==
  /\ c \in clients
  /\ cl' = [cl EXCEPT ![c] = Encoded(cl[c], shape, pos)]
  /\ UNCHANGED <<pointerClient, cursorXY, clients>>

\* Faulty PointerEvent: every motion starts the wait anew.
PointerEventRestarting(c, buttons, p) ==
  /\ c \in clients /\ pointerClient \in {Nobody, c}
  /\ pointerClient' = IF buttons = 0 THEN Nobody ELSE c
  /\ LET k == Accepted(cl[c], buttons)
     IN  \/ cl[c].viewOnly /\ UNCHANGED <<cl, cursorXY>>
         \/ /\ ~cl[c].viewOnly /\ (buttons # cl[c].lastPtrButtons \/ ~DeferPtr)
            /\ PtrAddEvent(c, buttons, p, k)
         \/ /\ ~cl[c].viewOnly /\ buttons = cl[c].lastPtrButtons /\ DeferPtr
            /\ cl' = [cl EXCEPT ![c] = Timed(Waiting(k, p), FALSE)]
            /\ UNCHANGED cursorXY
  /\ UNCHANGED clients

\* The case rfbPointerEvent.  While another client holds the pointer the event
\* is dropped.  A change of the buttons is passed on at once, a mere
\* motion is left for rfbUpdateClient if pointer events are deferred.
PointerEvent(c, buttons, p) ==
  /\ c \in clients /\ pointerClient \in {Nobody, c}
  /\ pointerClient' = IF buttons = 0 THEN Nobody ELSE c
  /\ LET k == Accepted(cl[c], buttons)
     IN  \/ cl[c].viewOnly /\ UNCHANGED <<cl, cursorXY>>
         \/ /\ ~cl[c].viewOnly /\ (buttons # cl[c].lastPtrButtons \/ ~DeferPtr)
            /\ PtrAddEvent(c, buttons, p, k)
         \/ /\ ~cl[c].viewOnly /\ buttons = cl[c].lastPtrButtons /\ DeferPtr
            /\ cl' = [cl EXCEPT ![c] = Waiting(k, p)]
            /\ UNCHANGED cursorXY
  /\ UNCHANGED clients

\* rfbUpdateClient starts the timer of a deferred event ...
StartPtrDeferring(c) ==
  /\ c \in clients /\ ~cl[c].viewOnly /\ cl[c].lastPtr # None /\ ~cl[c].deferring
  /\ cl' = [cl EXCEPT ![c] = Timed(cl[c], TRUE)]
  /\ UNCHANGED <<pointerClient, cursorXY, clients>>

\* Faulty DeliverDeferred: whether an event waits is not checked.
DeliverDeferredAlways(c) ==
  /\ c \in clients /\ ~cl[c].viewOnly /\ cl[c].deferring
  /\ PtrAddEvent(c, cl[c].lastPtrButtons, cl[c].lastPtr,
                 Timed(Waiting(cl[c], None), FALSE))
  /\ UNCHANGED <<pointerClient, clients>>

\* ... and passes the event on when the timer has run out.
DeliverDeferred(c) ==
  /\ c \in clients /\ ~cl[c].viewOnly /\ cl[c].lastPtr # None /\ cl[c].deferring
  /\ PtrAddEvent(c, cl[c].lastPtrButtons, cl[c].lastPtr,
                 Timed(Waiting(cl[c], None), FALSE))
  /\ UNCHANGED <<pointerClient, clients>>

\* rfbSendCursorPos: the viewer learns that the cursor has moved (the position it
\* gets is that of cl->cursorX/Y, which nobody keeps for it).
Told(k) == [k EXCEPT !.cursorWasMoved = FALSE, !.at = cursorXY]
Redrawn(k) == [k EXCEPT !.cursorXY = cursorXY]

\* rfbSendFramebufferUpdate, the part about the cursor: a viewer that draws the
\* cursor gets the position if it is due, for the others the cursor is
\* moved in the picture.
SendFramebufferUpdate(c) ==
  /\ c \in clients
  /\ LET k == cl[c]
     IN  \/ /\ k.enableCursorPosUpdates /\ k.cursorWasMoved
            /\ cl' = [cl EXCEPT ![c] = Told(k)]
         \/ /\ ~k.enableCursorShapeUpdates /\ k.cursorXY # cursorXY
            /\ cl' = [cl EXCEPT ![c] = Redrawn(k)]
  /\ UNCHANGED <<pointerClient, cursorXY, clients>>

Clamp(p, size) == << IF p[1] < size[1] THEN p[1] ELSE size[1] - 1,
                     IF p[2] < size[2] THEN p[2] ELSE size[2] - 1 >>

Resized(k, size) == [k EXCEPT !.at = Clamp(k.at, size)]

\* rfbNewFramebuffer keeps the pointer on the screen.  It notifies nobody of
\* that: the viewers, which learn of the new size, do the same (external).
NewFramebuffer(size) ==
  /\ cursorXY' = Clamp(cursorXY, size)
  /\ cl' = [c \in Clients |->
              IF c \in clients THEN Resized(cl[c], size) ELSE cl[c]]
  /\ UNCHANGED <<pointerClient, clients>>

-----------------------------------------------------------------------------
Init ==
  /\ pointerClient = Nobody /\ cursorXY = <<0, 0>> /\ clients = {}
  /\ cl \in [Clients ->
       [ viewOnly : {FALSE}, lastPtrButtons : Buttons, lastPtr : {None},
         deferring : BOOLEAN, enableCursorShapeUpdates : {FALSE},
         enableCursorPosUpdates : {FALSE}, cursorWasMoved : {FALSE},
         cursorXY : {<<0, 0>>}, given : {0}, at : {<<0, 0>>} ]]

UpdateClient(c) == StartPtrDeferring(c) \/ DeliverDeferred(c)

Next ==
  \/ \E c \in Clients :
       \/ \E view \in BOOLEAN : NewStreamClient(c, view)
       \/ ClientConnectionGone(c)
       \/ \E shape, pos \in BOOLEAN : SetEncodings(c, shape, pos)
       \/ \E buttons \in Buttons, p \in Points : PointerEvent(c, buttons, p)
       \/ StartPtrDeferring(c)
       \/ DeliverDeferred(c)
       \/ SendFramebufferUpdate(c)
  \/ \E size \in Sizes : NewFramebuffer(size)

Spec == Init /\ [][Next]_vars
FairSpec == Spec /\ \A c \in Clients : WF_vars(UpdateClient(c))

-----------------------------------------------------------------------------
TypeOK ==
  /\ pointerClient \in Clients \cup {Nobody} /\ cursorXY \in Nat \X Nat
  /\ clients \in SUBSET Clients /\ cl \in [Clients -> ClientState]

\* Whose buttons the application takes to be pressed.
Down == {c \in clients : cl[c].given # 0}

\* However messages, deferred events, departures and used-again records interleave, the
\* application never sees two viewers with a button pressed at once
\* (rfbserver.c 2211-2219, 437).
OneDown == \A c, d \in Down : c = d

\* A viewer that takes cursor positions and has not been notified since somebody
\* else moved the cursor is going to be (main.c 453-461, rfbserver.c 1950, 2882).
NoMoveMissed ==
  \A c \in clients :
    cl[c].enableCursorPosUpdates /\ cl[c].at # cursorXY => cl[c].cursorWasMoved

\* A deferred motion reaches the application, even if the viewer keeps moving the
\* pointer: later motions replace it but do not restart the timer (main.c 1035-1055).
DeferredArrives ==
  \A c \in Clients :
    c \in clients /\ ~cl[c].viewOnly /\ cl[c].lastPtr # None
      ~> c \notin clients \/ cl[c].lastPtr = None
=============================================================================
