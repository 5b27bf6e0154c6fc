------------------------- MODULE PointerInputProofs -------------------------
(* Theorems about PointerInput, for every set of clients, buttons and      *)
(* positions, with and without deferral.                                   *)
EXTENDS PointerInput, TLAPS

\* A pressed button the application knows of, or will be told of when the deferred
\* event arrives, belongs to the client that holds the pointer.
Held ==
  \A c \in clients :
    /\ cl[c].given # 0 => cl[c].given = cl[c].lastPtrButtons
    /\ cl[c].viewOnly => cl[c].given = 0 /\ cl[c].lastPtr = None
    /\ (cl[c].given # 0 \/ cl[c].lastPtr # None) /\ cl[c].lastPtrButtons # 0
         => pointerClient = c

-----------------------------------------------------------------------------
(* What the operations on a client record return.                          *)

LEMMA EventType ==
  ASSUME NEW buttons \in Buttons, NEW p \in Points
  PROVE  p \in Nat \X Nat /\ p # None
BY PointerAssumption

LEMMA NewClientType ==
  ASSUME NEW k \in ClientState, NEW view \in BOOLEAN, cursorXY \in Nat \X Nat
  PROVE  /\ NewClient(k, view) \in ClientState
         /\ NewClient(k, view).given = 0 /\ NewClient(k, view).lastPtr = None
         /\ NewClient(k, view).enableCursorPosUpdates = FALSE
BY PointerAssumption DEF NewClient, ClientState

LEMMA AcceptedType ==
  ASSUME NEW k \in ClientState, NEW buttons \in Buttons
  PROVE  /\ Accepted(k, buttons) \in ClientState
         /\ Accepted(k, buttons).lastPtrButtons = buttons
         /\ Accepted(k, buttons).given = k.given
         /\ Accepted(k, buttons).lastPtr = k.lastPtr
         /\ Accepted(k, buttons).viewOnly = k.viewOnly
         /\ Accepted(k, buttons).at = k.at
         /\ Accepted(k, buttons).cursorWasMoved = k.cursorWasMoved
         /\ Accepted(k, buttons).enableCursorPosUpdates = k.enableCursorPosUpdates
BY DEF Accepted, ClientState

LEMMA PassedType ==
  ASSUME NEW k \in ClientState, NEW moved \in BOOLEAN,
         NEW buttons \in Buttons, NEW p \in Points
  PROVE  /\ Passed(k, moved, buttons, p) \in ClientState
         /\ Passed(k, moved, buttons, p).given = buttons
         /\ Passed(k, moved, buttons, p).at = p
         /\ Passed(k, moved, buttons, p).lastPtrButtons = k.lastPtrButtons
         /\ Passed(k, moved, buttons, p).lastPtr = k.lastPtr
         /\ Passed(k, moved, buttons, p).viewOnly = k.viewOnly
BY EventType DEF Passed, ClientState

LEMMA NotifyType ==
  ASSUME NEW k \in ClientState, NEW moved \in BOOLEAN
  PROVE  /\ Notify(k, moved) \in ClientState
         /\ Notify(k, moved).cursorWasMoved = moved
         /\ Notify(k, moved).given = k.given
         /\ Notify(k, moved).at = k.at
         /\ Notify(k, moved).lastPtrButtons = k.lastPtrButtons
         /\ Notify(k, moved).lastPtr = k.lastPtr
         /\ Notify(k, moved).viewOnly = k.viewOnly
         /\ Notify(k, moved).enableCursorPosUpdates = k.enableCursorPosUpdates
BY DEF Notify, ClientState

LEMMA WaitingType ==
  ASSUME NEW k \in ClientState, NEW p \in Points \cup {None}
  PROVE  /\ Waiting(k, p) \in ClientState
         /\ Waiting(k, p).lastPtr = p
         /\ Waiting(k, p).given = k.given
         /\ Waiting(k, p).at = k.at
         /\ Waiting(k, p).lastPtrButtons = k.lastPtrButtons
         /\ Waiting(k, p).viewOnly = k.viewOnly
         /\ Waiting(k, p).cursorWasMoved = k.cursorWasMoved
         /\ Waiting(k, p).enableCursorPosUpdates = k.enableCursorPosUpdates
BY DEF Waiting, ClientState

LEMMA TimedType ==
  ASSUME NEW k \in ClientState, NEW running \in BOOLEAN
  PROVE  /\ Timed(k, running) \in ClientState
         /\ Timed(k, running).lastPtr = k.lastPtr
         /\ Timed(k, running).given = k.given
         /\ Timed(k, running).at = k.at
         /\ Timed(k, running).lastPtrButtons = k.lastPtrButtons
         /\ Timed(k, running).viewOnly = k.viewOnly
         /\ Timed(k, running).cursorWasMoved = k.cursorWasMoved
         /\ Timed(k, running).enableCursorPosUpdates = k.enableCursorPosUpdates
BY DEF Timed, ClientState

LEMMA EncodedType ==
  ASSUME NEW k \in ClientState, NEW shape \in BOOLEAN, NEW pos \in BOOLEAN
  PROVE  /\ Encoded(k, shape, pos) \in ClientState
         /\ Encoded(k, shape, pos).lastPtr = k.lastPtr
         /\ Encoded(k, shape, pos).given = k.given
         /\ Encoded(k, shape, pos).lastPtrButtons = k.lastPtrButtons
         /\ Encoded(k, shape, pos).viewOnly = k.viewOnly
         /\ Encoded(k, shape, pos).enableCursorPosUpdates
              => Encoded(k, shape, pos).cursorWasMoved
<1> DEFINE k1 == [k EXCEPT !.enableCursorShapeUpdates = shape]
           k2 == [k1 EXCEPT !.enableCursorPosUpdates = pos /\ shape]
           k3 == [k2 EXCEPT !.cursorWasMoved = pos \/ k.cursorWasMoved]
<1>1. /\ k1 \in ClientState /\ k1.lastPtr = k.lastPtr /\ k1.given = k.given
      /\ k1.lastPtrButtons = k.lastPtrButtons /\ k1.viewOnly = k.viewOnly
  BY DEF ClientState
<1> HIDE DEF k1
<1>2. /\ k2 \in ClientState /\ k2.lastPtr = k.lastPtr /\ k2.given = k.given
      /\ k2.lastPtrButtons = k.lastPtrButtons /\ k2.viewOnly = k.viewOnly
      /\ k2.enableCursorPosUpdates = (pos /\ shape)
  BY <1>1 DEF ClientState
<1> HIDE DEF k2
<1>3. /\ k3 \in ClientState /\ k3.lastPtr = k.lastPtr /\ k3.given = k.given
      /\ k3.lastPtrButtons = k.lastPtrButtons /\ k3.viewOnly = k.viewOnly
      /\ k3.enableCursorPosUpdates = (pos /\ shape)
      /\ k3.cursorWasMoved = (pos \/ k.cursorWasMoved)
  BY <1>2 DEF ClientState
<1>4. k3.enableCursorPosUpdates => k3.cursorWasMoved
  BY <1>3
<1>5. Encoded(k, shape, pos) = k3
  BY Zenon DEF Encoded, k3, k2, k1
<1> HIDE DEF k3
<1> QED
  BY <1>3, <1>4, <1>5

LEMMA ForgottenType ==
  ASSUME NEW k \in ClientState
  PROVE  Forgotten(k) \in ClientState
<1>1. <<0, 0>> \in Nat \X Nat
  OBVIOUS
<1> QED
  BY <1>1, PointerAssumption DEF Forgotten, ClientState

LEMMA ToldType ==
  ASSUME NEW k \in ClientState, cursorXY \in Nat \X Nat
  PROVE  /\ Told(k) \in ClientState /\ Redrawn(k) \in ClientState
         /\ Told(k).at = cursorXY
         /\ Told(k).lastPtr = k.lastPtr /\ Redrawn(k).lastPtr = k.lastPtr
         /\ Told(k).given = k.given /\ Redrawn(k).given = k.given
         /\ Told(k).lastPtrButtons = k.lastPtrButtons
         /\ Redrawn(k).lastPtrButtons = k.lastPtrButtons
         /\ Told(k).viewOnly = k.viewOnly /\ Redrawn(k).viewOnly = k.viewOnly
         /\ Redrawn(k).at = k.at /\ Redrawn(k).cursorWasMoved = k.cursorWasMoved
         /\ Redrawn(k).enableCursorPosUpdates = k.enableCursorPosUpdates
BY DEF Told, Redrawn, ClientState

LEMMA ClampType ==
  ASSUME NEW size \in Sizes, NEW p \in Nat \X Nat
  PROVE  Clamp(p, size) \in Nat \X Nat
BY PointerAssumption DEF Clamp

LEMMA ResizedType ==
  ASSUME NEW k \in ClientState, NEW size \in Sizes
  PROVE  /\ Resized(k, size) \in ClientState
         /\ Resized(k, size).at = Clamp(k.at, size)
         /\ Resized(k, size).lastPtr = k.lastPtr
         /\ Resized(k, size).given = k.given
         /\ Resized(k, size).lastPtrButtons = k.lastPtrButtons
         /\ Resized(k, size).viewOnly = k.viewOnly
         /\ Resized(k, size).cursorWasMoved = k.cursorWasMoved
         /\ Resized(k, size).enableCursorPosUpdates = k.enableCursorPosUpdates
<1>1. k.at \in Nat \X Nat
  BY DEF ClientState
<1>2. Clamp(k.at, size) \in Nat \X Nat
  BY <1>1, ClampType
<1> QED
  BY <1>2 DEF Resized, ClientState

LEMMA WasMovedType ==
  ASSUME TypeOK, NEW c, NEW d \in Clients, NEW p
  PROVE  WasMoved(c, d, p) \in BOOLEAN
<1>1. cl[d].cursorWasMoved \in BOOLEAN
  BY DEF TypeOK, ClientState
<1> QED
  BY <1>1 DEF WasMoved

(* What a call of ptrAddEvent does to the records.                         *)
LEMMA PtrAddEventType ==
  ASSUME TypeOK, NEW c \in clients, NEW buttons \in Buttons, NEW p \in Points,
         NEW k \in ClientState, PtrAddEvent(c, buttons, p, k)
  PROVE  /\ cl' \in [Clients -> ClientState]
         /\ cursorXY' = p /\ cursorXY' \in Nat \X Nat
         /\ cl'[c] = Passed(k, WasMoved(c, c, p), buttons, p)
         /\ \A d \in clients \ {c} : cl'[d] = Notify(cl[d], WasMoved(c, d, p))
<1>1. clients \subseteq Clients /\ c \in Clients
  BY DEF TypeOK
<1>2. cursorXY' = p /\ cursorXY' \in Nat \X Nat
  BY EventType DEF PtrAddEvent
<1>3. ASSUME NEW d \in Clients
      PROVE  /\ cl[d] \in ClientState /\ WasMoved(c, d, p) \in BOOLEAN
             /\ Notify(cl[d], WasMoved(c, d, p)) \in ClientState
             /\ Passed(k, WasMoved(c, d, p), buttons, p) \in ClientState
  <2>1. cl[d] \in ClientState
    BY DEF TypeOK
  <2>2. WasMoved(c, d, p) \in BOOLEAN
    BY WasMovedType
  <2> QED
    BY <2>1, <2>2, NotifyType, PassedType
<1>4. cl' = [d \in Clients |->
               IF d = c THEN Passed(k, WasMoved(c, d, p), buttons, p)
               ELSE IF d \in clients THEN Notify(cl[d], WasMoved(c, d, p)) ELSE cl[d]]
  BY DEF PtrAddEvent
<1>5. cl' \in [Clients -> ClientState]
  BY <1>3, <1>4
<1>6. cl'[c] = Passed(k, WasMoved(c, c, p), buttons, p)
  BY <1>1, <1>4
<1>7. \A d \in clients \ {c} : cl'[d] = Notify(cl[d], WasMoved(c, d, p))
  BY <1>1, <1>4
<1> QED
  BY <1>2, <1>5, <1>6, <1>7

LEMMA Typing ==
  ASSUME TypeOK
  PROVE  /\ clients \subseteq Clients /\ cursorXY \in Nat \X Nat
         /\ \A c \in Clients :
              /\ cl[c] \in ClientState
              /\ cl[c].lastPtrButtons \in Buttons
              /\ cl[c].lastPtr # None => cl[c].lastPtr \in Points
BY DEF TypeOK, ClientState

(* The record a delivered deferred event leaves.                           *)
LEMMA DeferredType ==
  ASSUME NEW k \in ClientState
  PROVE  /\ Timed(Waiting(k, None), FALSE) \in ClientState
         /\ Timed(Waiting(k, None), FALSE).lastPtr = None
         /\ Timed(Waiting(k, None), FALSE).lastPtrButtons = k.lastPtrButtons
         /\ Timed(Waiting(k, None), FALSE).viewOnly = k.viewOnly
         /\ Timed(Waiting(k, None), FALSE).given = k.given
<1>1. None \in Points \cup {None}
  OBVIOUS
<1>2. Waiting(k, None) \in ClientState
  BY <1>1, WaitingType
<1>3. /\ Timed(Waiting(k, None), FALSE) \in ClientState
      /\ Timed(Waiting(k, None), FALSE).lastPtr = Waiting(k, None).lastPtr
      /\ Timed(Waiting(k, None), FALSE).lastPtrButtons = Waiting(k, None).lastPtrButtons
      /\ Timed(Waiting(k, None), FALSE).viewOnly = Waiting(k, None).viewOnly
      /\ Timed(Waiting(k, None), FALSE).given = Waiting(k, None).given
  BY <1>2, TimedType
<1> QED
  BY <1>1, <1>3, WaitingType

-----------------------------------------------------------------------------
(* Every reachable state has its type.                                     *)
LEMMA InitType ==
  ASSUME Init
  PROVE  TypeOK
<1>1. <<0, 0>> \in Nat \X Nat /\ None \in Points \cup {None}
  OBVIOUS
<1> QED
  BY <1>1, PointerAssumption DEF Init, TypeOK, ClientState

LEMMA NextType ==
  ASSUME TypeOK, [Next]_vars
  PROVE  TypeOK'
<1> USE Typing
<1>1. ASSUME NEW c \in Clients, NEW view \in BOOLEAN, NewStreamClient(c, view)
      PROVE  TypeOK'
  <2>1. NewClient(cl[c], view) \in ClientState
    BY NewClientType
  <2> QED
    BY <1>1, <2>1 DEF NewStreamClient, TypeOK
<1>2. ASSUME NEW c \in Clients, ClientConnectionGone(c)
      PROVE  TypeOK'
  <2>1. Forgotten(cl[c]) \in ClientState
    BY ForgottenType
  <2> QED
    BY <1>2, <2>1 DEF ClientConnectionGone, TypeOK
<1>3. ASSUME NEW c \in Clients, NEW shape \in BOOLEAN, NEW pos \in BOOLEAN,
             SetEncodings(c, shape, pos)
      PROVE  TypeOK'
  <2>1. Encoded(cl[c], shape, pos) \in ClientState
    BY EncodedType
  <2> QED
    BY <1>3, <2>1 DEF SetEncodings, TypeOK
<1>4. ASSUME NEW c \in Clients, NEW buttons \in Buttons, NEW p \in Points,
             PointerEvent(c, buttons, p)
      PROVE  TypeOK'
  <2>1. /\ c \in clients /\ clients' = clients
        /\ pointerClient' \in Clients \cup {Nobody}
    BY <1>4 DEF PointerEvent
  <2>2. Accepted(cl[c], buttons) \in ClientState
    BY AcceptedType
  <2>3. Waiting(Accepted(cl[c], buttons), p) \in ClientState
    BY <2>2, WaitingType
  <2>4. CASE cl' = cl /\ cursorXY' = cursorXY
    BY <2>1, <2>4 DEF TypeOK
  <2>5. CASE PtrAddEvent(c, buttons, p, Accepted(cl[c], buttons))
    BY <2>1, <2>2, <2>5, PtrAddEventType DEF TypeOK
  <2>6. CASE /\ cl' = [cl EXCEPT ![c] = Waiting(Accepted(cl[c], buttons), p)]
             /\ cursorXY' = cursorXY
    BY <2>1, <2>3, <2>6 DEF TypeOK
  <2> QED
    BY <1>4, <2>4, <2>5, <2>6 DEF PointerEvent
<1>5. ASSUME NEW c \in Clients, StartPtrDeferring(c)
      PROVE  TypeOK'
  <2>1. Timed(cl[c], TRUE) \in ClientState
    BY TimedType
  <2> QED
    BY <1>5, <2>1 DEF StartPtrDeferring, TypeOK
<1>6. ASSUME NEW c \in Clients, DeliverDeferred(c)
      PROVE  TypeOK'
  <2>1. /\ c \in clients /\ cl[c].lastPtr \in Points
        /\ clients' = clients /\ pointerClient' = pointerClient
        /\ PtrAddEvent(c, cl[c].lastPtrButtons, cl[c].lastPtr,
                       Timed(Waiting(cl[c], None), FALSE))
    BY <1>6 DEF DeliverDeferred
  <2>2. Timed(Waiting(cl[c], None), FALSE) \in ClientState
    BY DeferredType
  <2>3. cl' \in [Clients -> ClientState] /\ cursorXY' \in Nat \X Nat
    BY <2>1, <2>2, PtrAddEventType
  <2> QED
    BY <2>1, <2>3 DEF TypeOK
<1>7. ASSUME NEW c \in Clients, SendFramebufferUpdate(c)
      PROVE  TypeOK'
  <2>1. Told(cl[c]) \in ClientState /\ Redrawn(cl[c]) \in ClientState
    BY ToldType
  <2> QED
    BY <1>7, <2>1 DEF SendFramebufferUpdate, TypeOK
<1>8. ASSUME NEW size \in Sizes, NewFramebuffer(size)
      PROVE  TypeOK'
  <2>1. \A c \in Clients : Resized(cl[c], size) \in ClientState
    BY ResizedType
  <2>2. Clamp(cursorXY, size) \in Nat \X Nat
    BY ClampType
  <2> QED
    BY <1>8, <2>1, <2>2 DEF NewFramebuffer, TypeOK
<1>9. CASE UNCHANGED vars
  BY <1>9 DEF vars, TypeOK
<1> QED
  BY <1>1, <1>2, <1>3, <1>4, <1>5, <1>6, <1>7, <1>8, <1>9 DEF Next

(* However the viewers' messages, deferred events, departures and resizes interleave,  *)
(* the records the server keeps of the viewers' pointers stay of their types.          *)
THEOREM PointerTypeCorrect == Spec => []TypeOK
<1>1. Init => TypeOK
  BY InitType
<1>2. TypeOK /\ [Next]_vars => TypeOK'
  BY NextType
<1> QED
  BY <1>1, <1>2, PTL DEF Spec

-----------------------------------------------------------------------------
(* Only the client that holds the pointer has a button pressed.            *)

(* Held survives a step that leaves the pointer's holder and the fields it *)
(* reads alone.                                                            *)
LEMMA HeldSame ==
  ASSUME Held, pointerClient' = pointerClient, clients' \subseteq clients,
         \A c \in clients' : /\ cl'[c].given = cl[c].given
                             /\ cl'[c].lastPtr = cl[c].lastPtr
                             /\ cl'[c].lastPtrButtons = cl[c].lastPtrButtons
                             /\ cl'[c].viewOnly = cl[c].viewOnly
  PROVE  Held'
BY DEF Held

(* Held survives a call of ptrAddEvent by the holder of the pointer, or of *)
(* one that releases it.                                                   *)
LEMMA HeldPassed ==
  ASSUME TypeOK, Held, NEW c \in clients, NEW buttons \in Buttons, NEW p \in Points,
         NEW k \in ClientState, PtrAddEvent(c, buttons, p, k),
         k.lastPtrButtons = buttons, ~k.viewOnly,
         buttons # 0 => pointerClient' = c,
         clients' = clients,
         \A d \in clients \ {c} : pointerClient = d => pointerClient' = d
  PROVE  Held'
<1>1. WasMoved(c, c, p) \in BOOLEAN /\ clients \subseteq Clients
  BY Typing, WasMovedType
<1>2. /\ cl'[c].given = buttons /\ cl'[c].lastPtrButtons = buttons
      /\ ~cl'[c].viewOnly
  BY <1>1, PtrAddEventType, PassedType
<1>3. ASSUME NEW d \in clients \ {c}
      PROVE  /\ cl'[d].given = cl[d].given
             /\ cl'[d].lastPtr = cl[d].lastPtr
             /\ cl'[d].lastPtrButtons = cl[d].lastPtrButtons
             /\ cl'[d].viewOnly = cl[d].viewOnly
  <2>1. WasMoved(c, d, p) \in BOOLEAN /\ cl[d] \in ClientState
    BY <1>1, Typing, WasMovedType
  <2>2. cl'[d] = Notify(cl[d], WasMoved(c, d, p))
    BY PtrAddEventType
  <2> QED
    BY <2>1, <2>2, NotifyType
<1>4. ASSUME NEW d \in clients
      PROVE  /\ cl'[d].given # 0 => cl'[d].given = cl'[d].lastPtrButtons
             /\ cl'[d].viewOnly => cl'[d].given = 0 /\ cl'[d].lastPtr = None
             /\ (cl'[d].given # 0 \/ cl'[d].lastPtr # None) /\ cl'[d].lastPtrButtons # 0
                  => pointerClient' = d
  <2>1. CASE d = c
    BY <1>2, <2>1
  <2>2. CASE d # c
    BY <1>3, <2>2 DEF Held
  <2> QED
    BY <2>1, <2>2
<1> QED
  BY <1>4 DEF Held

LEMMA HeldStep ==
  ASSUME TypeOK, Held, [Next]_vars
  PROVE  Held'
<1> USE Typing
<1>1. ASSUME NEW c \in Clients, NEW view \in BOOLEAN, NewStreamClient(c, view)
      PROVE  Held'
  <2>1. cl'[c].given = 0 /\ cl'[c].lastPtr = None
    <3>1. NewClient(cl[c], view).given = 0 /\ NewClient(cl[c], view).lastPtr = None
      BY NewClientType
    <3>2. cl'[c] = NewClient(cl[c], view)
      BY <1>1 DEF NewStreamClient, TypeOK
    <3> QED
      BY <3>1, <3>2
  <2>2. ASSUME NEW d \in clients
        PROVE  cl'[d] = cl[d] /\ pointerClient' = pointerClient
    BY <1>1 DEF NewStreamClient, TypeOK
  <2>3. clients' = clients \cup {c}
    BY <1>1 DEF NewStreamClient
  <2> QED
    BY <2>1, <2>2, <2>3 DEF Held
<1>2. ASSUME NEW c \in Clients, ClientConnectionGone(c)
      PROVE  Held'
  <2>1. /\ clients' = clients \ {c}
        /\ pointerClient' = IF pointerClient = c THEN Nobody ELSE pointerClient
    BY <1>2 DEF ClientConnectionGone
  <2>2. \A d \in clients' : cl'[d] = cl[d]
    BY <1>2, <2>1 DEF ClientConnectionGone, TypeOK
  <2> QED
    BY <2>1, <2>2 DEF Held
<1>3. ASSUME NEW c \in Clients, NEW shape \in BOOLEAN, NEW pos \in BOOLEAN,
             SetEncodings(c, shape, pos)
      PROVE  Held'
  <2>1. \A d \in clients : cl'[d] = IF d = c THEN Encoded(cl[c], shape, pos) ELSE cl[d]
    BY <1>3 DEF SetEncodings, TypeOK
  <2>2. pointerClient' = pointerClient /\ clients' = clients
    BY <1>3 DEF SetEncodings
  <2>3. /\ Encoded(cl[c], shape, pos).given = cl[c].given
        /\ Encoded(cl[c], shape, pos).lastPtr = cl[c].lastPtr
        /\ Encoded(cl[c], shape, pos).lastPtrButtons = cl[c].lastPtrButtons
        /\ Encoded(cl[c], shape, pos).viewOnly = cl[c].viewOnly
    BY EncodedType
  <2> QED
    BY <2>1, <2>2, <2>3, HeldSame
<1>4. ASSUME NEW c \in Clients, NEW buttons \in Buttons, NEW p \in Points,
             PointerEvent(c, buttons, p)
      PROVE  Held'
  <2> DEFINE k == Accepted(cl[c], buttons)
             w == Waiting(k, p)
  <2>1. /\ c \in clients /\ clients' = clients
        /\ pointerClient \in {Nobody, c}
        /\ pointerClient' = IF buttons = 0 THEN Nobody ELSE c
    BY <1>4 DEF PointerEvent
  <2>2. k \in ClientState /\ k.lastPtrButtons = buttons /\ k.given = cl[c].given
        /\ k.viewOnly = cl[c].viewOnly
    BY AcceptedType
  <2>3. w \in ClientState /\ w.lastPtrButtons = buttons /\ w.given = cl[c].given
        /\ w.viewOnly = cl[c].viewOnly
    BY <2>2, WaitingType
  <2>4. \A d \in clients \ {c} : pointerClient # d
    BY <2>1, PointerAssumption
  <2>5. CASE cl[c].viewOnly /\ cl' = cl
    BY <2>1, <2>4, <2>5 DEF Held
  <2>6. CASE ~cl[c].viewOnly /\ PtrAddEvent(c, buttons, p, k)
    <3> HIDE DEF k
    <3> QED
      BY <2>1, <2>2, <2>4, <2>6, HeldPassed
  <2>7. CASE /\ ~cl[c].viewOnly /\ buttons = cl[c].lastPtrButtons
             /\ cl' = [cl EXCEPT ![c] = w]
    <3> HIDE DEF k, w
    <3>1. \A d \in clients : cl'[d] = IF d = c THEN w ELSE cl[d]
      BY <2>7 DEF TypeOK
    <3> QED
      BY <2>1, <2>3, <2>4, <2>7, <3>1 DEF Held
  <2> QED
    BY <1>4, <2>5, <2>6, <2>7 DEF PointerEvent
<1>5. ASSUME NEW c \in Clients, StartPtrDeferring(c)
      PROVE  Held'
  <2>1. \A d \in clients : cl'[d] = IF d = c THEN Timed(cl[c], TRUE) ELSE cl[d]
    BY <1>5 DEF StartPtrDeferring, TypeOK
  <2>2. pointerClient' = pointerClient /\ clients' = clients
    BY <1>5 DEF StartPtrDeferring
  <2>3. /\ Timed(cl[c], TRUE).given = cl[c].given
        /\ Timed(cl[c], TRUE).lastPtr = cl[c].lastPtr
        /\ Timed(cl[c], TRUE).lastPtrButtons = cl[c].lastPtrButtons
        /\ Timed(cl[c], TRUE).viewOnly = cl[c].viewOnly
    BY TimedType
  <2> QED
    BY <2>1, <2>2, <2>3, HeldSame
<1>6. ASSUME NEW c \in Clients, DeliverDeferred(c)
      PROVE  Held'
  <2> DEFINE k == Timed(Waiting(cl[c], None), FALSE)
  <2>1. /\ c \in clients /\ cl[c].lastPtr # None /\ ~cl[c].viewOnly
        /\ clients' = clients /\ pointerClient' = pointerClient
        /\ PtrAddEvent(c, cl[c].lastPtrButtons, cl[c].lastPtr, k)
    BY <1>6 DEF DeliverDeferred
  <2>2. /\ k \in ClientState /\ k.lastPtrButtons = cl[c].lastPtrButtons
        /\ k.viewOnly = cl[c].viewOnly
    BY DeferredType
  <2>3. cl[c].lastPtrButtons # 0 => pointerClient' = c
    BY <2>1 DEF Held
  <2> HIDE DEF k
  <2> QED
    BY <2>1, <2>2, <2>3, HeldPassed
<1>7. ASSUME NEW c \in Clients, SendFramebufferUpdate(c)
      PROVE  Held'
  <2>1. \/ \A d \in clients : cl'[d] = IF d = c THEN Told(cl[c]) ELSE cl[d]
        \/ \A d \in clients : cl'[d] = IF d = c THEN Redrawn(cl[c]) ELSE cl[d]
    BY <1>7 DEF SendFramebufferUpdate, TypeOK
  <2>2. pointerClient' = pointerClient /\ clients' = clients
    BY <1>7 DEF SendFramebufferUpdate
  <2> QED
    BY <2>1, <2>2, ToldType, HeldSame
<1>8. ASSUME NEW size \in Sizes, NewFramebuffer(size)
      PROVE  Held'
  <2>1. \A d \in clients : cl'[d] = Resized(cl[d], size)
    BY <1>8 DEF NewFramebuffer
  <2>2. pointerClient' = pointerClient /\ clients' = clients
    BY <1>8 DEF NewFramebuffer
  <2> QED
    BY <2>1, <2>2, ResizedType, HeldSame
<1>9. CASE UNCHANGED vars
  BY <1>9 DEF vars, Held
<1> QED
  BY <1>1, <1>2, <1>3, <1>4, <1>5, <1>6, <1>7, <1>8, <1>9 DEF Next

(* However messages, deferred events, departures and used-again records interleave, the *)
(* application never sees two viewers with a button pressed at once.                    *)
THEOREM OneDownSafe == Spec => []OneDown
<1>1. Init => TypeOK /\ Held
  BY InitType DEF Init, Held
<1>2. TypeOK /\ Held /\ [Next]_vars => TypeOK' /\ Held'
  BY NextType, HeldStep
<1>3. TypeOK /\ Held => OneDown
  BY DEF Held, OneDown, Down
<1> QED
  BY <1>1, <1>2, <1>3, PTL DEF Spec

-----------------------------------------------------------------------------
(* No viewer that takes positions is forgotten when the cursor moves.      *)

LEMMA MissedSame ==
  ASSUME NoMoveMissed, cursorXY' = cursorXY, clients' \subseteq clients,
         \A c \in clients' :
           /\ cl'[c].at = cl[c].at
           /\ cl'[c].cursorWasMoved = cl[c].cursorWasMoved
           /\ cl'[c].enableCursorPosUpdates = cl[c].enableCursorPosUpdates
  PROVE  NoMoveMissed'
BY DEF NoMoveMissed

LEMMA MissedPassed ==
  ASSUME TypeOK, NoMoveMissed, NEW c \in clients, NEW buttons \in Buttons, NEW p \in Points,
         NEW k \in ClientState, PtrAddEvent(c, buttons, p, k), clients' = clients
  PROVE  NoMoveMissed'
<1>1. cursorXY' = p /\ clients \subseteq Clients /\ WasMoved(c, c, p) \in BOOLEAN
  BY Typing, WasMovedType, PtrAddEventType
<1>2. cl'[c].at = p
  <2>1. cl'[c] = Passed(k, WasMoved(c, c, p), buttons, p)
    BY PtrAddEventType
  <2> QED
    BY <1>1, <2>1, PassedType
<1>3. ASSUME NEW d \in clients \ {c}
      PROVE  /\ cl'[d].at = cl[d].at
             /\ cl'[d].enableCursorPosUpdates = cl[d].enableCursorPosUpdates
             /\ cl'[d].cursorWasMoved = WasMoved(c, d, p)
  <2>1. cl[d] \in ClientState /\ WasMoved(c, d, p) \in BOOLEAN
    BY <1>1, Typing, WasMovedType
  <2>2. cl'[d] = Notify(cl[d], WasMoved(c, d, p))
    BY PtrAddEventType
  <2> QED
    BY <2>1, <2>2, NotifyType
<1>4. ASSUME NEW d \in clients, cl'[d].enableCursorPosUpdates, cl'[d].at # cursorXY'
      PROVE  cl'[d].cursorWasMoved
  <2>1. d # c
    BY <1>1, <1>2, <1>4
  <2>2. /\ cl[d].enableCursorPosUpdates /\ cl[d].at # p
        /\ cl'[d].cursorWasMoved = WasMoved(c, d, p)
    BY <1>1, <1>3, <1>4, <2>1
  <2>3. CASE p = cursorXY
    <3>1. cl[d].cursorWasMoved
      BY <2>2, <2>3 DEF NoMoveMissed
    <3>2. WasMoved(c, d, p) = cl[d].cursorWasMoved
      BY <2>3 DEF WasMoved
    <3> QED
      BY <2>2, <3>1, <3>2
  <2>4. CASE p # cursorXY
    <3>1. WasMoved(c, d, p) = (d # c)
      BY <2>2, <2>4 DEF WasMoved
    <3> QED
      BY <2>1, <2>2, <3>1
  <2> QED
    BY <2>3, <2>4
<1> QED
  BY <1>4 DEF NoMoveMissed

LEMMA MissedStep ==
  ASSUME TypeOK, NoMoveMissed, [Next]_vars
  PROVE  NoMoveMissed'
<1> USE Typing
<1>1. ASSUME NEW c \in Clients, NEW view \in BOOLEAN, NewStreamClient(c, view)
      PROVE  NoMoveMissed'
  <2>1. NewClient(cl[c], view).enableCursorPosUpdates = FALSE
    BY NewClientType
  <2>2. /\ cl'[c] = NewClient(cl[c], view)
        /\ \A d \in clients : cl'[d] = cl[d]
        /\ cursorXY' = cursorXY /\ clients' = clients \cup {c}
    BY <1>1 DEF NewStreamClient, TypeOK
  <2> QED
    BY <2>1, <2>2 DEF NoMoveMissed
<1>2. ASSUME NEW c \in Clients, ClientConnectionGone(c)
      PROVE  NoMoveMissed'
  <2>1. clients' = clients \ {c} /\ cursorXY' = cursorXY
    BY <1>2 DEF ClientConnectionGone
  <2>2. \A d \in clients' : cl'[d] = cl[d]
    BY <1>2, <2>1 DEF ClientConnectionGone, TypeOK
  <2> QED
    BY <2>1, <2>2, MissedSame
<1>3. ASSUME NEW c \in Clients, NEW shape \in BOOLEAN, NEW pos \in BOOLEAN,
             SetEncodings(c, shape, pos)
      PROVE  NoMoveMissed'
  <2>1. \A d \in clients : cl'[d] = IF d = c THEN Encoded(cl[c], shape, pos) ELSE cl[d]
    BY <1>3 DEF SetEncodings, TypeOK
  <2>2. cursorXY' = cursorXY /\ clients' = clients
    BY <1>3 DEF SetEncodings
  <2>3. Encoded(cl[c], shape, pos).enableCursorPosUpdates
          => Encoded(cl[c], shape, pos).cursorWasMoved
    BY EncodedType
  <2> QED
    BY <2>1, <2>2, <2>3 DEF NoMoveMissed
<1>4. ASSUME NEW c \in Clients, NEW buttons \in Buttons, NEW p \in Points,
             PointerEvent(c, buttons, p)
      PROVE  NoMoveMissed'
  <2> DEFINE k == Accepted(cl[c], buttons)
             w == Waiting(k, p)
  <2>1. c \in clients /\ clients' = clients
    BY <1>4 DEF PointerEvent
  <2>2. /\ k \in ClientState /\ k.at = cl[c].at
        /\ k.cursorWasMoved = cl[c].cursorWasMoved
        /\ k.enableCursorPosUpdates = cl[c].enableCursorPosUpdates
    BY AcceptedType
  <2>3. /\ w.at = cl[c].at
        /\ w.cursorWasMoved = cl[c].cursorWasMoved
        /\ w.enableCursorPosUpdates = cl[c].enableCursorPosUpdates
    <3> HIDE DEF k
    <3> QED
      BY <2>2, WaitingType
  <2>4. CASE cl' = cl /\ cursorXY' = cursorXY
    BY <2>1, <2>4, MissedSame
  <2>5. CASE PtrAddEvent(c, buttons, p, k)
    <3> HIDE DEF k
    <3> QED
      BY <2>1, <2>2, <2>5, MissedPassed
  <2>6. CASE cl' = [cl EXCEPT ![c] = w] /\ cursorXY' = cursorXY
    <3> HIDE DEF k, w
    <3>1. \A d \in clients : cl'[d] = IF d = c THEN w ELSE cl[d]
      BY <2>6 DEF TypeOK
    <3> QED
      BY <2>1, <2>3, <2>6, <3>1, MissedSame
  <2> QED
    BY <1>4, <2>4, <2>5, <2>6 DEF PointerEvent
<1>5. ASSUME NEW c \in Clients, StartPtrDeferring(c)
      PROVE  NoMoveMissed'
  <2>1. \A d \in clients : cl'[d] = IF d = c THEN Timed(cl[c], TRUE) ELSE cl[d]
    BY <1>5 DEF StartPtrDeferring, TypeOK
  <2>2. cursorXY' = cursorXY /\ clients' = clients
    BY <1>5 DEF StartPtrDeferring
  <2>3. /\ Timed(cl[c], TRUE).at = cl[c].at
        /\ Timed(cl[c], TRUE).cursorWasMoved = cl[c].cursorWasMoved
        /\ Timed(cl[c], TRUE).enableCursorPosUpdates = cl[c].enableCursorPosUpdates
    BY TimedType
  <2> QED
    BY <2>1, <2>2, <2>3, MissedSame
<1>6. ASSUME NEW c \in Clients, DeliverDeferred(c)
      PROVE  NoMoveMissed'
  <2> DEFINE k == Timed(Waiting(cl[c], None), FALSE)
  <2>1. /\ c \in clients /\ cl[c].lastPtr # None /\ clients' = clients
        /\ PtrAddEvent(c, cl[c].lastPtrButtons, cl[c].lastPtr, k)
    BY <1>6 DEF DeliverDeferred
  <2>2. k \in ClientState
    BY DeferredType
  <2> HIDE DEF k
  <2> QED
    BY <2>1, <2>2, MissedPassed
<1>7. ASSUME NEW c \in Clients, SendFramebufferUpdate(c)
      PROVE  NoMoveMissed'
  <2>1. cursorXY' = cursorXY /\ clients' = clients
    BY <1>7 DEF SendFramebufferUpdate
  <2>2. CASE \A d \in clients : cl'[d] = IF d = c THEN Told(cl[c]) ELSE cl[d]
    BY <2>1, <2>2, ToldType DEF NoMoveMissed
  <2>3. CASE \A d \in clients : cl'[d] = IF d = c THEN Redrawn(cl[c]) ELSE cl[d]
    BY <2>1, <2>3, ToldType, MissedSame
  <2> QED
    BY <1>7, <2>2, <2>3 DEF SendFramebufferUpdate, TypeOK
<1>8. ASSUME NEW size \in Sizes, NewFramebuffer(size)
      PROVE  NoMoveMissed'
  <2>1. /\ cursorXY' = Clamp(cursorXY, size) /\ clients' = clients
        /\ \A c \in clients : cl'[c] = Resized(cl[c], size)
    BY <1>8 DEF NewFramebuffer
  <2>2. ASSUME NEW c \in clients
        PROVE  /\ cl'[c].at = Clamp(cl[c].at, size)
               /\ cl'[c].cursorWasMoved = cl[c].cursorWasMoved
               /\ cl'[c].enableCursorPosUpdates = cl[c].enableCursorPosUpdates
    BY <2>1, ResizedType
  <2>3. ASSUME NEW c \in clients
        PROVE  cl'[c].at # cursorXY' => cl[c].at # cursorXY
    BY <2>1, <2>2
  <2> QED
    BY <2>1, <2>2, <2>3 DEF NoMoveMissed
<1>9. CASE UNCHANGED vars
  BY <1>9 DEF vars, NoMoveMissed
<1> QED
  BY <1>1, <1>2, <1>3, <1>4, <1>5, <1>6, <1>7, <1>8, <1>9 DEF Next

(* A viewer that takes cursor positions and was not notified since somebody else moved *)
(* the cursor is going to be notified, whoever moved it and whatever came in between.  *)
THEOREM MovesReported == Spec => []NoMoveMissed
<1>1. Init => TypeOK /\ NoMoveMissed
  BY InitType DEF Init, NoMoveMissed
<1>2. TypeOK /\ NoMoveMissed /\ [Next]_vars => TypeOK' /\ NoMoveMissed'
  BY NextType, MissedStep
<1> QED
  BY <1>1, <1>2, PTL DEF Spec
=============================================================================
