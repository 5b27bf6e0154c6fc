------------------------ MODULE UpdatePipelineProofs ------------------------
(* Theorems about UpdatePipeline, for every value of its constants.        *)
EXTENDS UpdatePipeline, WellFoundedInduction, TLAPS

-----------------------------------------------------------------------------
(* Copying a region in place.                                              *)

\* rfbSendCopyRegion: with the rectangles taken right to left when dx > 0 and
\* bottom to top when dy > 0, "an earlier CopyRect will not corrupt the
\* source of a later one", for every region and displacement.
THEOREM SendOrderSafe ==
  ASSUME NEW S \in SUBSET Pixels, NEW d \in Int \X Int, NEW p \in S
  PROVE  ~Overwritten(S, d, d[1] > 0, d[2] > 0, p)
<1> DEFINE q == Minus(p, d)
<1>1. /\ p[1] \in Int /\ p[2] \in Int /\ d[1] \in Int /\ d[2] \in Int
      /\ p[1] \in 0 .. Width - 1 /\ p[2] \in 0 .. Height - 1
      /\ q[1] = p[1] - d[1] /\ q[2] = p[2] - d[2]
      /\ p = <<p[1], p[2]>>
  BY ConstantsAssumption DEF Pixels, Minus
<1>2. ASSUME q \in S, ~SameBand(S, q, p) PROVE d[2] # 0
  BY <1>1, <1>2, ConstantsAssumption DEF SameBand
<1>3. ASSUME q \in S, SameBand(S, q, p), ~SameSpan(S, q, p) PROVE d[1] # 0
  <2>1. SUFFICES ASSUME d[1] = 0 PROVE FALSE
    OBVIOUS
  <2>2. PICK x \in 0 .. Width - 1 :
           /\ (q[1] <= x /\ x <= p[1]) \/ (p[1] <= x /\ x <= q[1])
           /\ x \notin Row(S, q[2])
    BY <1>3 DEF SameSpan
  <2>3. x = q[1]
    BY <1>1, <2>1, <2>2, ConstantsAssumption
  <2>4. q = <<q[1], q[2]>>
    BY DEF Minus
  <2> QED
    BY <1>3, <2>2, <2>3, <2>4 DEF Row
<1>4. ASSUME q \in S PROVE ~RectBefore(S, d[1] > 0, d[2] > 0, q, p)
  <2>1. CASE ~SameBand(S, q, p)
    BY <1>1, <1>2, <1>4, <2>1 DEF RectBefore
  <2>2. CASE SameBand(S, q, p)
    BY <1>1, <1>3, <1>4, <2>2 DEF RectBefore
  <2> QED BY <2>1, <2>2
<1> QED
  BY <1>4 DEF Overwritten

\* A region none of whose sources is overwritten too early is copied as meant.
LEMMA SafeOrderMoves ==
  ASSUME NEW S \in SUBSET Pixels, NEW d \in Int \X Int, NEW pic,
         NEW reverseX \in BOOLEAN, NEW reverseY \in BOOLEAN,
         \A p \in S : ~Overwritten(S, d, reverseX, reverseY, p)
  PROVE  CopyInPlace(pic, S, d, reverseX, reverseY) = Moved(pic, S, d)
<1>1. ASSUME NEW p \in S PROVE Origin(S, d, reverseX, reverseY, p) = Minus(p, d)
  <2> DEFINE Hop(n) == /\ ~Overwritten(S, d, reverseX, reverseY, Back(p, d, n - 1))
                       /\ \A m \in 1 .. n - 1 :
                            Overwritten(S, d, reverseX, reverseY, Back(p, d, m - 1))
  <2>0. /\ p[1] \in Int /\ p[2] \in Int /\ d[1] \in Int /\ d[2] \in Int
        /\ p = <<p[1], p[2]>>
    BY <1>1, ConstantsAssumption DEF Pixels
  <2>1. Back(p, d, 0) = p
    BY <2>0 DEF Back
  <2>2. 1 \in 1 .. Width + Height /\ 1 .. (1 - 1) = {} /\ 1 - 1 = 0
    BY ConstantsAssumption
  <2>3. Hop(1)
    BY <1>1, <2>1, <2>2
  <2>4. \A n \in 1 .. Width + Height : Hop(n) => n = 1
    <3>1. SUFFICES ASSUME NEW n \in 1 .. Width + Height, Hop(n), n # 1 PROVE FALSE
      OBVIOUS
    <3>2. 1 \in 1 .. n - 1
      BY <3>1, ConstantsAssumption
    <3> QED
      BY <1>1, <2>1, <2>2, <3>1, <3>2
  <2>5. (CHOOSE n \in 1 .. Width + Height : Hop(n)) = 1
    BY <2>2, <2>3, <2>4
  <2>6. Back(p, d, 1) = Minus(p, d)
    BY <2>0 DEF Back, Minus
  <2> QED
    BY <2>5, <2>6 DEF Origin
<1> QED
  BY <1>1 DEF CopyInPlace, Moved

\* rfbDoCopyRect: within one rectangle the order of rectangles is of no
\* account, whatever the displacement.
LEMMA RectOrderSafe ==
  ASSUME NEW S \in SUBSET Pixels, IsRect(S), NEW d \in Int \X Int, NEW p \in S,
         NEW reverseX \in BOOLEAN, NEW reverseY \in BOOLEAN
  PROVE  ~Overwritten(S, d, reverseX, reverseY, p)
<1>1. PICK x1 \in 0 .. Width, x2 \in 0 .. Width, y1 \in 0 .. Height, y2 \in 0 .. Height :
        S = {r \in Pixels : x1 <= r[1] /\ r[1] < x2 /\ y1 <= r[2] /\ r[2] < y2}
  BY DEF IsRect
<1>2. ASSUME NEW q \in S PROVE SameBand(S, q, p) /\ SameSpan(S, q, p)
  <2>0. /\ p[1] \in 0 .. Width - 1 /\ p[2] \in 0 .. Height - 1
        /\ q[1] \in 0 .. Width - 1 /\ q[2] \in 0 .. Height - 1
    BY <1>2 DEF Pixels
  <2>1. ASSUME NEW y \in 0 .. Height - 1, y1 <= y, y < y2
        PROVE  Row(S, y) = {x \in 0 .. Width - 1 : x1 <= x /\ x < x2}
    <3>1. ASSUME NEW x \in 0 .. Width - 1
          PROVE  <<x, y>> \in S <=> x1 <= x /\ x < x2
      <4>1. <<x, y>> \in Pixels /\ <<x, y>>[1] = x /\ <<x, y>>[2] = y
        BY <3>1, <2>1 DEF Pixels
      <4> QED BY <1>1, <4>1, <2>1
    <3> QED BY <3>1 DEF Row
  <2>2. /\ x1 <= p[1] /\ p[1] < x2 /\ y1 <= p[2] /\ p[2] < y2
        /\ x1 <= q[1] /\ q[1] < x2 /\ y1 <= q[2] /\ q[2] < y2
    BY <1>1, <1>2
  <2>3. SameBand(S, q, p)
    <3>1. ASSUME NEW y \in 0 .. Height - 1,
                 (q[2] <= y /\ y <= p[2]) \/ (p[2] <= y /\ y <= q[2])
          PROVE  Row(S, y) = Row(S, q[2])
      <4>1. y1 <= y /\ y < y2
        BY <2>0, <2>2, <3>1, ConstantsAssumption
      <4> QED BY <2>0, <2>1, <2>2, <4>1
    <3> QED BY <3>1 DEF SameBand
  <2>4. SameSpan(S, q, p)
    <3>1. ASSUME NEW x \in 0 .. Width - 1,
                 (q[1] <= x /\ x <= p[1]) \/ (p[1] <= x /\ x <= q[1])
          PROVE  x \in Row(S, q[2])
      <4>1. x1 <= x /\ x < x2
        BY <2>0, <2>2, <3>1, ConstantsAssumption
      <4> QED BY <2>0, <2>1, <2>2, <4>1
    <3> QED BY <3>1 DEF SameSpan
  <2> QED BY <2>3, <2>4
<1> QED
  BY <1>2 DEF Overwritten, RectBefore

LEMMA LeastNat ==
  ASSUME NEW T \in SUBSET Nat, T # {}
  PROVE  \E n \in T : \A m \in T : n <= m
<1> DEFINE Less == {r \in Nat \X Nat : r[1] < r[2]}
<1>1. IsWellFoundedOn(Less, Nat)
  BY NatLessThanWellFounded, Zenon DEF OpToRel
<1>2. ASSUME NEW m \in T, NEW n \in T, m < n PROVE <<m, n>> \in Less
  BY <1>2
<1> HIDE DEF Less
<1>3. PICK n \in T : \A m \in T : <<m, n>> \notin Less
  BY <1>1, WFMin
<1>4. ASSUME NEW m \in T PROVE n <= m
  <2>1. n \in Nat /\ m \in Nat /\ ~(m < n)
    BY <1>2, <1>3
  <2> QED
    BY <2>1
<1> QED
  BY <1>4

LEMMA BackStep ==
  ASSUME NEW p \in Int \X Int, NEW d \in Int \X Int, NEW n \in Nat
  PROVE  Minus(Back(p, d, n), d) = Back(p, d, n + 1)
<1>1. \A i, j \in Int : i - n * j - j = i - (n + 1) * j
  OBVIOUS
<1> QED
  BY <1>1 DEF Back, Minus

\* A copy whose sources are on the screen reads the screen only, even where
\* its rectangles spoil one another.
LEMMA OriginOnScreen ==
  ASSUME NEW S \in SUBSET Pixels, NEW d \in Int \X Int, Copyable(S, d),
         NEW reverseX \in BOOLEAN, NEW reverseY \in BOOLEAN, NEW p \in S
  PROVE  Origin(S, d, reverseX, reverseY, p) \in Pixels
<1> DEFINE Spoilt(n) == Overwritten(S, d, reverseX, reverseY, Back(p, d, n - 1))
           Hop(n) == ~Spoilt(n) /\ \A m \in 1 .. n - 1 : Spoilt(m)
           T == {n \in 1 .. Width + Height : ~Spoilt(n)}
<1>0. /\ Width \in Nat \ {0} /\ Height \in Nat \ {0}
      /\ p \in Int \X Int /\ p[1] \in 0 .. Width - 1 /\ p[2] \in 0 .. Height - 1
      /\ d[1] \in Int /\ d[2] \in Int /\ d = <<d[1], d[2]>> /\ p = <<p[1], p[2]>>
  BY ConstantsAssumption DEF Pixels
<1>1. T # {}
  <2>1. CASE d[1] = 0 /\ d[2] = 0
    <3>1. Back(p, d, 0) = p /\ Minus(p, d) = p
      BY <1>0, <2>1 DEF Back, Minus
    <3>2. ~RectBefore(S, reverseX, reverseY, p, p)
      BY <1>0 DEF RectBefore
    <3>3. 1 \in 1 .. Width + Height /\ 1 - 1 = 0
      BY <1>0
    <3> QED
      BY <3>1, <3>2, <3>3 DEF Overwritten
  <2>2. CASE ~(d[1] = 0 /\ d[2] = 0)
    <3> DEFINE n == Width + Height
    <3>1. n \in 1 .. Width + Height /\ n - 1 \in Nat /\ (n - 1) + 1 = n
      BY <1>0
    <3>2. SUFFICES ASSUME Spoilt(n) PROVE FALSE
      BY <3>1
    <3>3. Back(p, d, n) \in Pixels
      BY <1>0, <3>1, <3>2, BackStep DEF Overwritten
    <3>4. p[1] - n * d[1] \in 0 .. Width - 1 /\ p[2] - n * d[2] \in 0 .. Height - 1
      BY <3>3 DEF Back, Pixels
    <3> HIDE DEF n
    <3>5. n \in Nat /\ n >= Width /\ n >= Height
      BY <1>0 DEF n
    <3>6. \A j \in Int : (j >= 1 => n * j >= n) /\ (j <= -1 => n * j <= -n)
      BY <3>5
    <3>7. d[1] = 0 /\ d[2] = 0
      BY <1>0, <3>4, <3>5, <3>6
    <3> QED
      BY <2>2, <3>7
  <2> QED
    BY <2>1, <2>2
<1>2. \E n \in 1 .. Width + Height : Hop(n)
  <2>1. T \in SUBSET Nat
    BY <1>0
  <2>2. PICK n \in T : \A m \in T : n <= m
    BY <1>1, <2>1, LeastNat
  <2>3. \A m \in 1 .. n - 1 : m \notin T /\ m \in 1 .. Width + Height
    BY <1>0, <2>1, <2>2
  <2> QED
    BY <2>2, <2>3
<1> DEFINE hops == CHOOSE n \in 1 .. Width + Height : Hop(n)
<1>3. hops \in 1 .. Width + Height /\ Hop(hops)
  BY <1>2
<1>4. Origin(S, d, reverseX, reverseY, p) = Back(p, d, hops)
  BY DEF Origin
<1> HIDE DEF hops
<1>5. CASE hops = 1
  <2>1. Back(p, d, 1) = Minus(p, d)
    BY <1>0 DEF Back, Minus
  <2> QED
    BY <1>4, <1>5, <2>1 DEF Copyable
<1>6. CASE hops # 1
  <2>1. hops - 1 \in 1 .. hops - 1 /\ hops - 2 \in Nat /\ hops - 1 \in Nat
        /\ (hops - 1) - 1 = hops - 2 /\ (hops - 2) + 1 = hops - 1
        /\ (hops - 1) + 1 = hops
    BY <1>0, <1>3, <1>6
  <2>2. Spoilt(hops - 1)
    BY <1>3, <2>1
  <2>3. Back(p, d, hops - 1) \in S
    BY <1>0, <2>1, <2>2, BackStep DEF Overwritten
  <2>4. Minus(Back(p, d, hops - 1), d) = Back(p, d, hops)
    BY <1>0, <2>1, BackStep
  <2> QED
    BY <1>4, <2>3, <2>4 DEF Copyable
<1> QED
  BY <1>5, <1>6

-----------------------------------------------------------------------------
(* Types.                                                                  *)

LEMMA CopyType ==
  ASSUME NEW C, NEW pic \in [Pixels -> C],
         NEW S \in SUBSET Pixels, NEW d \in Int \X Int, Copyable(S, d),
         NEW reverseX \in BOOLEAN, NEW reverseY \in BOOLEAN
  PROVE  CopyInPlace(pic, S, d, reverseX, reverseY) \in [Pixels -> C]
BY OriginOnScreen DEF CopyInPlace

LEMMA NewClientType ==
  ASSUME NEW hold \in BOOLEAN, NEW pending \in BOOLEAN, NEW deferring \in BOOLEAN,
         cursorXY \in Int \X Int
  PROVE  NewClient(hold, pending, deferring) \in ClientState
<1>1. 0 \in 0 .. Height - 1 /\ <<0, 0>> \in Int \X Int
  BY ConstantsAssumption
<1> QED
  BY <1>1 DEF NewClient, ClientState

LEMMA MarkType ==
  ASSUME NEW k \in ClientState, NEW S \in SUBSET Pixels
  PROVE  Mark(k, S) \in ClientState
BY DEF Mark, ClientState

LEMMA EncodedType ==
  ASSUME NEW k \in ClientState, NEW e \in EncodingFlags
  PROVE  Encoded(k, e) \in ClientState
<1> DEFINE R == IF e.shape THEN CursorRect(cursor, k.cursorXY) ELSE {}
           M == k.modifiedRegion \cup R
           newFBSize == e.newFBSize \/ e.extDesktopSize
           k1 == [k EXCEPT !.useCopyRect = e.copyRect]
           k2 == [k1 EXCEPT !.enableCursorShapeUpdates = e.shape]
           k3 == [k2 EXCEPT !.useNewFBSize = newFBSize]
           k4 == [k3 EXCEPT !.useExtDesktopSize = e.extDesktopSize]
<1>1. /\ e.copyRect \in BOOLEAN /\ e.shape \in BOOLEAN
      /\ e.extDesktopSize \in BOOLEAN /\ newFBSize \in BOOLEAN
  BY DEF EncodingFlags
<1>2. M \in SUBSET Pixels
  BY DEF ClientState, CursorRect
<1> HIDE DEF M, newFBSize
<1>3. k1 \in ClientState
  BY <1>1 DEF ClientState
<1> HIDE DEF k1
<1>4. k2 \in ClientState
  BY <1>1, <1>3 DEF ClientState
<1> HIDE DEF k2
<1>5. k3 \in ClientState
  BY <1>1, <1>4 DEF ClientState
<1> HIDE DEF k3
<1>6. k4 \in ClientState
  BY <1>1, <1>5 DEF ClientState
<1> HIDE DEF k4
<1>7. [k4 EXCEPT !.modifiedRegion = M] \in ClientState
  BY <1>2, <1>6 DEF ClientState
<1> QED
  BY Zenon, <1>7 DEF Encoded, k1, k2, k3, k4, newFBSize, M, R

LEMMA ScheduleCopyType ==
  ASSUME NEW k \in ClientState, NEW S \in SUBSET Pixels, NEW d \in Int \X Int
  PROVE  ScheduleCopy(k, S, d) \in ClientState
<1>1. \A R : Offset(R, d) \in SUBSET Pixels
  BY DEF Offset
<1>2. CursorRect(cursor, k.cursorXY) \in SUBSET Pixels
  BY DEF CursorRect
<1>3. \A A, B \in SUBSET Pixels :
         [k EXCEPT !.copyRegion = A, !.copyD = d, !.modifiedRegion = B] \in ClientState
  BY DEF ClientState
<1>4. \A B \in SUBSET Pixels : [k EXCEPT !.modifiedRegion = B] \in ClientState
  BY DEF ClientState
<1>5. k.copyRegion \in SUBSET Pixels /\ k.modifiedRegion \in SUBSET Pixels
  BY DEF ClientState
<1> QED
  BY <1>1, <1>2, <1>3, <1>4, <1>5 DEF ScheduleCopy

\* A progressive slice starts and ends on the screen.
LEMMA SliceType ==
  ASSUME NEW k \in ClientState, NEW top \in SliceTops(k)
  PROVE  top \in 0 .. Height - 1 /\ NextSliceY(k, top) \in 0 .. Height - 1
<1>1. k.progressiveSliceY \in 0 .. Height - 1 /\ k.modifiedRegion \in SUBSET Pixels
  BY DEF ClientState
<1>2. Rows(k.modifiedRegion) \subseteq 0 .. Height - 1
  BY <1>1 DEF Rows, Pixels
<1>3. top \in 0 .. Height - 1
  BY <1>1, <1>2 DEF SliceTops
<1> QED
  BY <1>1, <1>3, ConstantsAssumption DEF NextSliceY

LEMMA CopiedOnScreen ==
  ASSUME NEW k \in ClientState
  PROVE  /\ Copied(k) \in SUBSET Pixels /\ Copyable(Copied(k), k.copyD)
         /\ k.copyD \in Int \X Int
BY DEF ClientState, Copied, PendingCopy, Offset, Copyable

\* The viewer carries out an update's copies without reading a pixel that an
\* earlier one has overwritten.
LEMMA CopiedMoves ==
  ASSUME NEW k \in ClientState
  PROVE  CopyInPlace(k.view, Copied(k), k.copyD, k.copyD[1] > 0, k.copyD[2] > 0)
           = Moved(k.view, Copied(k), k.copyD)
<1>1. \A p \in Copied(k) : ~Overwritten(Copied(k), k.copyD, k.copyD[1] > 0, k.copyD[2] > 0, p)
  BY CopiedOnScreen, SendOrderSafe
<1>2. (k.copyD[1] > 0) \in BOOLEAN /\ (k.copyD[2] > 0) \in BOOLEAN
  OBVIOUS
<1> QED
  BY <1>1, <1>2, CopiedOnScreen, SafeOrderMoves

LEMMA PushedType ==
  ASSUME TypeOK, NEW k \in ClientState, NEW top, NEW boxed \in BOOLEAN
  PROVE  Pushed(k, top, boxed) \in [Pixels -> Colours \cup Cursors \cup {Blank}]
<1> DEFINE V == Colours \cup Cursors \cup {Blank}
<1>1. k.view \in [Pixels -> V]
  BY DEF ClientState
<1>2. Moved(k.view, Copied(k), k.copyD) \in [Pixels -> V]
  BY <1>1, CopiedOnScreen DEF Moved, Copyable
<1>3. \A b, xy : Image(b, xy) \in [Pixels -> V]
  BY DEF Image, TypeOK
<1> QED
  BY <1>2, <1>3, CopiedMoves DEF Pushed

\* An update leaves a client record.
LEMMA SendType ==
  ASSUME TypeOK, NEW k \in ClientState, NEW top \in SliceTops(k),
         NEW pseudo \in BOOLEAN, NEW boxed \in BOOLEAN
  PROVE  SendFramebufferUpdate(k, top, pseudo, boxed) \in ClientState
<1>1. /\ NextSliceY(k, top) \in 0 .. Height - 1
      /\ Pushed(k, top, boxed) \in [Pixels -> Colours \cup Cursors \cup {Blank}]
      /\ cursorXY \in Int \X Int
      /\ <<0, 0>> \in Int \X Int
  BY SliceType, PushedType DEF TypeOK
<1>2. PendingCopy(k) \in SUBSET Pixels
  BY DEF ClientState, PendingCopy
<1>3. (k.modifiedRegion \cup PendingCopy(k)) \ (Wanted(k, top) \cup Copied(k)) \in SUBSET Pixels
  BY <1>2 DEF ClientState
<1> DEFINE sy == NextSliceY(k, top)
           left == (k.modifiedRegion \cup PendingCopy(k)) \ (Wanted(k, top) \cup Copied(k))
           seen == IF k.enableCursorShapeUpdates THEN k.cursorXY ELSE cursorXY
           picture == Pushed(k, top, boxed)
<1>4. [k EXCEPT !.newFBSizePending = FALSE] \in ClientState
  BY DEF ClientState
<1>5. [k EXCEPT !.copyRegion = PendingCopy(k), !.progressiveSliceY = sy] \in ClientState
  <2> HIDE DEF sy
  <2> QED
    BY <1>1, <1>2 DEF ClientState, sy
<1>6. seen \in Int \X Int
  BY <1>1 DEF ClientState
<1>7. [k EXCEPT !.modifiedRegion = left, !.copyRegion = {}, !.copyD = <<0, 0>>,
                !.requestedRegion = {}, !.progressiveSliceY = sy,
                !.cursorXY = seen, !.view = picture] \in ClientState
  <2>1. /\ sy \in 0 .. Height - 1 /\ left \in SUBSET Pixels /\ <<0, 0>> \in Int \X Int
        /\ picture \in [Pixels -> Colours \cup Cursors \cup {Blank}]
    BY <1>1, <1>3
  <2> HIDE DEF sy, left, seen, picture
  <2> QED
    BY <1>6, <2>1 DEF ClientState
<1> QED
  BY <1>4, <1>5, <1>7 DEF SendFramebufferUpdate

LEMMA DeferringType ==
  ASSUME NEW k \in ClientState, NEW running \in BOOLEAN
  PROVE  /\ Deferring(k, running) \in ClientState
         /\ SliceTops(Deferring(k, running)) = SliceTops(k)
<1>1. /\ Deferring(k, running).modifiedRegion = k.modifiedRegion
      /\ Deferring(k, running).progressiveSliceY = k.progressiveSliceY
  BY DEF Deferring, ClientState
<1>2. SliceTops(Deferring(k, running)) = SliceTops(k)
  BY <1>1 DEF SliceTops
<1>3. Deferring(k, TRUE) \in ClientState /\ Deferring(k, FALSE) \in ClientState
  BY DEF Deferring, ClientState
<1>4. running = TRUE \/ running = FALSE
  OBVIOUS
<1> QED
  BY <1>2, <1>3, <1>4, Zenon

LEMMA TypeInit == Init => TypeOK
<1> SUFFICES ASSUME Init PROVE TypeOK
  OBVIOUS
<1>1. cursorXY \in Int \X Int
  BY ConstantsAssumption DEF Init
<1>2. NewClient(FALSE, FALSE, FALSE) \in ClientState
  BY <1>1, NewClientType
<1>3. fb \in [Pixels -> Colours] /\ cursor \in Cursors /\ work \in 0 .. MaxWork
  BY ConstantsAssumption DEF Init
<1>4. cl \in [Clients -> ClientState]
  <2> HIDE DEF ClientState
  <2> QED
    BY <1>2, Zenon DEF Init
<1> QED
  BY <1>1, <1>3, <1>4 DEF Init, TypeOK

LEMMA TypeNext == TypeOK /\ [Next]_vars => TypeOK'
<1> SUFFICES ASSUME TypeOK, [Next]_vars PROVE TypeOK'
  OBVIOUS
<1>0. /\ cl \in [Clients -> ClientState] /\ fb \in [Pixels -> Colours]
      /\ cursorXY \in Int \X Int /\ cursor \in Cursors /\ clients \subseteq Clients
      /\ work \in 0 .. MaxWork /\ MaxWork \in Nat
  BY ConstantsAssumption DEF TypeOK
<1>1. ASSUME NEW S \in DrawRegions, NEW colour \in Colours, Draw(S, colour) PROVE TypeOK'
  <2>1. S \in SUBSET Pixels
    BY ConstantsAssumption
  <2>2. cl' \in [Clients -> ClientState]
    BY <1>0, <1>1, <2>1, MarkType DEF Draw
  <2> QED
    BY <1>0, <1>1, <2>2 DEF Draw, Work, TypeOK
<1>2. ASSUME NEW S \in CopyRegions, NEW d \in Offsets, DoCopyRegion(S, d) PROVE TypeOK'
  <2>1. S \in SUBSET Pixels /\ d \in Int \X Int
    BY ConstantsAssumption
  <2>2. cl' \in [Clients -> ClientState]
    BY <1>0, <1>2, <2>1, ScheduleCopyType DEF DoCopyRegion
  <2>3. fb' \in [Pixels -> Colours]
    <3>1. (d[1] < 0) \in BOOLEAN /\ (d[2] < 0) \in BOOLEAN
      OBVIOUS
    <3> QED
      BY <1>0, <1>2, <2>1, <3>1, CopyType DEF DoCopyRegion
  <2> QED
    BY <1>0, <1>2, <2>2, <2>3 DEF DoCopyRegion, Work, TypeOK
<1>3. ASSUME NEW S \in CopyRegions, NEW d \in Offsets, ScheduleCopyRegion(S, d) PROVE TypeOK'
  <2>1. S \in SUBSET Pixels /\ d \in Int \X Int
    BY ConstantsAssumption
  <2>2. cl' \in [Clients -> ClientState]
    BY <1>0, <1>3, <2>1, ScheduleCopyType DEF ScheduleCopyRegion
  <2>3. fb' \in [Pixels -> Colours]
    BY <1>0, <1>3 DEF ScheduleCopyRegion, Moved, Copyable
  <2> QED
    BY <1>0, <1>3, <2>2, <2>3 DEF ScheduleCopyRegion, Work, TypeOK
<1>4. ASSUME NEW xy \in Points, MoveCursor(xy) PROVE TypeOK'
  BY <1>0, <1>4, ConstantsAssumption DEF MoveCursor, Work, TypeOK
<1>5. ASSUME NEW image \in Cursors, SetCursor(image) PROVE TypeOK'
  <2>1. \A i, xy : CursorRect(i, xy) \in SUBSET Pixels
    BY DEF CursorRect
  <2>2. cl' \in [Clients -> ClientState]
    BY <1>0, <1>5, <2>1, MarkType DEF SetCursor, Recursor
  <2> QED
    BY <1>0, <1>5, <2>2 DEF SetCursor, Work, TypeOK
<1>6. ASSUME NEW buffer \in Buffers, NewFramebuffer(buffer) PROVE TypeOK'
  <2>1. cl' \in [Clients -> ClientState]
    <3>1. <<0, 0>> \in Int \X Int
      OBVIOUS
    <3>2. ASSUME NEW k \in ClientState PROVE Renew(k) \in ClientState
      BY <3>1 DEF Renew, ClientState
    <3> QED
      BY <1>0, <1>6, <3>2 DEF NewFramebuffer
  <2>2. cursorXY' \in Int \X Int
    BY <1>0, <1>6, ConstantsAssumption DEF NewFramebuffer, Clip
  <2> QED
    BY <1>0, <1>6, <2>1, <2>2, ConstantsAssumption DEF NewFramebuffer, Work, TypeOK
<1>7. ASSUME NEW c \in Clients, NewStreamClient(c) PROVE TypeOK'
  BY <1>0, <1>7, NewClientType DEF NewStreamClient, TypeOK
<1>8. ASSUME NEW c \in Clients, StartOnHoldClient(c) PROVE TypeOK'
  <2>1. cl[c] \in ClientState
    BY <1>0
  <2>2. [cl[c] EXCEPT !.onHold = FALSE] \in ClientState
    BY <2>1 DEF ClientState
  <2> QED
    BY <1>0, <1>8, <2>2 DEF StartOnHoldClient, TypeOK
<1>9. ASSUME NEW c \in Clients, ClientConnectionGone(c) PROVE TypeOK'
  BY <1>0, <1>9, NewClientType DEF ClientConnectionGone, TypeOK
<1>10. ASSUME NEW c \in Clients, NEW S \in Requests, NEW incremental \in BOOLEAN,
              FramebufferUpdateRequest(c, S, incremental)
       PROVE  TypeOK'
  <2>1. S \in SUBSET Pixels
    BY ConstantsAssumption
  <2>2. cl[c] \in ClientState
    BY <1>0
  <2>3. Request(cl[c], S, incremental) \in ClientState
    <3>1. CASE incremental
      BY <2>1, <2>2, <3>1 DEF Request, ClientState
    <3>2. CASE ~incremental
      <4>1. (cl[c].newFBSizePending \/ cl[c].useExtDesktopSize) \in BOOLEAN
        OBVIOUS
      <4>2. \A f \in BOOLEAN :
              [cl[c] EXCEPT !.requestedRegion = @ \cup S,
                 !.modifiedRegion = @ \cup S, !.copyRegion = @ \ S,
                 !.newFBSizePending = f] \in ClientState
        BY <2>1, <2>2 DEF ClientState
      <4> QED
        BY <3>2, <4>1, <4>2 DEF Request
    <3> QED
      BY <3>1, <3>2
  <2> QED
    BY <1>0, <1>10, <2>3 DEF FramebufferUpdateRequest, TypeOK
<1>11. ASSUME NEW c \in Clients, NEW e \in Encodings, SetEncodings(c, e) PROVE TypeOK'
  <2>2. e \in EncodingFlags
    BY ConstantsAssumption
  <2>3. cl[c] \in ClientState
    BY <1>0
  <2>4. Encoded(cl[c], e) \in ClientState
    BY <2>2, <2>3, EncodedType
  <2> QED
    BY <1>0, <1>11, <2>4 DEF SetEncodings, TypeOK
<1>12. ASSUME NEW c \in Clients, StartDeferring(c) PROVE TypeOK'
  <2>1. Deferring(cl[c], TRUE) \in ClientState
    BY <1>0, DeferringType
  <2> QED
    BY <1>0, <1>12, <2>1 DEF StartDeferring, TypeOK
<1>13. ASSUME NEW c \in Clients, SendUpdate(c) PROVE TypeOK'
  <2> DEFINE k == Deferring(cl[c], cl[c].deferring /\ ~DeferUpdates)
  <2>1. k \in ClientState /\ SliceTops(k) = SliceTops(cl[c])
    <3>1. (cl[c].deferring /\ ~DeferUpdates) \in BOOLEAN
      OBVIOUS
    <3> QED
      BY <1>0, <3>1, DeferringType
  <2> HIDE DEF k
  <2>3. PICK pseudo \in BOOLEAN, boxed \in BOOLEAN, top \in SliceTops(cl[c]) :
          cl' = [cl EXCEPT ![c] = SendFramebufferUpdate(k, top, pseudo, boxed)]
    BY <1>13 DEF SendUpdate, k
  <2>4. SendFramebufferUpdate(k, top, pseudo, boxed) \in ClientState
    BY <2>1, SendType
  <2> QED
    BY <1>0, <1>13, <2>3, <2>4 DEF SendUpdate, TypeOK
<1>14. CASE UNCHANGED vars
  BY <1>14 DEF vars, TypeOK
<1> QED
  BY <1>1, <1>2, <1>3, <1>4, <1>5, <1>6, <1>7, <1>8, <1>9, <1>10, <1>11, <1>12, <1>13, <1>14
     DEF Next, Application, UpdateClient

\* The screen and every client record keep their types.  That the picture a
\* viewer holds is made of pixels at all rests on rfbSendCopyRegion copying
\* from requested pixels only, and on the copies made in place.
THEOREM TypeCorrect == Spec => []TypeOK
BY TypeInit, TypeNext, PTL DEF Spec

-----------------------------------------------------------------------------
(* Nothing is lost: each operation on a client record keeps every pixel    *)
(* accounted for.  after is the record the operation leaves.               *)

LEMMA MarkAccounted ==
  ASSUME NEW k \in ClientState, NEW S \in SUBSET Pixels, NEW after,
         after = Mark(k, S), cursor' = cursor,
         \A p \in Pixels : Accounted(k, p),
         \A p \in Pixels \ S : fb'[p] = fb[p]
  PROVE  \A p \in Pixels : Accounted(after, p)'
<1>1. /\ after.modifiedRegion = k.modifiedRegion \cup S
      /\ after.view = k.view /\ after.copyRegion = k.copyRegion /\ after.copyD = k.copyD
      /\ after.cursorXY = k.cursorXY
      /\ after.enableCursorShapeUpdates = k.enableCursorShapeUpdates
  BY DEF Mark, ClientState
<1>2. ASSUME NEW p \in Pixels PROVE Accounted(after, p)'
  <2>1. CASE p \in S
    BY <1>1, <2>1 DEF Accounted
  <2>2. CASE p \notin S
    BY <1>1, <2>2 DEF Accounted, Current
  <2> QED
    BY <2>1, <2>2
<1> QED
  BY <1>2

\* Copies on copies: a pending copy survives a new one by the same offset; its
\* pixels that the new one reads, the modified pixels it reads, and the drawn
\* cursor at both ends are sent as pixels instead.
LEMMA ScheduleCopyAccounted ==
  ASSUME NEW k \in ClientState, NEW S \in SUBSET Pixels, NEW d \in Int \X Int,
         Copyable(S, d), NEW after, after = ScheduleCopy(k, S, d),
         TypeOK, fb' = Moved(fb, S, d), cursor' = cursor,
         \A p \in Pixels : Accounted(k, p)
  PROVE  \A p \in Pixels : Accounted(after, p)'
<1> DEFINE restart == k.copyD # d
           mod0 == k.modifiedRegion \cup IF restart THEN k.copyRegion
                                         ELSE k.copyRegion \cap Sources(S, d)
           copy == S \cup IF restart THEN {} ELSE k.copyRegion
           mod1 == mod0 \cup (Offset(mod0, d) \cap copy)
           drawn == CursorRect(cursor, k.cursorXY)
           drawn2 == (drawn \cup Offset(drawn, d)) \cap copy
<1>1. CASE ~k.useCopyRect
  <2>1. after = Mark(k, S)
    BY <1>1 DEF ScheduleCopy, Mark
  <2>2. \A p \in Pixels \ S : fb'[p] = fb[p]
    BY DEF Moved
  <2> QED
    BY <2>1, <2>2, MarkAccounted
<1>2. CASE k.useCopyRect
  <2>1. /\ after.view = k.view /\ after.cursorXY = k.cursorXY
        /\ after.enableCursorShapeUpdates = k.enableCursorShapeUpdates
        /\ after.copyRegion = copy /\ after.copyD = d
        /\ after.modifiedRegion = IF k.enableCursorShapeUpdates THEN mod1 ELSE mod1 \cup drawn2
    <3> HIDE DEF mod1, drawn2, copy
    <3>1. after = [k EXCEPT !.copyRegion = copy, !.copyD = d,
                     !.modifiedRegion = IF k.enableCursorShapeUpdates THEN mod1
                                        ELSE mod1 \cup drawn2]
      BY <1>2 DEF ScheduleCopy, mod1, drawn2, copy
    <3> QED
      BY <3>1 DEF ClientState
  <2>2. \A p \in mod1 : p \in after.modifiedRegion
    BY <2>1
  <2>3. ASSUME NEW p \in Pixels, p \in S PROVE Accounted(after, p)'
    <3> DEFINE q == Minus(p, d)
    <3>1. q \in Pixels /\ fb'[p] = fb[q]
      BY <2>3 DEF Copyable, Moved
    <3>2. p \in copy
      BY <2>3
    <3>3. Plus(q, d) = p
      <4>1. p = <<p[1], p[2]>> /\ p[1] \in Int /\ p[2] \in Int /\ d[1] \in Int /\ d[2] \in Int
        BY ConstantsAssumption DEF Pixels
      <4> QED
        BY <4>1 DEF Plus, Minus
    <3>4. CASE q \in mod0
      <4>1. p \in Offset(mod0, d)
        BY <3>4 DEF Offset
      <4> QED
        BY <2>2, <3>2, <4>1 DEF Accounted
    <3>5. CASE q \in drawn /\ ~k.enableCursorShapeUpdates
      <4>1. p \in Offset(drawn, d)
        BY <3>5 DEF Offset
      <4> QED
        BY <2>1, <3>2, <3>5, <4>1 DEF Accounted
    <3>6. CASE q \in k.copyRegion
      <4>1. q \in Sources(S, d)
        BY <2>3, <3>1, <3>3 DEF Sources
      <4> QED
        BY <3>4, <3>6, <4>1
    <3>7. CASE Current(k, q) /\ q \notin drawn
      BY <2>1, <3>1, <3>2, <3>7 DEF Accounted, Current, CursorPainted
    <3>8. CASE Current(k, q) /\ q \in drawn /\ k.enableCursorShapeUpdates
      BY <2>1, <3>1, <3>2, <3>8 DEF Accounted, Current
    <3>9. q \in k.modifiedRegion \/ q \in k.copyRegion \/ Current(k, q)
      BY <3>1 DEF Accounted
    <3> QED
      BY <3>4, <3>5, <3>6, <3>7, <3>8, <3>9
  <2>4. ASSUME NEW p \in Pixels, p \notin S PROVE Accounted(after, p)'
    <3>1. fb'[p] = fb[p]
      BY <2>4 DEF Moved
    <3>2. CASE p \in mod0
      BY <2>2, <3>2 DEF Accounted
    <3>3. CASE p \notin mod0
      BY <2>1, <2>4, <3>1, <3>3 DEF Accounted, Current
    <3> QED
      BY <3>2, <3>3
  <2> QED
    BY <2>3, <2>4
<1> QED
  BY <1>1, <1>2

\* Everything that was to be sent as pixels is.
LEMMA SentPixelsCover ==
  ASSUME NEW k \in ClientState, NEW top, NEW boxed \in BOOLEAN
  PROVE  /\ Wanted(k, top) \ Copied(k) \subseteq SentPixels(k, top, boxed)
         /\ CursorMoved(k) => /\ CursorRect(cursor, k.cursorXY) \subseteq SentPixels(k, top, boxed)
                              /\ CursorRect(cursor, cursorXY) \subseteq SentPixels(k, top, boxed)
<1> DEFINE drawn == (Wanted(k, top) \ Copied(k)) \cup
                      IF CursorMoved(k)
                      THEN CursorRect(cursor, k.cursorXY) \cup CursorRect(cursor, cursorXY)
                      ELSE {}
<1>1. drawn \in SUBSET Pixels
  BY DEF ClientState, Wanted, PendingCopy, CursorRect
<1>2. ASSUME NEW p \in drawn PROVE p \in BBox(drawn)
  <2> HIDE DEF drawn
  <2>1. p \in Pixels /\ p[1] \in Int /\ p[2] \in Int
    BY <1>1, ConstantsAssumption DEF Pixels
  <2> QED
    BY <2>1 DEF BBox
<1>3. drawn \subseteq SentPixels(k, top, boxed)
  <2>1. SentPixels(k, top, boxed) = drawn \/ SentPixels(k, top, boxed) = BBox(drawn)
    BY DEF SentPixels
  <2> HIDE DEF drawn
  <2> QED
    BY <1>2, <2>1
<1> QED
  BY <1>3

\* What an update changes in the viewer's picture becomes what the screen
\* shows there, and the rest stays.
LEMMA PushedUpToDate ==
  ASSUME TypeOK, NEW k \in ClientState, NEW top, NEW boxed \in BOOLEAN, NEW xy,
         xy = IF k.enableCursorShapeUpdates THEN k.cursorXY ELSE cursorXY,
         \A p \in Pixels : Accounted(k, p), NEW p \in Pixels
  PROVE  /\ \/ Pushed(k, top, boxed)[p] = k.view[p]
            \/ Pushed(k, top, boxed)[p] = fb[p]
            \/ /\ ~k.enableCursorShapeUpdates /\ p \in CursorPainted(cursor, xy)
               /\ Pushed(k, top, boxed)[p] = cursor
         /\ p \in SentPixels(k, top, boxed) \cup Copied(k) =>
              \/ Pushed(k, top, boxed)[p] = fb[p]
              \/ /\ ~k.enableCursorShapeUpdates /\ p \in CursorPainted(cursor, xy)
                 /\ Pushed(k, top, boxed)[p] = cursor
         /\ p \notin SentPixels(k, top, boxed) \cup Copied(k) =>
              Pushed(k, top, boxed)[p] = k.view[p]
<1>1. Pushed(k, top, boxed)[p] = IF p \in SentPixels(k, top, boxed)
                                 THEN Image(k.enableCursorShapeUpdates, xy)[p]
                                 ELSE Moved(k.view, Copied(k), k.copyD)[p]
  BY CopiedMoves DEF Pushed
<1>2. CASE p \in SentPixels(k, top, boxed)
  BY <1>1, <1>2 DEF Image
<1>3. CASE p \notin SentPixels(k, top, boxed) /\ p \in Copied(k)
  <2>1. p \notin k.modifiedRegion /\ p \in k.copyRegion
    BY <1>3 DEF Copied, PendingCopy
  <2>2. k.view[Minus(p, k.copyD)] = fb[p]
    BY <2>1 DEF Accounted
  <2> QED
    BY <1>1, <1>3, <2>2 DEF Moved
<1>4. CASE p \notin SentPixels(k, top, boxed) /\ p \notin Copied(k)
  BY <1>1, <1>4 DEF Moved
<1> QED
  BY <1>2, <1>3, <1>4

LEMMA SendAccounted ==
  ASSUME TypeOK, NEW k \in ClientState, NEW top,
         NEW pseudo \in BOOLEAN, NEW boxed \in BOOLEAN, NEW after,
         after = SendFramebufferUpdate(k, top, pseudo, boxed),
         fb' = fb, cursor' = cursor,
         \A p \in Pixels : Accounted(k, p)
  PROVE  \A p \in Pixels : Accounted(after, p)'
<1>1. CASE k.useNewFBSize /\ k.newFBSizePending
  <2>1. after = [k EXCEPT !.newFBSizePending = FALSE]
    BY <1>1 DEF SendFramebufferUpdate
  <2>2. /\ after.view = k.view /\ after.modifiedRegion = k.modifiedRegion
        /\ after.copyRegion = k.copyRegion /\ after.copyD = k.copyD
        /\ after.cursorXY = k.cursorXY
        /\ after.enableCursorShapeUpdates = k.enableCursorShapeUpdates
    BY <2>1 DEF ClientState
  <2> QED
    BY <2>2 DEF Accounted, Current
<1>2. CASE /\ ~(k.useNewFBSize /\ k.newFBSizePending)
           /\ Wanted(k, top) = {} /\ ~CursorMoved(k) /\ ~pseudo
  <2>1. after = [k EXCEPT !.copyRegion = PendingCopy(k),
                          !.progressiveSliceY = NextSliceY(k, top)]
    BY <1>2 DEF SendFramebufferUpdate
  <2>2. /\ after.view = k.view /\ after.modifiedRegion = k.modifiedRegion
        /\ after.copyRegion = PendingCopy(k) /\ after.copyD = k.copyD
        /\ after.cursorXY = k.cursorXY
        /\ after.enableCursorShapeUpdates = k.enableCursorShapeUpdates
    BY <2>1 DEF ClientState
  <2> QED
    BY <2>2 DEF Accounted, Current, PendingCopy
<1>3. CASE /\ ~(k.useNewFBSize /\ k.newFBSizePending)
           /\ ~(Wanted(k, top) = {} /\ ~CursorMoved(k) /\ ~pseudo)
  <2> DEFINE xy == IF k.enableCursorShapeUpdates THEN k.cursorXY ELSE cursorXY
             left == (k.modifiedRegion \cup PendingCopy(k)) \ (Wanted(k, top) \cup Copied(k))
  <2>1. after = [k EXCEPT
          !.modifiedRegion = left,
          !.copyRegion = {}, !.copyD = <<0, 0>>, !.requestedRegion = {},
          !.progressiveSliceY = NextSliceY(k, top),
          !.cursorXY = xy,
          !.view = Pushed(k, top, boxed)]
    BY <1>3 DEF SendFramebufferUpdate
  <2>2. /\ after.view = Pushed(k, top, boxed) /\ after.modifiedRegion = left
        /\ after.copyRegion = {} /\ after.cursorXY = xy
        /\ after.enableCursorShapeUpdates = k.enableCursorShapeUpdates
    <3> HIDE DEF left, xy
    <3> QED
      BY <2>1 DEF ClientState
  <2>3. ASSUME NEW p \in Pixels, p \notin left PROVE Current(after, p)'
    <3>1. CASE p \in SentPixels(k, top, boxed) \cup Copied(k)
      BY <2>2, <3>1, PushedUpToDate DEF Current
    <3>2. CASE p \notin SentPixels(k, top, boxed) \cup Copied(k)
      <4>1. Pushed(k, top, boxed)[p] = k.view[p]
        BY <3>2, PushedUpToDate
      <4>2. p \notin k.modifiedRegion /\ p \notin k.copyRegion
        BY <2>3, <3>2, SentPixelsCover DEF PendingCopy
      <4>3. Current(k, p)
        BY <4>2 DEF Accounted
      <4>4. ~k.enableCursorShapeUpdates /\ p \in CursorPainted(cursor, k.cursorXY)
              => xy = k.cursorXY
        BY <3>2, SentPixelsCover DEF CursorPainted, CursorMoved
      <4> QED
        BY <2>2, <4>1, <4>3, <4>4 DEF Current
    <3> QED
      BY <3>1, <3>2
  <2> QED
    BY <2>2, <2>3 DEF Accounted
<1> QED
  BY <1>1, <1>2, <1>3

\* The operations that touch neither the picture nor the pending copy's
\* sources.
LEMMA OtherAccounted ==
  ASSUME TypeOK, NEW k \in ClientState, NEW after,
         \/ fb' = fb /\ \E image \in Cursors : after = Recursor(k, image) /\ cursor' = image
         \/ after = Renew(k)
         \/ /\ fb' = fb /\ cursor' = cursor
            /\ \/ \E S \in SUBSET Pixels, incremental \in BOOLEAN : after = Request(k, S, incremental)
               \/ \E e \in EncodingFlags : after = Encoded(k, e)
               \/ \E running \in BOOLEAN : after = Deferring(k, running)
               \/ after = [k EXCEPT !.onHold = FALSE],
         \A p \in Pixels : Accounted(k, p)
  PROVE  \A p \in Pixels : Accounted(after, p)'
<1>1. ASSUME NEW image \in Cursors, after = Recursor(k, image), cursor' = image, fb' = fb
      PROVE  \A p \in Pixels : Accounted(after, p)'
  <2> DEFINE S == CursorRect(cursor, k.cursorXY) \cup CursorRect(image, k.cursorXY)
  <2>1. CASE k.enableCursorShapeUpdates
    BY <1>1, <2>1 DEF Recursor, Accounted, Current
  <2>2. CASE ~k.enableCursorShapeUpdates
    <3>1. after = Mark(k, S)
      BY <1>1, <2>2 DEF Recursor
    <3>2. /\ after.modifiedRegion = k.modifiedRegion \cup S
          /\ after.view = k.view /\ after.copyRegion = k.copyRegion /\ after.copyD = k.copyD
          /\ after.cursorXY = k.cursorXY
          /\ after.enableCursorShapeUpdates = k.enableCursorShapeUpdates
      <4> HIDE DEF S
      <4> QED
        BY <3>1 DEF Mark, ClientState
    <3> QED
      BY <1>1, <3>2 DEF Accounted, Current, CursorPainted
  <2> QED
    BY <2>1, <2>2
<1>2. ASSUME after = Renew(k) PROVE \A p \in Pixels : Accounted(after, p)'
  <2>1. after.modifiedRegion = Pixels
    BY <1>2 DEF Renew, ClientState
  <2> QED
    BY <2>1 DEF Accounted
<1>3. ASSUME fb' = fb, cursor' = cursor,
             NEW S \in SUBSET Pixels, NEW incremental \in BOOLEAN,
             after = Request(k, S, incremental)
      PROVE  \A p \in Pixels : Accounted(after, p)'
  <2>1. /\ after.view = k.view /\ after.copyD = k.copyD /\ after.cursorXY = k.cursorXY
        /\ after.enableCursorShapeUpdates = k.enableCursorShapeUpdates
        /\ \/ /\ after.modifiedRegion = k.modifiedRegion
              /\ after.copyRegion = k.copyRegion
           \/ /\ after.modifiedRegion = k.modifiedRegion \cup S
              /\ after.copyRegion = k.copyRegion \ S
    BY <1>3 DEF Request, ClientState
  <2> QED
    BY <1>3, <2>1 DEF Accounted, Current
<1>4. ASSUME fb' = fb, cursor' = cursor, NEW e \in EncodingFlags, after = Encoded(k, e)
      PROVE  \A p \in Pixels : Accounted(after, p)'
  <2>1. /\ after.view = k.view /\ after.copyD = k.copyD /\ after.cursorXY = k.cursorXY
        /\ after.copyRegion = k.copyRegion
        /\ after.enableCursorShapeUpdates = e.shape
        /\ after.modifiedRegion = k.modifiedRegion \cup
             IF e.shape THEN CursorRect(cursor, k.cursorXY) ELSE {}
    BY <1>4 DEF Encoded, ClientState
  <2> QED
    BY <1>4, <2>1 DEF Accounted, Current, CursorPainted
<1>5. ASSUME fb' = fb, cursor' = cursor,
             \/ \E running \in BOOLEAN : after = Deferring(k, running)
             \/ after = [k EXCEPT !.onHold = FALSE]
      PROVE  \A p \in Pixels : Accounted(after, p)'
  <2>1. /\ after.view = k.view /\ after.copyD = k.copyD /\ after.cursorXY = k.cursorXY
        /\ after.copyRegion = k.copyRegion /\ after.modifiedRegion = k.modifiedRegion
        /\ after.enableCursorShapeUpdates = k.enableCursorShapeUpdates
    BY <1>5 DEF Deferring, ClientState
  <2> QED
    BY <1>5, <2>1 DEF Accounted, Current
<1> QED
  BY <1>1, <1>2, <1>3, <1>4, <1>5

LEMMA NewClientAccounted ==
  ASSUME NEW hold, NEW pending, NEW deferring, NEW after,
         after = NewClient(hold, pending, deferring)
  PROVE  \A p \in Pixels : Accounted(after, p)'
BY DEF NewClient, Accounted

LEMMA DeferringAccounted ==
  ASSUME NEW k \in ClientState, \A p \in Pixels : Accounted(k, p), NEW b
  PROVE  LET running == k.deferring /\ b
         IN  /\ Deferring(k, running) \in ClientState
             /\ \A p \in Pixels : Accounted(Deferring(k, running), p)
<1>1. (k.deferring /\ b) \in BOOLEAN
  OBVIOUS
<1>2. ASSUME NEW running \in BOOLEAN PROVE \A p \in Pixels : Accounted(Deferring(k, running), p)
  <2> DEFINE after == Deferring(k, running)
  <2>1. /\ after.view = k.view /\ after.copyD = k.copyD /\ after.cursorXY = k.cursorXY
        /\ after.copyRegion = k.copyRegion /\ after.modifiedRegion = k.modifiedRegion
        /\ after.enableCursorShapeUpdates = k.enableCursorShapeUpdates
    BY DEF Deferring, ClientState
  <2> HIDE DEF after
  <2>2. \A p \in Pixels : Accounted(after, p)
    BY <2>1 DEF Accounted, Current
  <2> QED
    BY <2>2 DEF after
<1> QED
  BY <1>1, <1>2, DeferringType

LEMMA CoherentNext ==
  RectangularCopies /\ TypeOK /\ Coherent /\ [Next]_vars => Coherent'
<1> SUFFICES ASSUME RectangularCopies, TypeOK, Coherent, [Next]_vars PROVE Coherent'
  OBVIOUS
<1> USE DEF Coherent
<1>0. /\ cl \in [Clients -> ClientState] /\ clients \subseteq Clients
      /\ \A c \in clients : cl[c] \in ClientState
      /\ \A c \in clients, p \in Pixels : Accounted(cl[c], p)
  BY DEF TypeOK
<1>1. ASSUME NEW S \in DrawRegions, NEW colour \in Colours, Draw(S, colour) PROVE Coherent'
  <2>1. S \in SUBSET Pixels /\ cursor' = cursor /\ clients' = clients
    BY <1>1, ConstantsAssumption DEF Draw
  <2>2. \A p \in Pixels \ S : fb'[p] = fb[p]
    BY <1>1 DEF Draw
  <2>3. \A c \in clients : cl'[c] = Mark(cl[c], S)
    BY <1>0, <1>1 DEF Draw
  <2>4. ASSUME NEW c \in clients PROVE \A p \in Pixels : Accounted(cl[c], p)'
    BY <1>0, <2>1, <2>2, <2>3, MarkAccounted DEF Accounted, Current
  <2> QED
    BY <2>1, <2>4
<1>2. ASSUME NEW S \in CopyRegions, NEW d \in Offsets,
             DoCopyRegion(S, d) \/ ScheduleCopyRegion(S, d)
      PROVE  Coherent'
  <2>1. S \in SUBSET Pixels /\ d \in Int \X Int /\ IsRect(S)
    BY ConstantsAssumption DEF RectangularCopies
  <2>2. /\ Copyable(S, d) /\ cursor' = cursor /\ clients' = clients
        /\ cl' = [c \in Clients |-> IF c \in clients THEN ScheduleCopy(cl[c], S, d) ELSE cl[c]]
    BY <1>2 DEF DoCopyRegion, ScheduleCopyRegion
  <2>3. fb' = Moved(fb, S, d)
    <3>1. (d[1] < 0) \in BOOLEAN /\ (d[2] < 0) \in BOOLEAN
      OBVIOUS
    <3>2. CopyInPlace(fb, S, d, d[1] < 0, d[2] < 0) = Moved(fb, S, d)
      <4>1. \A p \in S : ~Overwritten(S, d, d[1] < 0, d[2] < 0, p)
        BY <2>1, <3>1, RectOrderSafe
      <4> QED
        BY <2>1, <3>1, <4>1, SafeOrderMoves
    <3> QED
      BY <1>2, <3>2 DEF DoCopyRegion, ScheduleCopyRegion
  <2>4. \A c \in clients : cl'[c] = ScheduleCopy(cl[c], S, d)
    BY <1>0, <2>2
  <2>5. ASSUME NEW c \in clients PROVE \A p \in Pixels : Accounted(cl[c], p)'
    BY <1>0, <2>1, <2>2, <2>3, <2>4, ScheduleCopyAccounted DEF Accounted, Current
  <2> QED
    BY <2>2, <2>5
<1>3. ASSUME NEW xy \in Points, MoveCursor(xy) PROVE Coherent'
  BY <1>3 DEF MoveCursor, Accounted, Current
<1>4. ASSUME NEW image \in Cursors, SetCursor(image) PROVE Coherent'
  <2>1. fb' = fb /\ cursor' = image /\ clients' = clients
    BY <1>4 DEF SetCursor
  <2>2. \A c \in clients : cl'[c] = Recursor(cl[c], image)
    BY <1>0, <1>4 DEF SetCursor
  <2>3. ASSUME NEW c \in clients PROVE \A p \in Pixels : Accounted(cl[c], p)'
    BY <1>0, <2>1, <2>2, OtherAccounted DEF Accounted, Current
  <2> QED
    BY <2>1, <2>3
<1>5. ASSUME NEW buffer \in Buffers, NewFramebuffer(buffer) PROVE Coherent'
  <2>1. clients' = clients /\ \A c \in clients : cl'[c] = Renew(cl[c])
    BY <1>0, <1>5 DEF NewFramebuffer
  <2>2. ASSUME NEW c \in clients PROVE \A p \in Pixels : Accounted(cl[c], p)'
    BY <1>0, <2>1, OtherAccounted DEF Accounted, Current
  <2> QED
    BY <2>1, <2>2
\* The rest concerns one client.
<1>6. ASSUME NEW c \in Clients, NEW after, cl' = [cl EXCEPT ![c] = after],
             fb' = fb, cursor' = cursor, clients' \subseteq clients \cup {c},
             c \in clients' => \A p \in Pixels : Accounted(after, p)'
      PROVE  Coherent'
  <2>1. ASSUME NEW other \in clients', NEW p \in Pixels PROVE Accounted(cl[other], p)'
    <3>1. CASE other = c
      BY <1>0, <1>6, <2>1, <3>1 DEF Accounted, Current
    <3>2. CASE other # c
      BY <1>0, <1>6, <2>1, <3>2 DEF Accounted, Current
    <3> QED
      BY <3>1, <3>2
  <2> QED
    BY <2>1
<1>7. ASSUME NEW c \in Clients, NewStreamClient(c) PROVE Coherent'
  <2>1. PICK hold \in BOOLEAN, pending \in BOOLEAN, deferring \in BOOLEAN :
          cl' = [cl EXCEPT ![c] = NewClient(hold, pending, deferring)]
    BY <1>7 DEF NewStreamClient
  <2>2. fb' = fb /\ cursor' = cursor /\ clients' = clients \cup {c}
    BY <1>7 DEF NewStreamClient
  <2>3. \A after : after = NewClient(hold, pending, deferring)
                     => \A p \in Pixels : Accounted(after, p)'
    BY NewClientAccounted DEF Accounted, Current
  <2> QED
    BY <1>6, <2>1, <2>2, <2>3 DEF Accounted, Current
<1>8. ASSUME NEW c \in Clients, ClientConnectionGone(c) PROVE Coherent'
  BY <1>6, <1>8 DEF ClientConnectionGone
<1>9. ASSUME NEW c \in clients, NEW after, cl' = [cl EXCEPT ![c] = after],
             fb' = fb, cursor' = cursor, clients' = clients,
             \/ \E S \in SUBSET Pixels, incremental \in BOOLEAN : after = Request(cl[c], S, incremental)
             \/ \E e \in EncodingFlags : after = Encoded(cl[c], e)
             \/ \E running \in BOOLEAN : after = Deferring(cl[c], running)
             \/ after = [cl[c] EXCEPT !.onHold = FALSE]
      PROVE  Coherent'
  <2>1. \A p \in Pixels : Accounted(after, p)'
    BY <1>0, <1>9, OtherAccounted DEF Accounted, Current
  <2> QED
    BY <1>0, <1>6, <1>9, <2>1 DEF Accounted, Current
<1>10. ASSUME NEW c \in Clients, NEW S \in Requests, NEW incremental \in BOOLEAN,
              FramebufferUpdateRequest(c, S, incremental)
       PROVE  Coherent'
  BY <1>9, <1>10, ConstantsAssumption DEF FramebufferUpdateRequest
<1>11. ASSUME NEW c \in Clients, NEW e \in Encodings, SetEncodings(c, e) PROVE Coherent'
  BY <1>9, <1>11, ConstantsAssumption DEF SetEncodings
<1>12. ASSUME NEW c \in Clients, StartDeferring(c) PROVE Coherent'
  BY <1>9, <1>12 DEF StartDeferring
<1>13. ASSUME NEW c \in Clients, StartOnHoldClient(c) PROVE Coherent'
  <2>1. /\ c \in clients /\ fb' = fb /\ cursor' = cursor /\ clients' = clients
        /\ cl' = [cl EXCEPT ![c] = [cl[c] EXCEPT !.onHold = FALSE]]
    BY <1>13 DEF StartOnHoldClient
  <2> QED
    BY <1>9, <2>1
<1>14. ASSUME NEW c \in Clients, SendUpdate(c) PROVE Coherent'
  <2> DEFINE k == Deferring(cl[c], cl[c].deferring /\ ~DeferUpdates)
  <2>1. PICK pseudo \in BOOLEAN, boxed \in BOOLEAN, top \in SliceTops(cl[c]) :
          cl' = [cl EXCEPT ![c] = SendFramebufferUpdate(k, top, pseudo, boxed)]
    BY <1>14 DEF SendUpdate
  <2>2. c \in clients /\ fb' = fb /\ cursor' = cursor /\ clients' = clients
    BY <1>14 DEF SendUpdate
  <2>3. k \in ClientState /\ \A p \in Pixels : Accounted(k, p)
    BY <1>0, <2>2, DeferringAccounted
  <2> HIDE DEF k
  <2>4. \A after : after = SendFramebufferUpdate(k, top, pseudo, boxed)
                     => \A p \in Pixels : Accounted(after, p)'
    BY <2>2, <2>3, SendAccounted DEF Accounted, Current
  <2> QED
    BY <1>6, <2>1, <2>2, <2>4 DEF Accounted, Current
<1>15. CASE UNCHANGED vars
  BY <1>15 DEF vars, Accounted, Current
<1> QED
  BY <1>1, <1>2, <1>3, <1>4, <1>5, <1>7, <1>8, <1>10, <1>11, <1>12, <1>13, <1>14, <1>15
     DEF Next, Application, UpdateClient

\* For every screen, set of clients, cursor and sequence of operations: no
\* change is lost on the way to a viewer, as long as the regions passed to
\* rfbDoCopyRegion are rectangles.
THEOREM NothingLost ==
  ASSUME RectangularCopies
  PROVE  Spec => []Coherent
<1>1. Init => Coherent
  BY DEF Init, Coherent
<1>2. TypeOK /\ Coherent /\ [Next]_vars => Coherent'
  BY CoherentNext
<1> QED
  BY <1>1, <1>2, TypeCorrect, PTL DEF Spec

-----------------------------------------------------------------------------
(* The pipeline implements the lagging mirror.                             *)

LEMMA MirrorInit == Init => Mirror!Init
<1> SUFFICES ASSUME Init PROVE Mirror!Init
  OBVIOUS
<1>1. fb \in [Pixels -> Colours] /\ cursor \in Cursors
  BY ConstantsAssumption DEF Init
<1>2. NewClient(FALSE, FALSE, FALSE).view = [p \in Pixels |-> Blank]
  BY DEF NewClient
<1>3. \A c \in Clients : cl[c].view = [p \in Pixels |-> Blank]
  BY <1>2 DEF Init
<1> QED
  BY <1>1, <1>3 DEF Init, Mirror!Init, Mirror!Nothing

LEMMA MirrorNext ==
  TypeOK /\ TypeOK' /\ Coherent /\ [Next]_vars => [Mirror!Next]_Mirror!vars
<1> SUFFICES ASSUME TypeOK, TypeOK', Coherent, [Next]_vars PROVE [Mirror!Next]_Mirror!vars
  OBVIOUS
<1>0. /\ cl \in [Clients -> ClientState] /\ clients \subseteq Clients
      /\ fb' \in [Pixels -> Colours] /\ cursor' \in Cursors
      /\ \A c \in Clients : cl[c] \in ClientState
      /\ \A c \in clients, p \in Pixels : Accounted(cl[c], p)
  BY DEF TypeOK, Coherent
\* An operation of the application leaves every picture as it is.
<1>1. ASSUME clients' = clients, \A c \in Clients : cl'[c].view = cl[c].view
      PROVE  Mirror!Next
  BY <1>0, <1>1 DEF Mirror!Next, Mirror!Repaint
<1>2. CASE Application
  <2>1. \A k \in ClientState : \A S : Mark(k, S).view = k.view
    BY DEF Mark, ClientState
  <2>2. \A k \in ClientState : \A S, d : ScheduleCopy(k, S, d).view = k.view
    BY DEF ScheduleCopy, ClientState
  <2>3. \A k \in ClientState : \A image : Recursor(k, image).view = k.view
    BY <2>1 DEF Recursor
  <2>4. \A k \in ClientState : Renew(k).view = k.view
    BY DEF Renew, ClientState
  <2>5. clients' = clients
    BY <1>2 DEF Application, Draw, DoCopyRegion, ScheduleCopyRegion, MoveCursor,
                SetCursor, NewFramebuffer
  <2>6. \A c \in Clients : cl'[c].view = cl[c].view
    BY <1>0, <1>2, <2>1, <2>2, <2>3, <2>4
       DEF Application, Draw, DoCopyRegion, ScheduleCopyRegion, MoveCursor,
           SetCursor, NewFramebuffer
  <2> QED
    BY <1>1, <2>5, <2>6
<1>3. ASSUME NEW c \in Clients, NewStreamClient(c) PROVE Mirror!Next
  <2>1. PICK hold \in BOOLEAN, pending \in BOOLEAN, deferring \in BOOLEAN :
          cl' = [cl EXCEPT ![c] = NewClient(hold, pending, deferring)]
    BY <1>3 DEF NewStreamClient
  <2>2. NewClient(hold, pending, deferring).view = [p \in Pixels |-> Blank]
    BY DEF NewClient
  <2> QED
    BY <1>0, <1>3, <2>1, <2>2 DEF NewStreamClient, Mirror!Next, Mirror!Join, Mirror!Nothing
<1>4. ASSUME NEW c \in Clients, ClientConnectionGone(c) PROVE Mirror!Next
  <2>1. NewClient(FALSE, FALSE, FALSE).view = [p \in Pixels |-> Blank]
    BY DEF NewClient
  <2> QED
    BY <1>0, <1>4, <2>1 DEF ClientConnectionGone, Mirror!Next, Mirror!Leave, Mirror!Nothing
\* So does every message of a viewer.
<1>5. ASSUME NEW c \in Clients, StartOnHoldClient(c) PROVE Mirror!Next
  BY <1>0, <1>1, <1>5 DEF StartOnHoldClient, ClientState
<1>6. ASSUME NEW c \in Clients, NEW S \in Requests, NEW incremental \in BOOLEAN,
             FramebufferUpdateRequest(c, S, incremental)
      PROVE  Mirror!Next
  <2>1. Request(cl[c], S, incremental).view = cl[c].view
    BY <1>0 DEF Request, ClientState
  <2> QED
    BY <1>0, <1>1, <1>6, <2>1 DEF FramebufferUpdateRequest
<1>7. ASSUME NEW c \in Clients, NEW e \in Encodings, SetEncodings(c, e) PROVE Mirror!Next
  <2>1. Encoded(cl[c], e).view = cl[c].view
    BY <1>0 DEF Encoded, ClientState
  <2> QED
    BY <1>0, <1>1, <1>7, <2>1 DEF SetEncodings
<1>8. ASSUME NEW c \in Clients, StartDeferring(c) PROVE Mirror!Next
  <2>1. Deferring(cl[c], TRUE).view = cl[c].view
    BY <1>0 DEF Deferring, ClientState
  <2> QED
    BY <1>0, <1>1, <1>8, <2>1 DEF StartDeferring
\* An update is a refresh.
<1>9. ASSUME NEW c \in Clients, SendUpdate(c) PROVE Mirror!Next
  <2>1. PICK k \in ClientState, pseudo \in BOOLEAN, boxed \in BOOLEAN, top \in SliceTops(cl[c]) :
          /\ cl' = [cl EXCEPT ![c] = SendFramebufferUpdate(k, top, pseudo, boxed)]
          /\ k.view = cl[c].view
          /\ \A p \in Pixels : Accounted(k, p)
    <3>1. /\ Deferring(cl[c], cl[c].deferring /\ ~DeferUpdates) \in ClientState
          /\ \A p \in Pixels : Accounted(Deferring(cl[c], cl[c].deferring /\ ~DeferUpdates), p)
      BY <1>0, <1>9, DeferringAccounted DEF SendUpdate
    <3>2. \A b : Deferring(cl[c], b).view = cl[c].view
      BY <1>0 DEF Deferring, ClientState
    <3> QED
      BY <1>9, <3>1, <3>2 DEF SendUpdate
  <2> DEFINE after == SendFramebufferUpdate(k, top, pseudo, boxed)
             xy == IF k.enableCursorShapeUpdates THEN k.cursorXY ELSE cursorXY
  <2>2. \/ after.view = k.view
        \/ /\ after.view = Pushed(k, top, boxed)
           /\ after.cursorXY = xy
           /\ after.enableCursorShapeUpdates = k.enableCursorShapeUpdates
    <3>1. after = [k EXCEPT !.newFBSizePending = FALSE] => after.view = k.view
      BY DEF ClientState
    <3>2. after = [k EXCEPT !.copyRegion = PendingCopy(k), !.progressiveSliceY = NextSliceY(k, top)]
            => after.view = k.view
      BY DEF ClientState
    <3>3. \A left :
            after = [k EXCEPT
              !.modifiedRegion = left,
              !.copyRegion = {}, !.copyD = <<0, 0>>, !.requestedRegion = {},
              !.progressiveSliceY = NextSliceY(k, top),
              !.cursorXY = xy,
              !.view = Pushed(k, top, boxed)]
            => /\ after.view = Pushed(k, top, boxed)
               /\ after.cursorXY = xy
               /\ after.enableCursorShapeUpdates = k.enableCursorShapeUpdates
      <4> HIDE DEF after, xy
      <4> QED
        BY DEF ClientState
    <3> HIDE DEF after
    <3> QED
      BY <3>1, <3>2, <3>3 DEF SendFramebufferUpdate, after
  <2> HIDE DEF after
  <2>3. /\ c \in clients /\ clients' = clients /\ fb' = fb /\ cursor' = cursor
        /\ cl'[c] = after /\ \A other \in Clients \ {c} : cl'[other] = cl[other]
    BY <1>0, <1>9, <2>1 DEF SendUpdate, after
  <2>4. ASSUME NEW p \in Pixels
        PROVE  \/ cl'[c].view[p] = cl[c].view[p]
               \/ cl'[c].view[p] = fb[p]
               \/ /\ ~cl'[c].enableCursorShapeUpdates
                  /\ p \in CursorPainted(cursor, cl'[c].cursorXY)
                  /\ cl'[c].view[p] = cursor
    <3>1. CASE after.view = k.view
      BY <2>1, <2>3, <3>1
    <3>2. CASE after.view # k.view
      BY <2>1, <2>2, <2>3, <3>2, PushedUpToDate
    <3> QED
      BY <3>1, <3>2
  <2>5. Mirror!Refresh(c)
    BY <2>3, <2>4 DEF Mirror!Refresh, Mirror!UpToDate
  <2> QED
    BY <2>5 DEF Mirror!Next
<1>10. CASE UNCHANGED vars
  BY <1>10 DEF vars, Mirror!vars
<1> QED
  BY <1>2, <1>3, <1>4, <1>5, <1>6, <1>7, <1>8, <1>9, <1>10 DEF Next, UpdateClient

\* For every value of the constants: an update puts nothing into a viewer's
\* picture but what the screen shows there when it is pushed.
THEOREM ImplementsMirror ==
  ASSUME RectangularCopies
  PROVE  Spec => MirrorSpec
<1>1. TypeOK /\ TypeOK' /\ Coherent /\ [Next]_vars => [Mirror!Next]_Mirror!vars
  BY MirrorNext
<1> QED
  BY <1>1, MirrorInit, TypeCorrect, NothingLost, PTL DEF Spec, MirrorSpec, Mirror!Spec
=============================================================================
