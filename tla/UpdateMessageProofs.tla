------------------------ MODULE UpdateMessageProofs -------------------------
(* UpdateMessage, for all screens, pictures, regions, encodings, cursors and *)
(* bounds of the encoders that its assumptions allow.  A part of the stream  *)
(* serves a rectangle (Serve) when its rectangles, read whatever follows,    *)
(* show it as the framebuffer is; every encoder's output does (SentServed),  *)
(* notices (NoticedTold) and copies (CopiesSent) as well, and so what is     *)
(* written of an update can always be read (IInv), to the end (UpdateRead).  *)
EXTENDS UpdateMessageTerms, SequenceTheorems, FiniteSetTheorems, TLAPS

-----------------------------------------------------------------------------
(* Numbers, sets of numbers, sequences. *)

\* Induction up to n, over a set.
LEMMA Reached ==
  ASSUME NEW n \in Nat, NEW Q, 0 \in Q, \A i \in 0 .. n - 1 : i \in Q => i + 1 \in Q
  PROVE  \A i \in 0 .. n : i \in Q
<1> DEFINE Bad == {i \in Nat : i <= n /\ i \notin Q}
<1>1. SUFFICES ASSUME Bad # {} PROVE FALSE  OBVIOUS
<1>2. PICK k \in Bad : \A m \in Bad : ~(<<m, k>> \in OpToRel(<, Nat))
  <2>1. Bad \subseteq Nat  OBVIOUS
  <2> HIDE DEF Bad
  <2> QED  BY <1>1, <2>1, WFMin, NatLessThanWellFounded, Zenon
<1>3. \A x, y \in Nat : x < y => <<x, y>> \in OpToRel(<, Nat)  BY Zenon DEF OpToRel
<1>4. k \in Nat /\ k <= n /\ k \notin Q /\ k # 0  OBVIOUS
<1>5. k - 1 \in 0 .. n - 1 /\ k - 1 \in Nat /\ k - 1 < k /\ (k - 1) + 1 = k  BY <1>4
<1>6. k - 1 \notin Q  BY <1>4, <1>5
<1>7. k - 1 \in Bad  BY <1>4, <1>5, <1>6
<1> QED  BY <1>2, <1>3, <1>4, <1>5, <1>7

\* Numbers.
LEMMA DivMod ==
  ASSUME NEW a \in Int, NEW b \in Nat \ {0}
  PROVE  a \div b \in Int /\ a % b \in 0 .. b - 1 /\ a = (b * (a \div b)) + (a % b)  OBVIOUS

LEMMA DivIs ==
  ASSUME NEW b \in Nat \ {0}, NEW q \in Int, NEW s \in 0 .. b - 1
  PROVE  ((b * q) + s) \div b = q /\ ((b * q) + s) % b = s  OBVIOUS

LEMMA TimesMore ==
  ASSUME NEW a \in Nat, NEW b \in Nat, NEW c \in Nat, a <= b
  PROVE  a * c <= b * c /\ c * a <= c * b /\ a * c \in Nat  OBVIOUS

LEMMA Division ==
  ASSUME NEW a \in Int, NEW b \in Nat \ {0}, NEW q \in Int
  PROVE  q <= a \div b <=> q * b <= a  OBVIOUS

\* A set of numbers that is not empty and lies between two has a least and a greatest.
LEMMA Greatest ==
  ASSUME NEW T \in SUBSET Int, NEW a \in Int, NEW b \in Int, T # {}, \A t \in T : a <= t /\ t <= b
  PROVE  \E m \in T : \A t \in T : t <= m
<1> DEFINE n == b - a
           Q == {i \in 0 .. n : \/ \A t \in T : t > a + i
                                \/ \E m \in T : m <= a + i /\ \A t \in T : t <= a + i => t <= m}
<1>1. n \in Nat /\ a + n = b
  <2>1. PICK t \in T : TRUE  OBVIOUS
  <2>2. t \in Int /\ a <= t /\ t <= b  BY <2>1
  <2> QED  BY <2>2
<1>2. 0 \in Q
  <2>1. CASE a \in T  BY <1>1, <2>1
  <2>2. CASE a \notin T  BY <1>1, <2>2
  <2> QED  BY <2>1, <2>2
<1>3. ASSUME NEW i \in 0 .. n - 1, i \in Q PROVE i + 1 \in Q
  <2>1. i + 1 \in 0 .. n /\ a + (i + 1) = a + i + 1  BY <1>1
  <2>2. CASE a + i + 1 \in T  BY <2>1, <2>2
  <2>3. CASE a + i + 1 \notin T
    <3>1. \A t \in T : t <= a + (i + 1) <=> t <= a + i  BY <2>3
    <3> QED  BY <1>3, <2>1, <3>1
  <2> QED  BY <2>2, <2>3
<1>4. n \in Q
  <2>1. \A k \in 0 .. n : k \in Q
    <3> HIDE DEF Q, n
    <3> QED  BY <1>1, <1>2, <1>3, Reached
  <2> HIDE DEF Q, n
  <2> QED  BY <1>1, <2>1
<1>5. \/ \A t \in T : t > b
      \/ \E m \in T : m <= b /\ \A t \in T : t <= b => t <= m
  <2> HIDE DEF n
  <2> QED  BY <1>1, <1>4
<1>6. \A t \in T : t \in Int /\ t <= b /\ ~(t > b)  OBVIOUS
<1> QED  BY <1>5, <1>6

\* Min and Max of the community modules, where there are such.
LEMMA Extremes ==
  ASSUME NEW T \in SUBSET Int, NEW a \in Int, NEW b \in Int, T # {}, \A t \in T : a <= t /\ t <= b
  PROVE  /\ Min(T) \in T /\ \A t \in T : Min(T) <= t
         /\ Max(T) \in T /\ \A t \in T : t <= Max(T)
<1>1. \E m \in T : \A t \in T : t <= m  BY Greatest
<1>2. \E m \in T : \A t \in T : m <= t
  <2> DEFINE N == {s \in Int : -s \in T}
  <2>1. N \in SUBSET Int /\ \A t \in N : -b <= t /\ t <= -a  OBVIOUS
  <2>5. \A t \in T : -t \in N  OBVIOUS
  <2>6. N # {}  BY <2>5
  <2>2. PICK m \in N : \A t \in N : t <= m
    <3> HIDE DEF N
    <3>1. -b \in Int /\ -a \in Int  OBVIOUS
    <3> QED  BY <2>1, <2>6, <3>1, Greatest
  <2>3. -m \in T /\ m \in Int  BY <2>2
  <2>4. \A s \in T : s \in Int /\ -s <= m  BY <2>2, <2>5
  <2> QED  BY <2>3, <2>4
<1> QED  BY <1>1, <1>2 DEF Min, Max

-----------------------------------------------------------------------------
(* What is written. *)

\* The fields of the record, one changed at a time.
LEMMA OutFields ==
  ASSUME NEW u, NEW h, NEW k, NEW s, NEW d, NEW x
  PROVE  /\ [Out(u, h, k, s, d) EXCEPT !.ublen = x] = Out(x, h, k, s, d)
         /\ [Out(u, h, k, s, d) EXCEPT !.items = x] = Out(u, h, k, x, d)
         /\ [Out(u, h, k, s, d) EXCEPT !.headers = x] = Out(u, h, x, s, d)
         /\ [Out(u, h, k, s, d) EXCEPT !.high = x] = Out(u, x, k, s, d)
         /\ [Out(u, h, k, s, d) EXCEPT !.deflated = x] = Out(u, h, k, s, x)
         /\ Out(u, h, k, s, d).ublen = u /\ Out(u, h, k, s, d).high = h /\ Out(u, h, k, s, d).headers = k
         /\ Out(u, h, k, s, d).items = s /\ Out(u, h, k, s, d).deflated = d  BY DEF Out

\* What EncodingAssumption says of the sizes.
LEMMA Sizes ==
  /\ UPDATE_BUF_SIZE \in Nat \ {0} /\ HextileSize \in Nat \ {0} /\ CorreMax \in Nat \ {0}
  /\ MaxStripSize \in Nat \ {0} /\ MinSplitRect \in Nat \ {0} /\ MaxSplitTile \in Nat \ {0}
  /\ MinSolidSubrect \in Nat \ {0} /\ MaxRectSize \in Nat \ {0} /\ MaxRectWidth \in Nat \ {0}
  /\ ColorsDivisor \in Nat \ {0} /\ MonoMinRect \in Nat \ {0}
  /\ MaxRectWidth <= MaxRectSize /\ 26 <= UPDATE_BUF_SIZE
<1>1. 18 + 2 * 4 <= UPDATE_BUF_SIZE  BY EncodingAssumption
<1>2. \A n \in {UPDATE_BUF_SIZE, HextileSize, CorreMax, MaxStripSize, MinSplitRect, MaxSplitTile,
               MinSolidSubrect, MaxRectSize, MaxRectWidth, ColorsDivisor, MonoMinRect} :
       n \in Nat \ {0}  BY EncodingAssumption
<1> QED  BY <1>1, <1>2, EncodingAssumption

\* A sequence with one more.
LEMMA Appended ==
  ASSUME NEW s, IsSeq(s), NEW e
  PROVE  /\ IsSeq(Append(s, e)) /\ Len(s) \in Nat /\ Len(Append(s, e)) = Len(s) + 1
         /\ Append(s, e)[Len(s) + 1] = e /\ Extends(Append(s, e), s)
         /\ DOMAIN s = 1 .. Len(s) /\ DOMAIN Append(s, e) = 1 .. Len(s) + 1
<1>1. PICK S : s \in Seq(S)  BY DEF IsSeq
<1>2. s \in Seq(S \cup {e}) /\ e \in S \cup {e}  BY <1>1
<1>3. Append(s, e) \in Seq(S \cup {e})  BY <1>2
<1>4. /\ Len(s) \in Nat /\ Len(Append(s, e)) = Len(s) + 1
      /\ Append(s, e)[Len(s) + 1] = e /\ \A i \in 1 .. Len(s) : Append(s, e)[i] = s[i]
      /\ DOMAIN s = 1 .. Len(s) /\ DOMAIN Append(s, e) = 1 .. Len(s) + 1  BY <1>2
<1> QED  BY <1>3, <1>4 DEF IsSeq, Extends

LEMMA ExtendsMore ==
  ASSUME NEW s, NEW t, NEW u, IsSeq(s), IsSeq(t), IsSeq(u), Extends(t, s), Extends(u, t)
  PROVE  Extends(u, s)
<1>1. Len(s) \in Nat /\ Len(t) \in Nat /\ Len(u) \in Nat  BY Appended
<1> QED  BY <1>1 DEF Extends

LEMMA OutIs ==
  ASSUME NEW u \in 0 .. UPDATE_BUF_SIZE, NEW h \in 4 .. UPDATE_BUF_SIZE, NEW k \in Nat, NEW s,
         NEW d \in [Streams -> Nat], IsSeq(s), k <= Len(s)
  PROVE  IsOut(Out(u, h, k, s, d))
<1> DEFINE o == Out(u, h, k, s, d)
<1>1. o.ublen = u /\ o.high = h /\ o.headers = k /\ o.items = s /\ o.deflated = d  BY OutFields
<1>2. o = Out(o.ublen, o.high, o.headers, o.items, o.deflated)  BY <1>1
<1> HIDE DEF o
<1>3. IsOut(o)  BY <1>1, <1>2 DEF IsOut
<1> QED  BY <1>3 DEF o

\* What each of the steps that all encoders are made of does to the record.
LEMMA FlushIs ==
  ASSUME NEW o, IsOut(o)
  PROVE  LET q == rfbSendUpdateBuf(o) IN IsOut(q) /\ Quiet(o, q) /\ q.ublen = 0
<1>0. /\ o = Out(o.ublen, o.high, o.headers, o.items, o.deflated)
      /\ o.ublen \in 0 .. UPDATE_BUF_SIZE /\ o.high \in 4 .. UPDATE_BUF_SIZE
      /\ IsSeq(o.items) /\ o.deflated \in [Streams -> Nat]
      /\ o.headers \in Nat /\ o.headers <= Len(o.items)  BY DEF IsOut
<1>1. rfbSendUpdateBuf(o) = Out(0, o.high, o.headers, o.items, o.deflated)  BY <1>0, OutFields DEF rfbSendUpdateBuf
<1>2. 0 \in 0 .. UPDATE_BUF_SIZE  BY Sizes
<1>3. IsOut(Out(0, o.high, o.headers, o.items, o.deflated))  BY <1>2, <1>0, OutIs
<1> QED  BY <1>1, <1>3, OutFields DEF Quiet

LEMMA RoomIs ==
  ASSUME NEW o, IsOut(o), NEW n \in 0 .. UPDATE_BUF_SIZE
  PROVE  IsOut(Room(o, n)) /\ Quiet(o, Room(o, n)) /\ Room(o, n).ublen + n <= UPDATE_BUF_SIZE
<1>1. CASE o.ublen + n > UPDATE_BUF_SIZE  BY <1>1, FlushIs, Sizes DEF Room
<1>2. CASE ~(o.ublen + n > UPDATE_BUF_SIZE)
  <2>1. Room(o, n) = o  BY <1>2 DEF Room
  <2>2. o.ublen \in 0 .. UPDATE_BUF_SIZE  BY DEF IsOut
  <2> QED  BY <1>2, <2>1, <2>2, Sizes DEF Quiet
<1> QED  BY <1>1, <1>2

LEMMA PutIs ==
  ASSUME NEW o, IsOut(o), NEW item, NEW n \in Nat, o.ublen + n <= UPDATE_BUF_SIZE
  PROVE  IsOut(Put(o, item, n)) /\ Adds(o, Put(o, item, n), item) /\ Put(o, item, n).ublen = o.ublen + n
<1>0. /\ o = Out(o.ublen, o.high, o.headers, o.items, o.deflated)
      /\ o.ublen \in 0 .. UPDATE_BUF_SIZE /\ o.high \in 4 .. UPDATE_BUF_SIZE
      /\ IsSeq(o.items) /\ o.deflated \in [Streams -> Nat]
      /\ o.headers \in Nat /\ o.headers <= Len(o.items)  BY DEF IsOut
<1> DEFINE m == o.ublen + n  t == Append(o.items, item)  y == Peak(o, o.ublen + n)
           a == [o EXCEPT !.ublen = m]  b == [a EXCEPT !.items = t]  c == [b EXCEPT !.high = y]
<1>1. Put(o, item, n) = c  BY DEF Put
<1>2. m \in 0 .. UPDATE_BUF_SIZE /\ y \in 4 .. UPDATE_BUF_SIZE  BY <1>0, Sizes DEF Peak
<1>3. IsSeq(t) /\ o.headers <= Len(t)  BY <1>0, Appended
<1> HIDE DEF m, t, y
<1>4. a = Out(m, o.high, o.headers, o.items, o.deflated)  BY <1>0, OutFields
<1> HIDE DEF a
<1>5. b = Out(m, o.high, o.headers, t, o.deflated)  BY <1>4, OutFields
<1> HIDE DEF b
<1>6. c = Out(m, y, o.headers, t, o.deflated)  BY <1>5, OutFields
<1>7. IsOut(c)  BY <1>2, <1>3, <1>6, <1>0, OutIs
<1> HIDE DEF c
<1>8. c.ublen = m /\ c.headers = o.headers /\ c.items = t /\ c.deflated = o.deflated  BY <1>6, OutFields
<1> QED  BY <1>1, <1>7, <1>8 DEF Adds, m, t

LEMMA HeaderIs ==
  ASSUME NEW o, IsOut(o), NEW r, NEW enc, o.ublen + 12 <= UPDATE_BUF_SIZE
  PROVE  LET q == Header(o, r, enc)
         IN  /\ IsOut(q) /\ q.headers = o.headers + 1 /\ q.items = Append(o.items, <<"rect", r, enc>>)
             /\ q.deflated = o.deflated /\ q.ublen = o.ublen + 12
<1>0. /\ o = Out(o.ublen, o.high, o.headers, o.items, o.deflated)
      /\ o.ublen \in 0 .. UPDATE_BUF_SIZE /\ o.high \in 4 .. UPDATE_BUF_SIZE
      /\ IsSeq(o.items) /\ o.deflated \in [Streams -> Nat]
      /\ o.headers \in Nat /\ o.headers <= Len(o.items)  BY DEF IsOut
<1> DEFINE p == Put(o, <<"rect", r, enc>>, 12)  q == Header(o, r, enc)
<1>1. IsOut(p) /\ Adds(o, p, <<"rect", r, enc>>) /\ p.ublen = o.ublen + 12  BY PutIs
<1>2. q = [p EXCEPT !.headers = p.headers + 1]  BY DEF Header, sz_rfbFramebufferUpdateRectHeader
<1> HIDE DEF p, q
<1>8. /\ p = Out(p.ublen, p.high, p.headers, p.items, p.deflated)
      /\ p.ublen \in 0 .. UPDATE_BUF_SIZE /\ p.high \in 4 .. UPDATE_BUF_SIZE
      /\ IsSeq(p.items) /\ p.deflated \in [Streams -> Nat]  BY <1>1 DEF IsOut
<1>3. q = Out(p.ublen, p.high, p.headers + 1, p.items, p.deflated)  BY <1>2, <1>8, OutFields
<1>4. p.headers = o.headers /\ p.items = Append(o.items, <<"rect", r, enc>>) /\ p.deflated = o.deflated
  BY <1>1 DEF Adds
<1>5. Len(p.items) = Len(o.items) + 1 /\ Len(o.items) \in Nat  BY <1>0, <1>4, Appended
<1>6. p.headers + 1 <= Len(p.items) /\ p.headers + 1 \in Nat  BY <1>0, <1>4, <1>5
<1>7. IsOut(q)  BY <1>3, <1>6, <1>8, OutIs
<1>9. q.ublen = p.ublen /\ q.headers = p.headers + 1 /\ q.items = p.items /\ q.deflated = p.deflated
  BY <1>3, OutFields
<1> QED  BY <1>1, <1>4, <1>7, <1>9 DEF q

LEMMA CopiedIs ==
  ASSUME NEW o, IsOut(o), NEW item, NEW n \in Nat
  PROVE  IsOut(Copied(o, item, n)) /\ Adds(o, Copied(o, item, n), item)
<1>0. /\ o = Out(o.ublen, o.high, o.headers, o.items, o.deflated)
      /\ o.ublen \in 0 .. UPDATE_BUF_SIZE /\ o.high \in 4 .. UPDATE_BUF_SIZE
      /\ IsSeq(o.items) /\ o.deflated \in [Streams -> Nat]
      /\ o.headers \in Nat /\ o.headers <= Len(o.items)  BY DEF IsOut
<1> DEFINE m == IF n = 0 THEN o.ublen ELSE (o.ublen + n) % UPDATE_BUF_SIZE
           t == Append(o.items, item)  y == Peak(o, Lesser(o.ublen + n, UPDATE_BUF_SIZE))
           a == [o EXCEPT !.items = t]  b == [a EXCEPT !.high = y]  c == [b EXCEPT !.ublen = m]
<1>1. Copied(o, item, n) = c  BY DEF Copied
<1>2. y \in 4 .. UPDATE_BUF_SIZE  BY <1>0, Sizes DEF Peak, Lesser
<1>3. m \in 0 .. UPDATE_BUF_SIZE
  <2>1. o.ublen \in 0 .. UPDATE_BUF_SIZE /\ o.ublen + n \in Int  BY DEF IsOut
  <2>2. (o.ublen + n) % UPDATE_BUF_SIZE \in 0 .. UPDATE_BUF_SIZE - 1  BY <2>1, Sizes, DivMod
  <2> QED  BY <2>1, <2>2, Sizes
<1>4. IsSeq(t) /\ o.headers <= Len(t)  BY <1>0, Appended
<1> HIDE DEF m, t, y
<1>5. a = Out(o.ublen, o.high, o.headers, t, o.deflated)  BY <1>0, OutFields
<1> HIDE DEF a
<1>6. b = Out(o.ublen, y, o.headers, t, o.deflated)  BY <1>5, OutFields
<1> HIDE DEF b
<1>7. c = Out(m, y, o.headers, t, o.deflated)  BY <1>6, OutFields
<1>8. IsOut(c)  BY <1>2, <1>3, <1>4, <1>7, <1>0, OutIs
<1> HIDE DEF c
<1>9. c.headers = o.headers /\ c.items = t /\ c.deflated = o.deflated  BY <1>7, OutFields
<1> QED  BY <1>1, <1>8, <1>9 DEF Adds, t

LEMMA DeflateIs ==
  ASSUME NEW o, IsOut(o), NEW s \in Streams
  PROVE  LET q == Deflate(o, s)
         IN  /\ IsOut(q) /\ q.headers = o.headers /\ q.items = o.items /\ q.ublen = o.ublen
             /\ q.deflated = [o.deflated EXCEPT ![s] = @ + 1]
<1>0. /\ o = Out(o.ublen, o.high, o.headers, o.items, o.deflated)
      /\ o.ublen \in 0 .. UPDATE_BUF_SIZE /\ o.high \in 4 .. UPDATE_BUF_SIZE
      /\ IsSeq(o.items) /\ o.deflated \in [Streams -> Nat]
      /\ o.headers \in Nat /\ o.headers <= Len(o.items)  BY DEF IsOut
<1> DEFINE d == [o.deflated EXCEPT ![s] = @ + 1]
<1>1. Deflate(o, s) = [o EXCEPT !.deflated = d]  BY DEF Deflate
<1>2. d \in [Streams -> Nat]  BY DEF IsOut
<1> HIDE DEF d
<1>3. Deflate(o, s) = Out(o.ublen, o.high, o.headers, o.items, d)  BY <1>1, <1>0, OutFields
<1>4. IsOut(Deflate(o, s))  BY <1>2, <1>3, <1>0, OutIs
<1> QED  BY <1>3, <1>4, OutFields DEF d

-----------------------------------------------------------------------------
(* What is read. *)

\* The fields of a viewer.
LEMMA ViewingIs ==
  ASSUME NEW pic, NEW items, NEW at, NEW ok, NEW ended, NEW inf, NEW x
  PROVE  LET v == Viewing(pic, items, at, ok, ended, inf)
         IN  /\ v.pic = pic /\ v.items = items /\ v.at = at /\ v.ok = ok /\ v.ended = ended /\ v.inflated = inf
             /\ [v EXCEPT !.pic = x] = Viewing(x, items, at, ok, ended, inf)
             /\ [v EXCEPT !.at = x] = Viewing(pic, items, x, ok, ended, inf)
             /\ [v EXCEPT !.ok = x] = Viewing(pic, items, at, x, ended, inf)
             /\ [v EXCEPT !.ended = x] = Viewing(pic, items, at, ok, x, inf)
             /\ [v EXCEPT !.inflated = x] = Viewing(pic, items, at, ok, ended, x)  BY DEF Viewing

LEMMA ViewWith ==
  ASSUME NEW items, NEW pic, NEW at, NEW inf, NEW x
  PROVE  LET v == View(items, pic, at, inf)
         IN  /\ [v EXCEPT !.pic = x] = View(items, x, at, inf)
             /\ [v EXCEPT !.inflated = x] = View(items, pic, at, x)
             /\ [v EXCEPT !.at = x] = View(items, pic, x, inf)  BY ViewingIs DEF View

LEMMA ViewFields ==
  ASSUME NEW items, NEW pic, NEW at, NEW inf
  PROVE  LET v == View(items, pic, at, inf)
         IN  v.pic = pic /\ v.items = items /\ v.at = at /\ v.ok = Yes /\ v.ended = No /\ v.inflated = inf
  BY ViewingIs DEF View

LEMMA ViewIs ==
  ASSUME NEW items, NEW pic, NEW at, NEW inf
  PROVE  LET v == View(items, pic, at, inf)
         IN  Took(v) = View(items, pic, at + 1, inf) /\ Left(v) = Len(items) - at + 1
<1> DEFINE v == View(items, pic, at, inf)
<1>1. v.pic = pic /\ v.items = items /\ v.at = at /\ v.ok = Yes /\ v.ended = No /\ v.inflated = inf  BY ViewFields
<1>2. ASSUME NEW k PROVE [v EXCEPT !.at = k] = View(items, pic, k, inf)  BY ViewingIs DEF View
<1> HIDE DEF v
<1>3. Took(v) = [v EXCEPT !.at = v.at + 1]  BY DEF Took
<1>4. Took(v) = View(items, pic, at + 1, inf)  BY <1>1, <1>2, <1>3
<1>5. Left(v) = Len(items) - at + 1  BY <1>1 DEF Left
<1> QED  BY <1>4, <1>5 DEF v

\* What is read next.
LEMMA NextIs ==
  ASSUME NEW items, NEW pic, NEW at, NEW inf, IsSeq(items), at \in 1 .. Len(items)
  PROVE  Next1(View(items, pic, at, inf)) = items[at]
<1> DEFINE v == View(items, pic, at, inf)
<1>1. v.items = items /\ v.at = at /\ Left(v) = Len(items) - at + 1  BY ViewIs, ViewFields
<1>2. Len(items) \in Nat  BY Appended
<1> HIDE DEF v
<1>3. Left(v) # 0  BY <1>1, <1>2
<1> QED  BY <1>1, <1>3 DEF Next1, v

\* A rectangle's header.
LEMMA HeaderRead ==
  ASSUME NEW items, NEW pic, NEW at, NEW inf, IsSeq(items), at \in 1 .. Len(items),
         NEW r, NEW enc, items[at] = <<"rect", r, enc>>, enc # "last"
  PROVE  HandleRect(View(items, pic, at, inf)) = Handle(View(items, pic, at + 1, inf), r, enc)
<1> DEFINE v == View(items, pic, at, inf)
<1>1. Next1(v) = <<"rect", r, enc>>  BY NextIs
<1>2. v.ok = Yes /\ v.ended = No /\ Took(v) = View(items, pic, at + 1, inf)  BY ViewIs, ViewFields
<1> HIDE DEF v
<1>3. Next1(v)[1] = "rect" /\ Next1(v)[2] = r /\ Next1(v)[3] = enc  BY <1>1
<1>4. HandleRect(v) = Handle(Took(v), r, enc)  BY <1>2, <1>3 DEF HandleRect, Yes, No
<1> QED  BY <1>2, <1>4 DEF v

\* A viewer with a picture is a Reader.
LEMMA Readers ==
  ASSUME NEW pic \in Seen, NEW items, NEW at, NEW ended, NEW inf
  PROVE  Reader(Viewing(pic, items, at, Yes, ended, inf)) /\ Reader(View(items, pic, at, inf))
<1>1. ASSUME NEW x PROVE Reader(Viewing(pic, items, at, Yes, x, inf))
  <2> DEFINE v == Viewing(pic, items, at, Yes, x, inf)
  <2>1. v.pic = pic  BY DEF Viewing
  <2>2. "ok" \in DOMAIN v  BY DEF Viewing
  <2> HIDE DEF v
  <2> QED  BY <2>1, <2>2 DEF Reader, v
<1> QED  BY <1>1 DEF View

\* Reading goes on where it ended.
LEMMA TurningBoth ==
  ASSUME NEW u, NEW v, NEW w, NEW m \in Nat, NEW n \in Nat, Turning(u, m, v), Turning(v, n, w)
  PROVE  Turning(u, m + n, w)
<1>1. PICK f : /\ f[0] = u /\ f[m] = v /\ \A i \in 1 .. m : f[i] = HandleRect(f[i - 1])
               /\ \A i \in 0 .. m : Reader(f[i])  BY DEF Turning
<1>2. PICK g : /\ g[0] = v /\ g[n] = w /\ \A i \in 1 .. n : g[i] = HandleRect(g[i - 1])
               /\ \A i \in 0 .. n : Reader(g[i])  BY DEF Turning
<1> DEFINE h == [i \in 0 .. m + n |-> IF i <= m THEN f[i] ELSE g[i - m]]
<1>3. \A i \in 0 .. m : h[i] = f[i]  OBVIOUS
<1>4. \A i \in m .. m + n : h[i] = g[i - m]
  <2>1. h[m] = g[m - m]  BY <1>1, <1>2
  <2>2. \A i \in m + 1 .. m + n : h[i] = g[i - m]  OBVIOUS
  <2> HIDE DEF h
  <2> QED  BY <2>1, <2>2
<1> HIDE DEF h
<1>5. h[0] = u /\ h[m + n] = w  BY <1>1, <1>2, <1>3, <1>4
<1>6. ASSUME NEW i \in 1 .. m + n PROVE h[i] = HandleRect(h[i - 1])
  <2>1. CASE i <= m  BY <1>1, <1>3, <2>1
  <2>2. CASE i > m
    <3>1. i - m \in 1 .. n /\ i - 1 \in m .. m + n /\ (i - 1) - m = (i - m) - 1 /\ i \in m .. m + n  BY <2>2
    <3> QED  BY <1>2, <1>4, <3>1
  <2> QED  BY <2>1, <2>2
<1>7. ASSUME NEW i \in 0 .. m + n PROVE Reader(h[i])
  <2>1. CASE i <= m  BY <1>1, <1>3, <2>1
  <2>2. CASE i > m
    <3>1. i - m \in 0 .. n /\ i \in m .. m + n  BY <2>2
    <3> QED  BY <1>2, <1>4, <3>1
  <2> QED  BY <2>1, <2>2
<1> QED  BY <1>5, <1>6, <1>7 DEF Turning

\* One rectangle is read in one turn.
LEMMA TurningOne ==
  ASSUME NEW v, Reader(v), Reader(HandleRect(v))
  PROVE  Turning(v, 0, v) /\ Turning(v, 1, HandleRect(v))
<1>1. Turning(v, 0, v)
  <2> DEFINE g == [i \in 0 .. 0 |-> v]
  <2>1. g[0] = v /\ (\A i \in 1 .. 0 : g[i] = HandleRect(g[i - 1])) /\ \A i \in 0 .. 0 : Reader(g[i])  OBVIOUS
  <2> HIDE DEF g
  <2> QED  BY <2>1 DEF Turning
<1>2. Turning(v, 1, HandleRect(v))
  <2> DEFINE g == [i \in 0 .. 1 |-> IF i = 0 THEN v ELSE HandleRect(v)]
  <2>1. g[0] = v /\ g[1] = HandleRect(v)  OBVIOUS
  <2> HIDE DEF g
  <2>2. (\A i \in 1 .. 1 : g[i] = HandleRect(g[i - 1])) /\ \A i \in 0 .. 1 : Reader(g[i])  BY <2>1
  <2> QED  BY <2>1, <2>2 DEF Turning
<1> QED  BY <1>1, <1>2

\* Drawing one part after the other is drawing both.
LEMMA OverlayIs ==
  ASSUME NEW scr \in Pictures, NEW pic \in Seen, NEW C, NEW D
  PROVE  /\ Overlay(pic, D, scr) \in Seen /\ Overlay(pic, {}, scr) = pic
         /\ Overlay(Overlay(pic, C, scr), D, scr) = Overlay(pic, C \cup D, scr)
<1>1. Overlay(pic, D, scr) \in Seen  BY DEF Overlay, Seen, Pictures
<1>2. Overlay(pic, {}, scr) = pic  BY DEF Overlay, Seen
<1>3. Overlay(Overlay(pic, C, scr), D, scr) = Overlay(pic, C \cup D, scr)  BY DEF Overlay
<1> QED  BY <1>1, <1>2, <1>3

\* A rectangle that is read as it should serves its points.
LEMMA ServeOne ==
  ASSUME NEW scr \in Pictures, NEW o, NEW q, NEW D, IsOut(o), IsOut(q), q.headers = o.headers + 1, Extends(q.items, o.items),
         \A items, pic : IsSeq(items) /\ Extends(items, q.items) /\ pic \in Seen =>
           HandleRect(View(items, pic, Len(o.items) + 1, o.deflated))
             = View(items, Overlay(pic, D, scr), Len(q.items) + 1, q.deflated)
  PROVE  Serve(scr, o, q, D)
<1>1. o.headers \in Nat  BY DEF IsOut
<1>2. ASSUME NEW items, NEW pic, IsSeq(items), Extends(items, q.items), pic \in Seen
      PROVE  Turning(View(items, pic, Len(o.items) + 1, o.deflated), q.headers - o.headers,
               View(items, Overlay(pic, D, scr), Len(q.items) + 1, q.deflated))
  <2> DEFINE v == View(items, pic, Len(o.items) + 1, o.deflated)
             w == View(items, Overlay(pic, D, scr), Len(q.items) + 1, q.deflated)
  <2>1. HandleRect(v) = w  BY <1>2
  <2>3. Overlay(pic, D, scr) \in Seen  BY <1>2, OverlayIs
  <2>2. Reader(v) /\ Reader(w)  BY <1>2, <2>3, Readers
  <2> HIDE DEF v, w
  <2>4. Turning(v, 1, w)  BY <2>1, <2>2, TurningOne
  <2> QED  BY <1>1, <2>4 DEF v, w
<1> QED  BY <1>1, <1>2 DEF Serve

LEMMA ServeNothing ==
  ASSUME NEW scr \in Pictures, NEW o, NEW q, IsOut(o), IsOut(q), Quiet(o, q)
  PROVE  Serve(scr, o, q, {})
<1>1. o.headers \in Nat /\ q.headers = o.headers /\ q.items = o.items /\ q.deflated = o.deflated /\ q.headers - o.headers = 0
  BY DEF IsOut, Quiet
<1>2. ASSUME NEW items, NEW pic, IsSeq(items), Extends(items, q.items), pic \in Seen
      PROVE  Turning(View(items, pic, Len(o.items) + 1, o.deflated), q.headers - o.headers,
               View(items, Overlay(pic, {}, scr), Len(q.items) + 1, q.deflated))
  <2> DEFINE v == View(items, pic, Len(o.items) + 1, o.deflated)
  <2>1. Reader(v) /\ Overlay(pic, {}, scr) = pic  BY <1>2, Readers, OverlayIs
  <2>2. Turning(v, 0, v)
    <3> DEFINE g == [i \in 0 .. 0 |-> v]
    <3>1. g[0] = v  OBVIOUS
    <3> HIDE DEF g, v
    <3>2. (\A i \in 1 .. 0 : g[i] = HandleRect(g[i - 1])) /\ \A i \in 0 .. 0 : Reader(g[i])  BY <1>2, <2>1, <3>1
    <3> QED  BY <3>1, <3>2 DEF Turning
  <2> QED  BY <1>1, <2>1, <2>2
<1>3. Extends(q.items, o.items)  BY <1>1, Appended DEF Extends, IsOut
<1> QED  BY <1>1, <1>2, <1>3 DEF Serve

\* What serves D and is followed by what serves E serves both.
LEMMA ServeBoth ==
  ASSUME NEW scr \in Pictures, NEW o, NEW p, NEW q, NEW C, NEW D, IsOut(o), Serve(scr, o, p, C), Serve(scr, p, q, D)
  PROVE  Serve(scr, o, q, C \cup D)
<1>1. /\ IsOut(p) /\ o.headers <= p.headers /\ Extends(p.items, o.items)
      /\ IsOut(q) /\ p.headers <= q.headers /\ Extends(q.items, p.items)  BY DEF Serve
<1>2. o.headers \in Nat /\ p.headers \in Nat /\ q.headers \in Nat /\ IsSeq(o.items) /\ IsSeq(p.items) /\ IsSeq(q.items)
  BY <1>1 DEF IsOut
<1>3. Extends(q.items, o.items)  BY <1>1, <1>2, ExtendsMore
<1>4. ASSUME NEW items, NEW pic, IsSeq(items), Extends(items, q.items), pic \in Seen
      PROVE  Turning(View(items, pic, Len(o.items) + 1, o.deflated), q.headers - o.headers,
               View(items, Overlay(pic, C \cup D, scr), Len(q.items) + 1, q.deflated))
  <2> DEFINE mid == Overlay(pic, C, scr)
  <2>1. Extends(items, p.items) /\ mid \in Seen /\ Overlay(mid, D, scr) = Overlay(pic, C \cup D, scr)
    BY <1>1, <1>2, <1>4, ExtendsMore, OverlayIs
  <2> HIDE DEF mid
  <2>2. Turning(View(items, pic, Len(o.items) + 1, o.deflated), p.headers - o.headers,
                View(items, mid, Len(p.items) + 1, p.deflated))  BY <1>4, <2>1 DEF mid, Serve
  <2>3. Turning(View(items, mid, Len(p.items) + 1, p.deflated), q.headers - p.headers,
                View(items, Overlay(mid, D, scr), Len(q.items) + 1, q.deflated))  BY <1>4, <2>1 DEF Serve
  <2> DEFINE m == p.headers - o.headers  n == q.headers - p.headers
  <2>4. m \in Nat /\ n \in Nat /\ m + n = q.headers - o.headers  BY <1>1, <1>2
  <2> HIDE DEF m, n
  <2> DEFINE u == View(items, pic, Len(o.items) + 1, o.deflated)
             v == View(items, mid, Len(p.items) + 1, p.deflated)
             w == View(items, Overlay(mid, D, scr), Len(q.items) + 1, q.deflated)
  <2>5. Turning(u, m, v) /\ Turning(v, n, w)  BY <2>2, <2>3 DEF m, n
  <2> HIDE DEF u, v, w
  <2>6. Turning(u, m + n, w)  BY <2>4, <2>5, TurningBoth
  <2> QED  BY <2>1, <2>4, <2>6 DEF u, w
<1>5. o.headers <= q.headers  BY <1>1, <1>2
<1> QED  BY <1>1, <1>3, <1>4, <1>5 DEF Serve

\* A loop, each turn of which serves a part, serves all.
LEMMA ServeAll ==
  ASSUME NEW scr \in Pictures, NEW n \in Nat, NEW f, NEW D, IsOut(f[0]),
         \A i \in 1 .. n : IsOut(f[i - 1]) => Serve(scr, f[i - 1], f[i], D[i])
  PROVE  Serve(scr, f[0], f[n], UnionOf(D, n))
<1> DEFINE U(k) == UNION {D[i] : i \in 1 .. k}
           Q == {k \in 0 .. n : IsOut(f[k]) /\ Serve(scr, f[0], f[k], U(k))}
<1>1. 0 \in Q
  <2>1. U(0) = {}  OBVIOUS
  <2>2. Serve(scr, f[0], f[0], {})  BY ServeNothing DEF Quiet
  <2> QED  BY <2>1, <2>2
<1>2. ASSUME NEW k \in 0 .. n - 1, k \in Q PROVE k + 1 \in Q
  <2>1. k + 1 \in 1 .. n /\ (k + 1) - 1 = k  OBVIOUS
  <2>2. Serve(scr, f[k], f[k + 1], D[k + 1])  BY <1>2, <2>1
  <2>3. U(k + 1) = U(k) \cup D[k + 1]
    <3>1. \A i : i \in 1 .. k + 1 <=> i \in 1 .. k \/ i = k + 1  BY <2>1
    <3> QED  BY <3>1
  <2> HIDE DEF U
  <2>4. Serve(scr, f[0], f[k + 1], U(k) \cup D[k + 1])  BY <1>2, <2>2, ServeBoth
  <2>5. IsOut(f[k + 1])  BY <2>2 DEF Serve
  <2>6. k + 1 \in 0 .. n  BY <2>1
  <2> QED  BY <2>3, <2>4, <2>5, <2>6
<1>3. \A k \in 0 .. n : k \in Q
  <2> HIDE DEF Q
  <2> QED  BY <1>1, <1>2, Reached
<1>4. n \in Q
  <2> HIDE DEF Q
  <2> QED  BY <1>3
<1> QED  BY <1>4 DEF UnionOf

-----------------------------------------------------------------------------
(* Rectangles and their points. *)

LEMMA RectFields ==
  ASSUME NEW x, NEW y, NEW w, NEW h
  PROVE  LET r == Rect(x, y, w, h) IN r.x = x /\ r.y = y /\ r.w = w /\ r.h = h  BY DEF Rect

LEMMA RectIs ==
  ASSUME NEW x \in Int, NEW y \in Int, NEW w \in Nat \ {0}, NEW h \in Nat \ {0}
  PROVE  IsRect(Rect(x, y, w, h))  BY RectFields DEF IsRect

LEMMA ScreenIs ==
  /\ Width \in Nat \ {0} /\ Height \in Nat \ {0}
  /\ Screen = (0 .. Width - 1) \X (0 .. Height - 1)
<1>1. Width \in Nat \ {0} /\ Height \in Nat \ {0}  BY RegionAssumption
<1>2. Points(Rect(0, 0, Width, Height)) = (0 .. Width - 1) \X (0 .. Height - 1)  BY <1>1, RectFields DEF Points
<1> QED  BY <1>1, <1>2 DEF Screen

\* The points of rectangles of the screen.
LEMMA PointsOf ==
  ASSUME NEW r, r.x \in Int, r.y \in Int, r.w \in Int, r.h \in Int
  PROVE  \A p : p \in Points(r) <=> /\ p = <<p[1], p[2]>> /\ p[1] \in Int /\ p[2] \in Int
                                    /\ r.x <= p[1] /\ p[1] < r.x + r.w /\ r.y <= p[2] /\ p[2] < r.y + r.h
<1>1. ASSUME NEW p, p \in Points(r)
      PROVE  /\ p = <<p[1], p[2]>> /\ p[1] \in Int /\ p[2] \in Int
             /\ r.x <= p[1] /\ p[1] < r.x + r.w /\ r.y <= p[2] /\ p[2] < r.y + r.h  BY <1>1 DEF Points
<1>2. ASSUME NEW p, p = <<p[1], p[2]>>, p[1] \in Int, p[2] \in Int,
             r.x <= p[1], p[1] < r.x + r.w, r.y <= p[2], p[2] < r.y + r.h
      PROVE  p \in Points(r)
  <2>1. p[1] \in r.x .. r.x + r.w - 1 /\ p[2] \in r.y .. r.y + r.h - 1  BY <1>2
  <2> QED  BY <1>2, <2>1 DEF Points
<1> QED  BY <1>1, <1>2

LEMMA PointsWithin ==
  ASSUME NEW r, IsRect(r), NEW s, IsRect(s), Within(s, r)
  PROVE  Points(s) \subseteq Points(r)
<1>1. /\ r.x \in Int /\ r.y \in Int /\ r.w \in Int /\ r.h \in Int /\ s.x \in Int /\ s.y \in Int /\ s.w \in Int /\ s.h \in Int
      /\ r.x <= s.x /\ r.y <= s.y /\ s.x + s.w <= r.x + r.w /\ s.y + s.h <= r.y + r.h  BY DEF IsRect, Within
<1>2. ASSUME NEW p, p \in Points(s) PROVE p \in Points(r)
  <2>1. /\ p = <<p[1], p[2]>> /\ p[1] \in Int /\ p[2] \in Int
        /\ s.x <= p[1] /\ p[1] < s.x + s.w /\ s.y <= p[2] /\ p[2] < s.y + s.h  BY <1>1, <1>2, PointsOf
  <2>2. r.x <= p[1] /\ p[1] < r.x + r.w /\ r.y <= p[2] /\ p[2] < r.y + r.h  BY <1>1, <2>1
  <2> QED  BY <1>1, <2>1, <2>2, PointsOf
<1> QED  BY <1>2

LEMMA OnWithin ==
  ASSUME NEW r, On(r), NEW s, IsRect(s), Within(s, r)
  PROVE  On(s)  BY ScreenIs DEF On, IsRect, Within

LEMMA OnScreen ==
  ASSUME NEW r, On(r)
  PROVE  Points(r) \subseteq Screen
<1>1. IsRect(Rect(0, 0, Width, Height)) /\ Within(r, Rect(0, 0, Width, Height)) /\ IsRect(r)
  BY ScreenIs, RectIs, RectFields DEF On, Within
<1> QED  BY <1>1, PointsWithin DEF Screen

\* A cut of the picture holds the points of its rectangle.
LEMMA CropIs ==
  ASSUME NEW scr \in Pictures, NEW r, On(r)
  PROVE  /\ Crop(scr, r) \in [Points(Rect(0, 0, r.w, r.h)) -> Colours]
         /\ \A p \in Points(Rect(0, 0, r.w, r.h)) : Crop(scr, r)[p] = scr[<<r.x + p[1], r.y + p[2]>>]
         /\ \A p \in Points(r) : /\ <<p[1] - r.x, p[2] - r.y>> \in Points(Rect(0, 0, r.w, r.h))
                                 /\ Crop(scr, r)[<<p[1] - r.x, p[2] - r.y>>] = scr[p]
         /\ Cut(scr, r, Crop(scr, r))
<1> DEFINE z == Rect(0, 0, r.w, r.h)
<1>1. r.x \in Int /\ r.y \in Int /\ r.w \in Int /\ r.h \in Int  BY DEF On, IsRect
<1>2. z.x = 0 /\ z.y = 0 /\ z.w = r.w /\ z.h = r.h  BY RectFields
<1>3. ASSUME NEW p \in Points(z) PROVE scr[<<r.x + p[1], r.y + p[2]>>] \in Colours
  <2>1. /\ p[1] \in Int /\ p[2] \in Int /\ 0 <= p[1] /\ p[1] < 0 + r.w /\ 0 <= p[2] /\ p[2] < 0 + r.h
    BY <1>1, <1>2, PointsOf
  <2> DEFINE q == <<r.x + p[1], r.y + p[2]>>
  <2>2. /\ q = <<q[1], q[2]>> /\ q[1] \in Int /\ q[2] \in Int
        /\ r.x <= q[1] /\ q[1] < r.x + r.w /\ r.y <= q[2] /\ q[2] < r.y + r.h  BY <1>1, <2>1
  <2> HIDE DEF q
  <2>3. q \in Points(r)  BY <1>1, <2>2, PointsOf
  <2>4. scr[q] \in Colours  BY <2>3, OnScreen DEF Pictures
  <2> QED  BY <2>4 DEF q
<1>4. ASSUME NEW p \in Points(r)
      PROVE  /\ <<p[1] - r.x, p[2] - r.y>> \in Points(z)
             /\ scr[<<r.x + (p[1] - r.x), r.y + (p[2] - r.y)>>] = scr[p]
  <2>1. /\ p = <<p[1], p[2]>> /\ p[1] \in Int /\ p[2] \in Int
        /\ r.x <= p[1] /\ p[1] < r.x + r.w /\ r.y <= p[2] /\ p[2] < r.y + r.h  BY <1>1, PointsOf
  <2> DEFINE q == <<p[1] - r.x, p[2] - r.y>>
  <2>2. /\ q = <<q[1], q[2]>> /\ q[1] \in Int /\ q[2] \in Int
        /\ 0 <= q[1] /\ q[1] < 0 + r.w /\ 0 <= q[2] /\ q[2] < 0 + r.h  BY <1>1, <2>1
  <2>3. r.x + (p[1] - r.x) = p[1] /\ r.y + (p[2] - r.y) = p[2]  BY <1>1, <2>1
  <2> HIDE DEF q
  <2>4. q \in Points(z)  BY <1>1, <1>2, <2>2, PointsOf
  <2> QED  BY <2>1, <2>3, <2>4 DEF q
<1> HIDE DEF z
<1>5. Crop(scr, r) = [p \in Points(z) |-> scr[<<r.x + p[1], r.y + p[2]>>]]  BY DEF Crop, z
<1>6. Crop(scr, r) \in [Points(z) -> Colours]  BY <1>3, <1>5
<1>7. \A p \in Points(z) : Crop(scr, r)[p] = scr[<<r.x + p[1], r.y + p[2]>>]  BY <1>5
<1>8. ASSUME NEW p \in Points(r) PROVE Crop(scr, r)[<<p[1] - r.x, p[2] - r.y>>] = scr[p]
  <2> DEFINE q == <<p[1] - r.x, p[2] - r.y>>
  <2>1. q \in Points(z) /\ q[1] = p[1] - r.x /\ q[2] = p[2] - r.y  BY <1>4
  <2> HIDE DEF q
  <2>2. Crop(scr, r)[q] = scr[<<r.x + (p[1] - r.x), r.y + (p[2] - r.y)>>]  BY <1>7, <2>1
  <2> QED  BY <1>4, <2>2 DEF q
<1>9. Cut(scr, r, Crop(scr, r))  BY <1>8 DEF Cut
<1> QED  BY <1>4, <1>6, <1>7, <1>8, <1>9 DEF z

\* The viewer draws pixels that are those of scr.
LEMMA BitmapDrawn ==
  ASSUME NEW scr \in Pictures, NEW pic \in Seen, NEW items, NEW at, NEW inf, NEW r, NEW pixels,
         Cut(scr, r, pixels)
  PROVE  GotBitmap(View(items, pic, at, inf), r, pixels) = View(items, Overlay(pic, Points(r), scr), at, inf)
<1> DEFINE v == View(items, pic, at, inf)
           b == [p \in DOMAIN pic |-> IF p \in Points(r) THEN pixels[<<p[1] - r.x, p[2] - r.y>>] ELSE pic[p]]
<1>1. v.pic = pic  BY ViewFields
<1>2. b = Overlay(pic, Points(r), scr)  BY DEF Overlay, Seen, Cut
<1>3. \A x : [v EXCEPT !.pic = x] = View(items, x, at, inf)  BY ViewWith
<1> HIDE DEF v
<1>4. GotBitmap(v, r, pixels) = [v EXCEPT !.pic = b]  BY <1>1 DEF GotBitmap
<1> HIDE DEF b
<1> QED  BY <1>2, <1>3, <1>4 DEF v

\* Filling a rectangle of one colour shows it.
LEMMA FillDrawn ==
  ASSUME NEW pic, DOMAIN pic = Screen, NEW items, NEW at, NEW inf, NEW r, NEW c
  PROVE  GotFillRect(View(items, pic, at, inf), r, c) = View(items, Filled(pic, r, c), at, inf)
<1> DEFINE v == View(items, pic, at, inf)
<1>1. v.pic = pic  BY ViewFields
<1>2. \A x : [v EXCEPT !.pic = x] = View(items, x, at, inf)  BY ViewWith
<1> HIDE DEF v
<1>3. GotFillRect(v, r, c) = [v EXCEPT !.pic = Filled(pic, r, c)]  BY <1>1 DEF GotFillRect, Filled
<1> QED  BY <1>2, <1>3 DEF v

LEMMA FillOne ==
  ASSUME NEW scr \in Pictures, NEW pic \in Seen, NEW r, NEW c, \A p \in Points(r) : scr[p] = c
  PROVE  Filled(pic, r, c) = Overlay(pic, Points(r), scr)  BY DEF Filled, Overlay

-----------------------------------------------------------------------------
(* The tiles of a rectangle. *)

LEMMA LesserIs ==
  ASSUME NEW a \in Int, NEW b \in Int
  PROVE  Lesser(a, b) \in Int /\ Lesser(a, b) <= a /\ Lesser(a, b) <= b /\ (Lesser(a, b) = a \/ Lesser(a, b) = b)
  BY DEF Lesser

\* Divisions, as the splitting of rectangles uses them.
LEMMA Quotient ==
  ASSUME NEW a \in Nat, NEW b \in Nat \ {0}
  PROVE  /\ a \div b \in Nat /\ a % b \in 0 .. b - 1 /\ a = (b * (a \div b)) + (a % b)
         /\ \A m \in Nat : a < m * b => a \div b < m
<1>1. a \div b \in Int /\ a % b \in 0 .. b - 1 /\ a = (b * (a \div b)) + (a % b)  BY DivMod
<1>2. 0 <= a \div b
  <2>1. 0 * b <= a  OBVIOUS
  <2> QED  BY <2>1, Division
<1>3. ASSUME NEW m \in Nat, a < m * b PROVE a \div b < m
  <2>1. ~(m <= a \div b)  BY <1>3, Division
  <2> QED  BY <1>1, <2>1
<1> QED  BY <1>1, <1>2, <1>3

\* The pieces of size t of a length n, and the one that holds a place.
LEMMA Slot ==
  ASSUME NEW n \in Nat \ {0}, NEW t \in Nat \ {0}
  PROVE  /\ (n - 1) \div t \in Nat
         /\ \A y \in 0 .. n - 1 : y \div t \in 0 .. (n - 1) \div t
<1> DEFINE m == n - 1
<1>1. m \in Nat /\ m = n - 1  OBVIOUS
<1> HIDE DEF m
<1>2. m \div t \in Nat  BY <1>1, Quotient
<1>3. ASSUME NEW y \in 0 .. m PROVE y \div t \in 0 .. m \div t
  <2>1. y \in Nat /\ y <= m  BY <1>1
  <2>2. y \div t \in Nat  BY <2>1, Quotient
  <2> DEFINE q == y \div t
  <2>3. q * t <= y /\ q \in Nat  BY <2>1, <2>2, Division
  <2> HIDE DEF q
  <2>4. q * t <= m  BY <1>1, <2>1, <2>3
  <2>5. q <= m \div t  BY <1>1, <2>3, <2>4, Division
  <2> QED  BY <1>2, <2>3, <2>5 DEF q
<1> QED  BY <1>1, <1>2, <1>3

\* The places of a table of c columns and d rows.
LEMMA Cells ==
  ASSUME NEW c \in Nat \ {0}, NEW d \in Nat \ {0}
  PROVE  /\ c * d \in Nat \ {0}
         /\ \A i \in 1 .. c * d : (i - 1) % c \in 0 .. c - 1 /\ (i - 1) \div c \in 0 .. d - 1
<1> DEFINE n == c * d
<1>1. n \in Nat \ {0}  OBVIOUS
<1>2. ASSUME NEW i \in 1 .. n PROVE (i - 1) % c \in 0 .. c - 1 /\ (i - 1) \div c \in 0 .. d - 1
  <2> DEFINE j == i - 1
  <2>1. j \in Nat /\ j < n  BY <1>1
  <2>2. j < d * c  BY <2>1
  <2> HIDE DEF j, n
  <2>3. j % c \in 0 .. c - 1 /\ j \div c \in Nat /\ j \div c < d  BY <2>1, <2>2, Quotient
  <2>4. j % c \in 0 .. c - 1 /\ j \div c \in 0 .. d - 1  BY <2>3
  <2> QED  BY <2>4 DEF j
<1> QED  BY <1>1, <1>2

LEMMA CellAt ==
  ASSUME NEW c \in Nat \ {0}, NEW d \in Nat \ {0}, NEW x \in 0 .. c - 1, NEW y \in 0 .. d - 1
  PROVE  HasCell(c, d, x, y)
<1> DEFINE n == c * d
<1>9. n \in Nat \ {0}  OBVIOUS
<1> DEFINE j == (c * y) + x
<1>1. j \div c = y /\ j % c = x  BY DivIs
<1>2. j \in 0 .. n - 1
  <2>1. y <= d - 1 /\ y \in Nat /\ d - 1 \in Nat  OBVIOUS
  <2>2. c * y <= c * (d - 1) /\ c * y \in Nat  BY <2>1, TimesMore
  <2>3. c * (d - 1) = n - c  OBVIOUS
  <2> DEFINE cy == c * y
  <2>4. cy \in Nat /\ cy <= n - c  BY <2>2, <2>3
  <2> HIDE DEF cy, n
  <2>5. cy + x \in 0 .. n - 1  BY <1>9, <2>4
  <2> QED  BY <2>5 DEF cy
<1>3. j + 1 = (c * y) + x + 1  OBVIOUS
<1> HIDE DEF j
<1>4. j + 1 \in 1 .. n /\ (j + 1) - 1 = j  BY <1>9, <1>2
<1> QED  BY <1>1, <1>3, <1>4 DEF HasCell

\* Each line belongs to one tile.
LEMMA TileSpan ==
  ASSUME NEW x \in Int, NEW n \in Nat \ {0}, NEW t \in Nat \ {0}, NEW k \in 0 .. (n - 1) \div t,
         NEW a, a = x + t * k, NEW d, d = Lesser(t, x + n - a)
  PROVE  Spans(x, n, t, k, a, d)
<1>1. k \in Nat /\ (n - 1) \div t \in Int /\ k <= (n - 1) \div t  BY DivMod
<1>2. k * t <= n - 1  BY <1>1, Division
<1>3. t * k \in Nat /\ t * k <= n - 1  BY <1>1, <1>2, TimesMore
<1> DEFINE m == t * k
<1>4. ASSUME NEW z \in Int
      PROVE  (z - x) \div t = k <=> m <= z - x /\ z - x < m + t
  <2> DEFINE y == z - x  q == y \div t  s == y % t
  <2>9. y \in Int  BY <1>3
  <2>1. y \in Int /\ q \in Int /\ s \in 0 .. t - 1 /\ y = (t * q) + s
    <3> HIDE DEF y
    <3> QED  BY <2>9, DivMod
  <2>2. ASSUME q = k PROVE m <= y /\ y < m + t
    <3> HIDE DEF q, s, y
    <3> QED  BY <2>1, <2>2, <1>3
  <2>3. ASSUME m <= y, y < m + t PROVE q = k
    <3>1. y - m \in 0 .. t - 1 /\ (t * k) + (y - m) = y  BY <2>1, <2>3, <1>3
    <3> DEFINE u == y - m
    <3>2. u \in 0 .. t - 1 /\ (t * k) + u = y  BY <3>1
    <3> HIDE DEF u, y
    <3>3. ((t * k) + u) \div t = k  BY <3>2, <1>1, DivIs
    <3> QED  BY <3>2, <3>3
  <2> QED  BY <2>2, <2>3
<1>5. m \in Nat /\ m <= n - 1  BY <1>3
<1> HIDE DEF m
<1>6. a = x + m  BY DEF m
<1>7. a \in Int /\ x <= a /\ x + n - a \in Nat \ {0}  BY <1>5, <1>6
<1>8. d \in Nat \ {0} /\ d <= t /\ a + d <= x + n  BY <1>7 DEF Lesser
<1>9. ASSUME NEW z \in Int
      PROVE  a <= z /\ z < a + d <=> x <= z /\ z < x + n /\ (z - x) \div t = k
  <2>1. (z - x) \div t = k <=> a <= z /\ z < a + t  BY <1>4, <1>5, <1>6
  <2>2. d = t \/ (d = x + n - a /\ d <= t)  BY <1>7 DEF Lesser
  <2> DEFINE g == (z - x) \div t
  <2> HIDE DEF g
  <2>3. g = k <=> a <= z /\ z < a + t  BY <2>1 DEF g
  <2>4. a <= z /\ z < a + d <=> x <= z /\ z < x + n /\ g = k  BY <1>7, <1>8, <2>2, <2>3
  <2> QED  BY <2>4 DEF g
<1> QED  BY <1>7, <1>8, <1>9 DEF Spans

\* Tiles divides a rectangle without remainder.
LEMMA TilesDivide ==
  ASSUME NEW r, IsRect(r), NEW w \in Nat \ {0}, NEW h \in Nat \ {0}
  PROVE  Divides(r, w, h, Tiles(r, w, h), ((r.w - 1) \div w + 1) * ((r.h - 1) \div h + 1))
<1> DEFINE cols == (r.w - 1) \div w + 1  rows == (r.h - 1) \div h + 1  n == cols * rows
           T == Tiles(r, w, h)
           col(i) == (i - 1) % cols  row(i) == (i - 1) \div cols
           X(c) == r.x + w * c  Y(c) == r.y + h * c
           tile(i) == Rect(X(col(i)), Y(row(i)), Lesser(w, r.x + r.w - X(col(i))), Lesser(h, r.y + r.h - Y(row(i))))
<1>0. r.x \in Int /\ r.y \in Int /\ r.w \in Nat \ {0} /\ r.h \in Nat \ {0} /\ r.w - 1 \in Int /\ r.h - 1 \in Int
  BY DEF IsRect
<1>1. /\ cols \in Nat \ {0} /\ rows \in Nat \ {0}
      /\ cols - 1 = (r.w - 1) \div w /\ rows - 1 = (r.h - 1) \div h
  <2>1. (r.w - 1) \div w \in Nat /\ (r.h - 1) \div h \in Nat  BY <1>0, Slot
  <2> QED  BY <2>1
<1> HIDE DEF cols, rows
<1>2. n \in Nat \ {0}  BY <1>1, Cells
<1>3. T = [i \in 1 .. n |-> tile(i)]  BY DEF Tiles, Nth, cols, rows
<1> HIDE DEF T, tile
<1>4. ASSUME NEW i \in 1 .. n
      PROVE  col(i) \in 0 .. cols - 1 /\ row(i) \in 0 .. rows - 1  BY <1>1, Cells
<1>12. ASSUME NEW c \in 0 .. cols - 1, NEW d \in 0 .. rows - 1 PROVE \E i \in 1 .. n : col(i) = c /\ row(i) = d
  <2>1. PICK i \in 1 .. cols * rows : (i - 1) % cols = c /\ (i - 1) \div cols = d
    <3>1. cols \in Nat \ {0} /\ rows \in Nat \ {0}  BY <1>1
    <3>2. HasCell(cols, rows, c, d)  BY <3>1, CellAt
    <3> QED  BY <3>2 DEF HasCell
  <2> QED  BY <2>1
<1> HIDE DEF col, row, n
<1>5. ASSUME NEW i \in 1 .. n
      PROVE  /\ T[i].x = X(col(i)) /\ T[i].y = Y(row(i))
             /\ T[i].w = Lesser(w, r.x + r.w - X(col(i))) /\ T[i].h = Lesser(h, r.y + r.h - Y(row(i)))
  BY <1>3, RectFields DEF tile
<1>6. ASSUME NEW i \in 1 .. n
      PROVE  /\ T[i].x \in Int /\ T[i].w \in Nat \ {0} /\ T[i].w <= w /\ r.x <= T[i].x /\ T[i].x + T[i].w <= r.x + r.w
             /\ \A z \in Int : T[i].x <= z /\ z < T[i].x + T[i].w <=> r.x <= z /\ z < r.x + r.w /\ (z - r.x) \div w = col(i)
  <2> DEFINE k == col(i)
  <2>1. k \in 0 .. (r.w - 1) \div w  BY <1>1, <1>4
  <2>2. T[i].x = r.x + w * k /\ T[i].w = Lesser(w, r.x + r.w - T[i].x)  BY <1>5
  <2> DEFINE a == T[i].x  d == T[i].w  x == r.x  m == r.w
  <2>4. x \in Int /\ m \in Nat \ {0} /\ k \in 0 .. (m - 1) \div w /\ a = x + w * k /\ d = Lesser(w, x + m - a)
    BY <1>0, <2>1, <2>2
  <2> HIDE DEF k, a, d, x, m
  <2>5. Spans(x, m, w, k, a, d)  BY <2>4, TileSpan
  <2>3. /\ T[i].x \in Int /\ T[i].w \in Nat \ {0} /\ T[i].w <= w /\ r.x <= T[i].x /\ T[i].x + T[i].w <= r.x + r.w
        /\ \A z \in Int : T[i].x <= z /\ z < T[i].x + T[i].w <=> r.x <= z /\ z < r.x + r.w /\ (z - r.x) \div w = k
    BY <2>5 DEF Spans, a, d, x, m
  <2> QED  BY <2>3 DEF k
<1>7. ASSUME NEW i \in 1 .. n
      PROVE  /\ T[i].y \in Int /\ T[i].h \in Nat \ {0} /\ T[i].h <= h /\ r.y <= T[i].y /\ T[i].y + T[i].h <= r.y + r.h
             /\ \A z \in Int : T[i].y <= z /\ z < T[i].y + T[i].h <=> r.y <= z /\ z < r.y + r.h /\ (z - r.y) \div h = row(i)
  <2> DEFINE k == row(i)
  <2>1. k \in 0 .. (r.h - 1) \div h  BY <1>1, <1>4
  <2>2. T[i].y = r.y + h * k /\ T[i].h = Lesser(h, r.y + r.h - T[i].y)  BY <1>5
  <2> DEFINE a == T[i].y  d == T[i].h  x == r.y  m == r.h
  <2>4. x \in Int /\ m \in Nat \ {0} /\ k \in 0 .. (m - 1) \div h /\ a = x + h * k /\ d = Lesser(h, x + m - a)
    BY <1>0, <2>1, <2>2
  <2> HIDE DEF k, a, d, x, m
  <2>5. Spans(x, m, h, k, a, d)  BY <2>4, TileSpan
  <2>3. /\ T[i].y \in Int /\ T[i].h \in Nat \ {0} /\ T[i].h <= h /\ r.y <= T[i].y /\ T[i].y + T[i].h <= r.y + r.h
        /\ \A z \in Int : T[i].y <= z /\ z < T[i].y + T[i].h <=> r.y <= z /\ z < r.y + r.h /\ (z - r.y) \div h = k
    BY <2>5 DEF Spans, a, d, x, m
  <2> QED  BY <2>3 DEF k
<1>8. ASSUME NEW i \in 1 .. n PROVE IsRect(T[i]) /\ Within(T[i], r)
  <2>1. T[i] = Rect(T[i].x, T[i].y, T[i].w, T[i].h)  BY <1>3, <1>5 DEF tile
  <2> QED  BY <1>6, <1>7, <2>1 DEF IsRect, Within
<1>9. ASSUME NEW p \in Points(r) PROVE \E i \in 1 .. n : p \in Points(T[i])
  <2>1. /\ p = <<p[1], p[2]>> /\ p[1] \in Int /\ p[2] \in Int
        /\ r.x <= p[1] /\ p[1] < r.x + r.w /\ r.y <= p[2] /\ p[2] < r.y + r.h  BY <1>0, PointsOf
  <2> DEFINE c == (p[1] - r.x) \div w  d == (p[2] - r.y) \div h
  <2>2. c \in 0 .. cols - 1
    <3> DEFINE y == p[1] - r.x
    <3>1. y \in 0 .. r.w - 1  BY <1>0, <2>1
    <3> HIDE DEF y
    <3>2. y \div w \in 0 .. (r.w - 1) \div w  BY <1>0, <3>1, Slot
    <3> QED  BY <1>1, <3>2 DEF y
  <2>3. d \in 0 .. rows - 1
    <3> DEFINE y == p[2] - r.y
    <3>1. y \in 0 .. r.h - 1  BY <1>0, <2>1
    <3> HIDE DEF y
    <3>2. y \div h \in 0 .. (r.h - 1) \div h  BY <1>0, <3>1, Slot
    <3> QED  BY <1>1, <3>2 DEF y
  <2> HIDE DEF c, d
  <2>4. PICK i \in 1 .. n : col(i) = c /\ row(i) = d  BY <1>12, <2>2, <2>3
  <2>6. T[i].x <= p[1] /\ p[1] < T[i].x + T[i].w  BY <1>6, <2>1, <2>4 DEF c
  <2>7. T[i].y <= p[2] /\ p[2] < T[i].y + T[i].h  BY <1>7, <2>1, <2>4 DEF d
  <2>8. T[i].x \in Int /\ T[i].y \in Int /\ T[i].w \in Int /\ T[i].h \in Int  BY <1>6, <1>7, <2>4
  <2> QED  BY <2>1, <2>4, <2>6, <2>7, <2>8, PointsOf
<1>10. Points(r) = UNION {Points(T[i]) : i \in 1 .. n}
  <2>1. \A i \in 1 .. n : Points(T[i]) \subseteq Points(r)  BY <1>8, PointsWithin
  <2> QED  BY <1>9, <2>1
<1>11. DOMAIN T = 1 .. n /\ Len(T) = n /\ IsSeq(T)
  <2>1. DOMAIN T = 1 .. n  BY <1>3
  <2>2. T \in [1 .. n -> {T[i] : i \in 1 .. n}]  BY <1>3
  <2>3. T \in Seq({T[i] : i \in 1 .. n})  BY <1>2, <2>2, SeqDef
  <2> QED  BY <1>2, <2>1, <2>3, LenProperties DEF IsSeq
<1>13. \A i \in 1 .. n : IsRect(T[i]) /\ Within(T[i], r) /\ T[i].w <= w /\ T[i].h <= h  BY <1>6, <1>7, <1>8
<1> HIDE DEF X, Y
<1>14. Divides(r, w, h, T, n)  BY <1>2, <1>10, <1>11, <1>13 DEF Divides
<1> QED  BY <1>14 DEF n, cols, rows, T

-----------------------------------------------------------------------------
(* The first items of a rectangle. *)

LEMMA Follow1 ==
  ASSUME NEW s, IsSeq(s), NEW a, NEW t, Ends1(t, s, a)
  PROVE  /\ IsSeq(t) /\ Extends(t, s) /\ Len(t) = Len(s) + 1
         /\ \A items : IsSeq(items) /\ Extends(items, t) => Follows1(items, s, a)
<1>0. Len(s) \in Nat  BY Appended
<1>1. IsSeq(t) /\ Len(t) = Len(s) + 1 /\ t[Len(s) + 1] = a /\ Extends(t, s)  BY Appended DEF Ends1
<1>2. ASSUME NEW items, IsSeq(items), Extends(items, t) PROVE Follows1(items, s, a)
  <2>1. Len(items) \in Nat  BY <1>2, Appended
  <2> QED  BY <1>0, <1>1, <1>2, <2>1 DEF Extends, Follows1
<1> QED  BY <1>1, <1>2

LEMMA Follow2 ==
  ASSUME NEW s, IsSeq(s), NEW a, NEW b, NEW t, Ends2(t, s, a, b)
  PROVE  /\ IsSeq(t) /\ Extends(t, s) /\ Len(t) = Len(s) + 2
         /\ \A items : IsSeq(items) /\ Extends(items, t) => Follows2(items, s, a, b)
<1> DEFINE u == Append(s, a)
<1>0. Len(s) \in Nat /\ t = Append(u, b)  BY Appended DEF Ends2
<1>1. /\ IsSeq(u) /\ Extends(u, s) /\ Len(u) = Len(s) + 1
      /\ \A items : IsSeq(items) /\ Extends(items, u) => Follows1(items, s, a)
  <2>1. Ends1(u, s, a)  BY DEF Ends1
  <2> HIDE DEF u
  <2> QED  BY <2>1, Follow1
<1> HIDE DEF u
<1>2. IsSeq(t) /\ Len(t) = Len(u) + 1 /\ t[Len(u) + 1] = b /\ Extends(t, u)  BY <1>0, <1>1, Appended
<1>3. Extends(t, s) /\ Len(t) = Len(s) + 2  BY <1>0, <1>1, <1>2, ExtendsMore
<1>4. ASSUME NEW items, IsSeq(items), Extends(items, t) PROVE Follows2(items, s, a, b)
  <2>1. Len(items) \in Nat  BY <1>4, Appended
  <2>2. Extends(items, u)  BY <1>1, <1>2, <1>4, ExtendsMore
  <2>3. Follows1(items, s, a)  BY <1>1, <1>4, <2>2
  <2>4. Len(s) + 2 \in 1 .. Len(items) /\ items[Len(s) + 2] = b  BY <1>0, <1>1, <1>2, <1>4, <2>1 DEF Extends
  <2> QED  BY <2>3, <2>4 DEF Follows2
<1> QED  BY <1>2, <1>3, <1>4

LEMMA Follow3 ==
  ASSUME NEW s, IsSeq(s), NEW a, NEW b, NEW c, NEW t, Ends3(t, s, a, b, c)
  PROVE  /\ IsSeq(t) /\ Extends(t, s) /\ Len(t) = Len(s) + 3
         /\ \A items : IsSeq(items) /\ Extends(items, t) => Follows3(items, s, a, b, c)
<1> DEFINE u == Append(Append(s, a), b)
<1>0. Len(s) \in Nat /\ t = Append(u, c)  BY Appended DEF Ends3
<1>1. /\ IsSeq(u) /\ Extends(u, s) /\ Len(u) = Len(s) + 2
      /\ \A items : IsSeq(items) /\ Extends(items, u) => Follows2(items, s, a, b)
  <2>1. Ends2(u, s, a, b)  BY DEF Ends2
  <2> HIDE DEF u
  <2> QED  BY <2>1, Follow2
<1> HIDE DEF u
<1>2. IsSeq(t) /\ Len(t) = Len(u) + 1 /\ t[Len(u) + 1] = c /\ Extends(t, u)  BY <1>0, <1>1, Appended
<1>3. Extends(t, s) /\ Len(t) = Len(s) + 3  BY <1>0, <1>1, <1>2, ExtendsMore
<1>4. ASSUME NEW items, IsSeq(items), Extends(items, t) PROVE Follows3(items, s, a, b, c)
  <2>1. Len(items) \in Nat  BY <1>4, Appended
  <2>2. Extends(items, u)  BY <1>1, <1>2, <1>4, ExtendsMore
  <2>3. Follows2(items, s, a, b)  BY <1>1, <1>4, <2>2
  <2>4. Len(s) + 3 \in 1 .. Len(items) /\ items[Len(s) + 3] = c  BY <1>0, <1>1, <1>2, <1>4, <2>1 DEF Extends
  <2> QED  BY <2>3, <2>4 DEF Follows3
<1> QED  BY <1>2, <1>3, <1>4

LEMMA Follow4 ==
  ASSUME NEW s, IsSeq(s), NEW a, NEW b, NEW c, NEW d, NEW t, Ends4(t, s, a, b, c, d)
  PROVE  /\ IsSeq(t) /\ Extends(t, s) /\ Len(t) = Len(s) + 4
         /\ \A items : IsSeq(items) /\ Extends(items, t) => Follows4(items, s, a, b, c, d)
<1> DEFINE u == Append(Append(Append(s, a), b), c)
<1>0. Len(s) \in Nat /\ t = Append(u, d)  BY Appended DEF Ends4
<1>1. /\ IsSeq(u) /\ Extends(u, s) /\ Len(u) = Len(s) + 3
      /\ \A items : IsSeq(items) /\ Extends(items, u) => Follows3(items, s, a, b, c)
  <2>1. Ends3(u, s, a, b, c)  BY DEF Ends3
  <2> HIDE DEF u
  <2> QED  BY <2>1, Follow3
<1> HIDE DEF u
<1>2. IsSeq(t) /\ Len(t) = Len(u) + 1 /\ t[Len(u) + 1] = d /\ Extends(t, u)  BY <1>0, <1>1, Appended
<1>3. Extends(t, s) /\ Len(t) = Len(s) + 4  BY <1>0, <1>1, <1>2, ExtendsMore
<1>4. ASSUME NEW items, IsSeq(items), Extends(items, t) PROVE Follows4(items, s, a, b, c, d)
  <2>1. Len(items) \in Nat  BY <1>4, Appended
  <2>2. Extends(items, u)  BY <1>1, <1>2, <1>4, ExtendsMore
  <2>3. Follows3(items, s, a, b, c)  BY <1>1, <1>4, <2>2
  <2>4. Len(s) + 4 \in 1 .. Len(items) /\ items[Len(s) + 4] = d  BY <1>0, <1>1, <1>2, <1>4, <2>1 DEF Extends
  <2> QED  BY <2>3, <2>4 DEF Follows4
<1> QED  BY <1>2, <1>3, <1>4

LEMMA QuotIs ==
  ASSUME NEW a \in Int, NEW b \in Nat \ {0}
  PROVE  IsQuot(a \div b, a, b)  BY DivMod, Division DEF IsQuot

\* The header of a rectangle is read, and its decoder is called.
LEMMA Handled ==
  ASSUME NEW v, NEW r
  PROVE  /\ Handle(v, r, "raw") = HandleRaw(v, r)
         /\ Handle(v, r, "copyrect") = HandleCopyRect(v, r)
         /\ Handle(v, r, "rre") = HandleRRE(v, r) /\ Handle(v, r, "corre") = HandleRRE(v, r)
         /\ Handle(v, r, "hextile") = HandleHextile(v, r)
         /\ Handle(v, r, "zlib") = HandleZlib(v, r) /\ Handle(v, r, "ultra") = HandleUltra(v, r)
         /\ Handle(v, r, "tight") = HandleTight(v, r) /\ Handle(v, r, "zrle") = HandleZRLE(v, r)
         /\ \A e \in ToSet(Notices) : Handle(v, r, e) = HandleNotice(v, r, e)
<1>1. ToSet(Notices) = {"xcursor", "pos", "led", "messages", "encodings", "identity"}  BY DEF ToSet, Notices
<1> QED  BY <1>1 DEF Handle

-----------------------------------------------------------------------------
(* Raw. *)

LEMMA LineFits ==
  ASSUME NEW r, On(r)
  PROVE  r.w * BPP \in Nat \ {0} /\ r.w * BPP <= UPDATE_BUF_SIZE
<1>1. r.x \in Nat /\ r.w \in Nat \ {0} /\ r.x + r.w <= Width /\ Width * 4 <= UPDATE_BUF_SIZE
  BY FitAssumption DEF On, IsRect, BPP
<1> QED  BY <1>1, ScreenIs, Sizes DEF BPP

\* Raw: as many lines as fit, then a flush, and so on; all of them in the end.
LEMMA RawTailIs ==
  ASSUME NEW r, On(r)
  PROVE  RawTail(r) \in 0 .. UPDATE_BUF_SIZE
<1> DEFINE k == r.w * BPP  lines == UPDATE_BUF_SIZE \div k
           room == (UPDATE_BUF_SIZE - 12) \div k
           first == Lesser(r.h, room)
<1>1. k \in Nat \ {0} /\ k <= UPDATE_BUF_SIZE /\ r.h \in Nat \ {0} /\ r.w \in Nat \ {0}  BY LineFits DEF On, IsRect
<1> HIDE DEF k
<1>2. lines \in Int /\ 1 <= lines /\ lines * k <= UPDATE_BUF_SIZE
  <2>1. IsQuot(lines, UPDATE_BUF_SIZE, k)  BY <1>1, Sizes, QuotIs
  <2>2. 1 * k <= UPDATE_BUF_SIZE  BY <1>1
  <2> QED  BY <2>1, <2>2 DEF IsQuot
<1>3. room \in Int /\ \A q \in Int : q <= room => q * k <= UPDATE_BUF_SIZE - 12
  <2> DEFINE u == UPDATE_BUF_SIZE - 12
  <2>1. u \in Int  BY Sizes
  <2> HIDE DEF u
  <2>2. IsQuot(u \div k, u, k)  BY <1>1, <2>1, QuotIs
  <2> QED  BY <2>2 DEF IsQuot, u
<1> HIDE DEF lines, room
<1>4. first \in Int /\ first <= room  BY <1>1, <1>3 DEF Lesser
<1> HIDE DEF first
<1>5. CASE first = r.h
  <2>1. r.h * k <= UPDATE_BUF_SIZE - 12 /\ r.h * k \in Nat  BY <1>1, <1>3, <1>4, <1>5
  <2> DEFINE a == r.h * k
  <2>2. r.h * r.w * BPP = a  BY <1>1 DEF k, BPP
  <2>3. RawTail(r) = 12 + r.h * r.w * BPP  BY <1>5 DEF RawTail, first, room, k, sz_rfbFramebufferUpdateRectHeader
  <2>4. a \in Nat /\ a <= UPDATE_BUF_SIZE - 12  BY <2>1
  <2> HIDE DEF a
  <2> QED  BY <2>2, <2>3, <2>4, Sizes
<1>6. CASE first # r.h
  <2> DEFINE m == (r.h - first - 1) % lines
  <2>1. m \in 0 .. lines - 1
    <3> DEFINE u == r.h - first - 1
    <3>1. u \in Int /\ lines \in Nat \ {0}  BY <1>1, <1>2, <1>4
    <3> HIDE DEF u
    <3>2. IsQuot(u \div lines, u, lines)  BY <3>1, QuotIs
    <3> QED  BY <3>2 DEF IsQuot, u
  <2> DEFINE j == m + 1
  <2>2. RawTail(r) = j * r.w * BPP  BY <1>6 DEF RawTail, lines, first, room, k, sz_rfbFramebufferUpdateRectHeader
  <2> HIDE DEF m
  <2>3. j \in Nat /\ j <= lines /\ lines \in Nat  BY <1>2, <2>1
  <2> HIDE DEF j
  <2>4. j * r.w * BPP = j * k  BY <1>1, <2>3 DEF k, BPP
  <2>5. j * k <= lines * k /\ j * k \in Nat  BY <1>1, <2>3, TimesMore
  <2> DEFINE a == j * k  b == lines * k
  <2>6. a \in Nat /\ a <= b /\ b <= UPDATE_BUF_SIZE /\ b \in Int  BY <1>1, <1>2, <2>5
  <2> HIDE DEF a, b
  <2>7. a \in 0 .. UPDATE_BUF_SIZE  BY <2>6, Sizes
  <2> QED  BY <2>2, <2>4, <2>7 DEF a
<1> QED  BY <1>5, <1>6

\* A rectangle sent raw is shown.
LEMMA RawSent ==
  ASSUME NEW scr \in Pictures, NEW o, IsOut(o), NEW r, On(r)
  PROVE  Sends(scr, o, rfbSendRectEncodingRaw(o, scr, r), r, 1)
<1> DEFINE f == rfbSendUpdateBuf(o)  h == Header(f, r, "raw")  c == Crop(scr, r)  t == RawTail(r)
           p == Put(h, <<"pixels", c>>, 0)  a == [p EXCEPT !.ublen = t]  y == Peak(h, t)
           q == [a EXCEPT !.high = y]
<1>1. IsOut(f) /\ Quiet(o, f) /\ f.ublen = 0  BY FlushIs
<1>2. rfbSendRectEncodingRaw(o, scr, r) = q  BY DEF rfbSendRectEncodingRaw
<1>3. t \in 0 .. UPDATE_BUF_SIZE  BY RawTailIs
<1> HIDE DEF t, f
<1>4. IsOut(h) /\ h.headers = f.headers + 1 /\ h.items = Append(f.items, <<"rect", r, "raw">>) /\ h.deflated = f.deflated
      /\ h.ublen = 12  BY <1>1, Sizes, HeaderIs
<1> HIDE DEF h
<1>5. IsOut(p) /\ Adds(h, p, <<"pixels", c>>)  BY <1>4, Sizes, PutIs
<1>6. h.high \in 4 .. UPDATE_BUF_SIZE  BY <1>4 DEF IsOut
<1>7. y \in 4 .. UPDATE_BUF_SIZE  BY <1>3, <1>6, Sizes DEF Peak
<1> HIDE DEF p, y, c
<1>8. /\ p = Out(p.ublen, p.high, p.headers, p.items, p.deflated) /\ IsSeq(p.items) /\ p.deflated \in [Streams -> Nat]
      /\ p.headers \in Nat /\ p.headers <= Len(p.items)  BY <1>5 DEF IsOut
<1>9. a = Out(t, p.high, p.headers, p.items, p.deflated)  BY <1>8, OutFields
<1> HIDE DEF a
<1>10. q = Out(t, y, p.headers, p.items, p.deflated)  BY <1>9, OutFields
<1>11. IsOut(q)  BY <1>3, <1>7, <1>8, <1>10, OutIs
<1> HIDE DEF q
<1>12. q.headers = p.headers /\ q.items = p.items /\ q.deflated = p.deflated  BY <1>10, OutFields
<1>13. /\ q.headers = o.headers + 1 /\ q.deflated = o.deflated
       /\ Ends2(q.items, o.items, <<"rect", r, "raw">>, <<"pixels", c>>)
  BY <1>1, <1>4, <1>5, <1>12 DEF Adds, Quiet, Ends2
<1>14. IsSeq(o.items) /\ IsRect(r)  BY DEF IsOut, On
<1>15. Extends(q.items, o.items) /\ Len(q.items) = Len(o.items) + 2  BY <1>13, <1>14, Follow2
<1>16. Cut(scr, r, c)  BY CropIs DEF c
<1>17. ASSUME NEW items, NEW pic, IsSeq(items), Extends(items, q.items), pic \in Seen
       PROVE  HandleRect(View(items, pic, Len(o.items) + 1, o.deflated))
             = View(items, Overlay(pic, Points(r), scr), Len(q.items) + 1, q.deflated)
  <2> DEFINE L == Len(o.items)  d == o.deflated
  <2>1. /\ L + 1 \in 1 .. Len(items) /\ items[L + 1] = <<"rect", r, "raw">>
        /\ L + 2 \in 1 .. Len(items) /\ items[L + 2] = <<"pixels", c>>
    <3>1. Follows2(items, o.items, <<"rect", r, "raw">>, <<"pixels", c>>)  BY <1>13, <1>14, <1>17, Follow2
    <3> QED  BY <3>1 DEF Follows2, Follows1
  <2>2. L \in Nat  BY <1>14, Appended
  <2> HIDE DEF L, d
  <2>3. HandleRect(View(items, pic, L + 1, d)) = Handle(View(items, pic, L + 1 + 1, d), r, "raw")
    BY <1>17, <2>1, HeaderRead
  <2>4. L + 1 + 1 = L + 2 /\ L + 2 + 1 = L + 3  BY <2>2
  <2> DEFINE v == View(items, pic, L + 2, d)
  <2>5. Next1(v) = <<"pixels", c>> /\ Took(v) = View(items, pic, L + 3, d)
    <3>1. Took(v) = View(items, pic, (L + 2) + 1, d)  BY ViewIs
    <3> QED  BY <1>17, <2>1, <2>4, <3>1, NextIs
  <2> HIDE DEF v
  <2>6. HandleRaw(v, r) = GotBitmap(View(items, pic, L + 3, d), r, c)  BY <2>5 DEF HandleRaw
  <2>7. GotBitmap(View(items, pic, L + 3, d), r, c) = View(items, Overlay(pic, Points(r), scr), L + 3, d)
    BY <1>16, <1>17, BitmapDrawn
  <2>8. HandleRect(View(items, pic, L + 1, d)) = View(items, Overlay(pic, Points(r), scr), L + 3, d)
    BY <2>3, <2>4, <2>6, <2>7, Handled DEF v
  <2> QED  BY <1>13, <1>15, <2>4, <2>8 DEF L, d
<1>18. Serve(scr, o, q, Points(r))  BY <1>11, <1>13, <1>15, <1>17, ServeOne
<1> QED  BY <1>2, <1>13, <1>18 DEF Sends

-----------------------------------------------------------------------------
(* Subrectangles. *)

LEMMA ZoneIs ==
  ASSUME NEW w \in Nat \ {0}, NEW h \in Nat \ {0}
  PROVE  \A p : p \in Zone(w, h) <=> /\ p = <<p[1], p[2]>> /\ p[1] \in Int /\ p[2] \in Int
                                     /\ 0 <= p[1] /\ p[1] < w /\ 0 <= p[2] /\ p[2] < h
<1> DEFINE z == Rect(0, 0, w, h)
<1>1. z.x = 0 /\ z.y = 0 /\ z.w = w /\ z.h = h  BY RectFields
<1> HIDE DEF z
<1>2. \A p : p \in Points(z) <=> /\ p = <<p[1], p[2]>> /\ p[1] \in Int /\ p[2] \in Int
                                 /\ z.x <= p[1] /\ p[1] < z.x + z.w /\ z.y <= p[2] /\ p[2] < z.y + z.h
  <2>1. z.x \in Int /\ z.y \in Int /\ z.w \in Int /\ z.h \in Int  BY <1>1
  <2> QED  BY <2>1, PointsOf
<1>3. 0 + w = w /\ 0 + h = h  OBVIOUS
<1> QED  BY <1>1, <1>2, <1>3 DEF Zone, z

LEMMA NthIs ==
  ASSUME NEW w \in Nat \ {0}, NEW h \in Nat \ {0}
  PROVE  /\ w * h \in Nat \ {0}
         /\ \A i \in 1 .. w * h : Nth(i, w) \in Zone(w, h)
         /\ \A q \in Zone(w, h) : IsNth(w, h, q)
<1>1. ASSUME NEW i \in 1 .. w * h PROVE Nth(i, w) \in Zone(w, h)
  <2>1. (i - 1) % w \in 0 .. w - 1 /\ (i - 1) \div w \in 0 .. h - 1  BY Cells
  <2> DEFINE a == (i - 1) % w  b == (i - 1) \div w  q == Nth(i, w)
  <2>2. q = <<a, b>> /\ a \in 0 .. w - 1 /\ b \in 0 .. h - 1  BY <2>1 DEF Nth
  <2> HIDE DEF q, a, b
  <2>3. q \in Zone(w, h)  BY <2>2, ZoneIs
  <2> QED  BY <2>3 DEF q
<1>2. ASSUME NEW q \in Zone(w, h) PROVE IsNth(w, h, q)
  <2>1. q = <<q[1], q[2]>> /\ q[1] \in 0 .. w - 1 /\ q[2] \in 0 .. h - 1  BY ZoneIs
  <2>2. HasCell(w, h, q[1], q[2])  BY <2>1, CellAt
  <2>3. PICK i \in 1 .. w * h : i = (w * q[2]) + q[1] + 1 /\ (i - 1) % w = q[1] /\ (i - 1) \div w = q[2]
    BY <2>2 DEF HasCell
  <2>4. Nth(i, w) = <<q[1], q[2]>>  BY <2>3 DEF Nth
  <2> HIDE DEF Nth
  <2>5. Nth(i, w) = q  BY <2>1, <2>4
  <2> QED  BY <2>3, <2>5 DEF IsNth
<1> QED  BY <1>1, <1>2, Cells

LEMMA SpanSub ==
  ASSUME NEW w \in Nat \ {0}, NEW h \in Nat \ {0}, NEW d, NEW p \in Zone(w, h),
         NEW b \in p[1] .. w - 1, NEW e \in p[2] .. h - 1,
         \A i \in p[1] .. b, j \in p[2] .. e : d[<<i, j>>] = d[p]
  PROVE  IsSub(d, w, h, p, Rect(p[1], p[2], b - p[1] + 1, e - p[2] + 1))
<1> DEFINE z == Rect(0, 0, w, h)  x == p[1]  y == p[2]  m == b - x + 1  n == e - y + 1  s == Rect(x, y, m, n)
<1>1. z.x = 0 /\ z.y = 0 /\ z.w = w /\ z.h = h /\ IsRect(z)
  <2>1. z.x = 0 /\ z.y = 0 /\ z.w = w /\ z.h = h  BY RectFields
  <2>2. IsRect(z)  BY <2>1 DEF IsRect
  <2> QED  BY <2>1, <2>2
<1>2. p = <<x, y>> /\ x \in 0 .. w - 1 /\ y \in 0 .. h - 1  BY ZoneIs
<1>3. m \in Nat \ {0} /\ n \in Nat \ {0} /\ x + m = b + 1 /\ y + n = e + 1  BY <1>2
<1> HIDE DEF x, y, m, n
<1>4. s.x = x /\ s.y = y /\ s.w = m /\ s.h = n /\ IsRect(s)
  <2>1. s.x = x /\ s.y = y /\ s.w = m /\ s.h = n  BY RectFields
  <2>2. IsRect(s)  BY <1>2, <1>3, RectIs
  <2> QED  BY <2>1, <2>2
<1> HIDE DEF s, z
<1>5. Within(s, z)  BY <1>1, <1>2, <1>3, <1>4 DEF Within, x, y
<1>6. Points(s) \subseteq Zone(w, h)  BY <1>1, <1>4, <1>5, PointsWithin DEF Zone, z
<1>7. \A q : q \in Points(s) <=> /\ q = <<q[1], q[2]>> /\ q[1] \in Int /\ q[2] \in Int
                                 /\ s.x <= q[1] /\ q[1] < s.x + s.w /\ s.y <= q[2] /\ q[2] < s.y + s.h
  <2>1. s.x \in Int /\ s.y \in Int /\ s.w \in Int /\ s.h \in Int  BY <1>4 DEF IsRect
  <2> QED  BY <2>1, PointsOf
<1>8. p \in Points(s)  BY <1>2, <1>3, <1>4, <1>7
<1>9. ASSUME NEW q \in Points(s) PROVE d[q] = d[p]
  <2>1. q = <<q[1], q[2]>> /\ q[1] \in x .. b /\ q[2] \in y .. e  BY <1>2, <1>3, <1>4, <1>7 DEF x, y
  <2>2. d[<<q[1], q[2]>>] = d[p]  BY <2>1 DEF x, y
  <2> QED  BY <2>1, <2>2
<1> QED  BY <1>4, <1>5, <1>6, <1>8, <1>9 DEF IsSub, s, z, x, y, m, n

\* The largest rectangle of one colour at a point.
LEMMA SubrectIs ==
  ASSUME NEW w \in Nat \ {0}, NEW h \in Nat \ {0}, NEW d, NEW p \in Zone(w, h)
  PROVE  IsSub(d, w, h, p, Subrect(d, w, h, p))
<1> DEFINE x == p[1]  y == p[2]
           down == {j \in y .. h - 1 : \A k \in y .. j : d[<<x, k>>] = d[p]}
           vy == Max(down)
           R(j) == RunEnd(d, w, p, j)
           ends == {R(j) : j \in y .. vy}
           vx == Min(ends)
           hx == R(y)
           wider == {j \in y .. vy : \A k \in y .. j : R(k) >= hx}
           hy == Max(wider)
           wide == Rect(x, y, hx - x + 1, hy - y + 1)
           high == Rect(x, y, vx - x + 1, vy - y + 1)
<1>1. p = <<x, y>> /\ x \in 0 .. w - 1 /\ y \in 0 .. h - 1  BY ZoneIs
<1> HIDE DEF x, y
<1>2. vy \in down
  <2>1. y \in down
    <3>1. \A k \in y .. y : k = y  BY <1>1
    <3> QED  BY <1>1, <3>1
  <2> DEFINE e == h - 1
  <2>2. down \in SUBSET Int /\ \A t \in down : y <= t /\ t <= e  BY <1>1
  <2>3. y \in Int /\ e \in Int  BY <1>1
  <2> HIDE DEF down, e
  <2> QED  BY <2>1, <2>2, <2>3, Extremes
<1>3. vy \in y .. h - 1 /\ \A k \in y .. vy : d[<<x, k>>] = d[p]  BY <1>2
<1> HIDE DEF vy
<1>4. ASSUME NEW j \in y .. vy
      PROVE  R(j) \in x .. w - 1 /\ \A k \in x .. R(j) : d[<<k, j>>] = d[p]
  <2> DEFINE T == {i \in x .. w - 1 : \A k \in x .. i : d[<<k, j>>] = d[p]}
  <2>1. R(j) = Max(T)  BY DEF RunEnd, x
  <2>2. x \in T
    <3>1. \A k \in x .. x : k = x  BY <1>1
    <3> QED  BY <1>1, <1>3, <3>1
  <2>3. T \in SUBSET Int /\ (\A t \in T : x <= t /\ t <= w - 1) /\ x \in Int /\ w - 1 \in Int  BY <1>1
  <2>4. Max(T) \in T
    <3> HIDE DEF T
    <3> QED  BY <2>2, <2>3, Extremes
  <2> QED  BY <2>1, <2>4
<1>5. y \in y .. vy  BY <1>1, <1>3
<1> HIDE DEF R
<1>6. vx \in ends /\ \A t \in ends : vx <= t
  <2>1. ends \in SUBSET Int /\ (\A t \in ends : x <= t /\ t <= w - 1) /\ x \in Int /\ w - 1 \in Int /\ ends # {}
    BY <1>1, <1>4, <1>5
  <2> HIDE DEF ends
  <2> QED  BY <2>1, Extremes
<1>7. vx \in x .. w - 1 /\ \A j \in y .. vy : vx <= R(j)  BY <1>4, <1>6
<1> HIDE DEF vx
<1>8. hy \in wider
  <2>1. y \in wider
    <3>1. \A k \in y .. y : k = y  BY <1>1
    <3>2. hx \in Int  BY <1>4, <1>5
    <3> QED  BY <1>5, <3>1, <3>2
  <2>2. wider \in SUBSET Int /\ (\A t \in wider : y <= t /\ t <= vy) /\ y \in Int /\ vy \in Int  BY <1>1, <1>3
  <2> HIDE DEF wider
  <2> QED  BY <2>1, <2>2, Extremes
<1>9. hy \in y .. vy /\ \A k \in y .. hy : R(k) >= hx  BY <1>8
<1> HIDE DEF hy
<1>10. IsSub(d, w, h, p, high)
  <2>1. ASSUME NEW i \in x .. vx, NEW j \in y .. vy PROVE d[<<i, j>>] = d[p]
    <3>1. R(j) \in Int /\ vx <= R(j) /\ vx \in Int  BY <1>4, <1>7, <1>1
    <3>2. i \in x .. R(j)  BY <1>1, <3>1
    <3> QED  BY <1>4, <3>2
  <2> QED  BY <1>3, <1>7, <2>1, SpanSub DEF x, y
<1>11. IsSub(d, w, h, p, wide)
  <2>1. hx \in x .. w - 1 /\ hy \in y .. h - 1  BY <1>1, <1>3, <1>4, <1>5, <1>9
  <2>2. ASSUME NEW i \in x .. hx, NEW j \in y .. hy PROVE d[<<i, j>>] = d[p]
    <3>1. j \in y .. vy  BY <1>1, <1>3, <1>9
    <3>2. R(j) \in Int /\ R(j) >= hx /\ hx \in Int  BY <1>4, <1>9, <2>1, <3>1, <1>1
    <3>3. i \in x .. R(j)  BY <1>1, <3>2
    <3> QED  BY <1>4, <3>1, <3>3
  <2> HIDE DEF hx
  <2> QED  BY <2>1, <2>2, SpanSub DEF x, y
<1>12. Subrect(d, w, h, p) \in {wide, high}  BY DEF Subrect, wide, high, hy, wider, hx, vx, ends, R, vy, down, x, y
<1> HIDE DEF wide, high
<1> QED  BY <1>10, <1>11, <1>12

-----------------------------------------------------------------------------
(* What a sequence of subrectangles shows, and that it is the data. *)

LEMMA UpToIs ==
  ASSUME NEW n \in Nat
  PROVE  Len(UpTo(n)) = n /\ \A i \in 1 .. n : UpTo(n)[i] = i
<1>1. UpTo(n) = [i \in 1 .. n |-> i]  BY DEF UpTo
<1>2. UpTo(n) \in Seq(1 .. n) /\ DOMAIN UpTo(n) = 1 .. n
  <2>1. UpTo(n) \in [1 .. n -> 1 .. n]  BY <1>1
  <2> QED  BY <2>1, SeqDef
<1> QED  BY <1>1, <1>2, LenProperties

LEMMA EmptyIs ==
  /\ IsSeq(<<>>) /\ Len(<<>>) = 0
<1>1. <<>> \in Seq({}) /\ Len(<<>>) = 0  OBVIOUS
<1> QED  BY <1>1 DEF IsSeq

LEMMA PaintMore ==
  ASSUME NEW w, NEW h, NEW bg, NEW subs, IsSeq(subs), NEW e
  PROVE  /\ Paint(w, h, bg, <<>>) = Plain(w, h, bg)
         /\ Paint(w, h, bg, Append(subs, e)) = PaintStep(Zone(w, h), 0, Paint(w, h, bg, subs), e)
<1>1. PICK S : subs \in Seq(S)  BY DEF IsSeq
<1>2. subs \in Seq(S \cup {e}) /\ e \in S \cup {e}  BY <1>1
<1>3. Len(Append(subs, e)) = Len(subs) + 1  BY Appended
<1>4. Painting!After(Zone(w, h), 0, Plain(w, h, bg), Append(subs, e))[Len(subs) + 1]
        = PaintStep(Zone(w, h), 0, Painting!After(Zone(w, h), 0, Plain(w, h, bg), subs)[Len(subs)], e)
  BY <1>2, Painting!AfterMore, Reached DEF Painting!Upward
<1>5. Painting!After(Zone(w, h), 0, Plain(w, h, bg), <<>>)[0] = Plain(w, h, bg)
  <2>1. Len(<<>>) \in Nat  OBVIOUS
  <2> QED  BY <2>1, Painting!AfterExists, Reached DEF Painting!Upward
<1> QED  BY <1>3, <1>4, <1>5, EmptyIs DEF Paint

\* Each turn of subrectEncode takes points off those not yet drawn.
LEMMA TakeOne ==
  ASSUME NEW r, IsRect(r), NEW C, NEW data \in [Zone(r.w, r.h) -> C], NEW bg, NEW acc,
         Took1(r.w, r.h, data, bg, C, acc), NEW i \in 1 .. r.w * r.h
  PROVE  Takes(r, data, bg, C, acc, SubsStep(r, bg, acc, i), i)
<1> DEFINE w == r.w  h == r.h  Z == Zone(w, h)  p == Nth(i, w)  new == SubsStep(r, bg, acc, i)
<1>1. w \in Nat \ {0} /\ h \in Nat \ {0} /\ p \in Z  BY NthIs DEF IsRect
<1>2. CASE acc.d[p] = bg  BY <1>1, <1>2 DEF SubsStep, Takes
<1>3. CASE acc.d[p] # bg
  <2> DEFINE s == Subrect(acc.d, w, h, p)  e == <<acc.d[p], s>>
             d == [q \in DOMAIN acc.d |-> IF q \in Points(s) THEN bg ELSE acc.d[q]]
             t == Append(acc.subs, e)
  <2>1. new = [d |-> d, subs |-> t]  BY <1>3 DEF SubsStep
  <2>2. new.d = d /\ new.subs = t  BY <2>1
  <2>3. IsSub(acc.d, w, h, p, s)  BY <1>1, SubrectIs
  <2>4. DOMAIN d = Z  BY DEF Took1
  <2> DEFINE P == Paint(w, h, bg, acc.subs)
  <2>5. Paint(w, h, bg, t) = PaintStep(Z, 0, P, e)  BY PaintMore DEF Took1, IsSubs
  <2>6. \A q \in Z : Paint(w, h, bg, t)[q] = IF q \in Points(s) THEN acc.d[p] ELSE P[q]  BY <2>5 DEF PaintStep
  <2>7. \A q \in Z : d[q] = IF q \in Points(s) THEN bg ELSE acc.d[q]  BY DEF Took1
  <2>8. \A q \in Z : \/ acc.d[q] = data[q] /\ P[q] = bg
                     \/ acc.d[q] = bg /\ P[q] = data[q]  BY DEF Took1
  <2>9. acc.d[p] \in C \ {bg}  BY <1>1, <1>3, <2>8
  <2>10. IsSubs(w, h, t, C \ {bg})
    <3> DEFINE a == acc.subs  z == Rect(0, 0, w, h)
    <3>1. IsSeq(a) /\ \A j \in 1 .. Len(a) : /\ a[j] = <<a[j][1], a[j][2]>> /\ a[j][1] \in C \ {bg}
                                             /\ IsRect(a[j][2]) /\ Within(a[j][2], z)  BY DEF Took1, IsSubs
    <3>2. IsRect(s) /\ Within(s, z)  BY <2>3 DEF IsSub
    <3>3. e = <<e[1], e[2]>> /\ e[1] \in C \ {bg} /\ e[2] = s  BY <2>9
    <3> HIDE DEF a, z, s, e
    <3> DEFINE u == Append(a, e)
    <3>4. /\ IsSeq(u) /\ Len(a) \in Nat /\ Len(u) = Len(a) + 1 /\ u[Len(a) + 1] = e
          /\ \A j \in 1 .. Len(a) : u[j] = a[j]  BY <3>1, Appended DEF Extends
    <3> HIDE DEF u
    <3>5. ASSUME NEW j \in 1 .. Len(u)
          PROVE  u[j] = <<u[j][1], u[j][2]>> /\ u[j][1] \in C \ {bg} /\ IsRect(u[j][2]) /\ Within(u[j][2], z)
      <4>1. CASE j = Len(a) + 1  BY <3>2, <3>3, <3>4, <4>1
      <4>2. CASE j # Len(a) + 1
        <5>1. j \in 1 .. Len(a)  BY <3>4, <4>2
        <5> QED  BY <3>1, <3>4, <5>1
      <4> QED  BY <4>1, <4>2
    <3> QED  BY <3>4, <3>5 DEF IsSubs, a, z, u
  <2>11. ASSUME NEW q \in Points(s) PROVE acc.d[q] = acc.d[p] /\ q \in Z  BY <2>3 DEF IsSub
  <2>12. p \in Points(s)  BY <2>3 DEF IsSub
  <2> HIDE DEF s, d, t, P, e, new
  <2>13. ASSUME NEW q \in Z
         PROVE  \/ d[q] = data[q] /\ Paint(w, h, bg, t)[q] = bg
                \/ d[q] = bg /\ Paint(w, h, bg, t)[q] = data[q]  BY <1>3, <2>6, <2>7, <2>8, <2>11
  <2>14. Took1(w, h, data, bg, C, new)  BY <2>2, <2>4, <2>10, <2>13 DEF Took1
  <2>15. new.d[p] = bg /\ \A q \in Z : acc.d[q] = bg => new.d[q] = bg  BY <1>1, <2>2, <2>7, <2>12
  <2> QED  BY <2>14, <2>15 DEF new, Takes
<1> QED  BY <1>2, <1>3

\* The subrectangles cover what is not background.
LEMMA SubrectsAre ==
  ASSUME NEW r, IsRect(r), NEW C, NEW data \in [Zone(r.w, r.h) -> C], NEW bg
  PROVE  Shows(r, Subrects(data, r, bg), bg, data, C)
<1> DEFINE w == r.w  h == r.h  Z == Zone(w, h)  n == Area(r)  seq == UpTo(n)
           start == [d |-> data, subs |-> <<>>]
           f == Taking!After(r, bg, start, seq)
<1>1. w \in Nat \ {0} /\ h \in Nat \ {0} /\ n = w * h  BY DEF IsRect, Area
<1>2. n \in Nat  BY <1>1
<1> HIDE DEF n
<1>3. Len(seq) = n /\ \A i \in 1 .. n : seq[i] = i  BY <1>2, UpToIs
<1> HIDE DEF seq
<1>4. f[0] = start /\ \A i \in 1 .. n : f[i] = SubsStep(r, bg, f[i - 1], i)
  BY <1>2, <1>3, Taking!AfterExists, Reached DEF Taking!Upward
<1>5. Subrects(data, r, bg) = f[n].subs  BY <1>3 DEF Subrects, InTurn, Taking!After, SubsStep, seq, n
<1> HIDE DEF f
<1> DEFINE Q == {k \in 0 .. n : /\ Took1(w, h, data, bg, C, f[k])
                                /\ \A i \in 1 .. k : f[k].d[Nth(i, w)] = bg}
<1>6. 0 \in Q
  <2>1. start.d = data /\ start.subs = <<>>  OBVIOUS
  <2> HIDE DEF start
  <2>2. IsSubs(w, h, <<>>, C \ {bg})  BY EmptyIs DEF IsSubs
  <2>3. Paint(w, h, bg, <<>>) = Plain(w, h, bg)  BY PaintMore, EmptyIs
  <2>4. \A q \in Z : Plain(w, h, bg)[q] = bg  BY DEF Plain
  <2>5. Took1(w, h, data, bg, C, start)  BY <2>1, <2>2, <2>3, <2>4 DEF Took1
  <2> QED  BY <1>2, <1>4, <2>5
<1>7. ASSUME NEW k \in 0 .. n - 1, k \in Q PROVE k + 1 \in Q
  <2>1. k + 1 \in 1 .. n /\ (k + 1) - 1 = k /\ k + 1 \in 0 .. n  BY <1>2
  <2>2. f[k + 1] = SubsStep(r, bg, f[k], k + 1)  BY <1>4, <2>1
  <2> DEFINE a == f[k]  b == f[k + 1]
  <2>3. Took1(w, h, data, bg, C, a) /\ \A i \in 1 .. k : a.d[Nth(i, w)] = bg  BY <1>7
  <2> HIDE DEF a, b
  <2>4. /\ Took1(w, h, data, bg, C, b) /\ b.d[Nth(k + 1, w)] = bg
        /\ \A q \in Z : a.d[q] = bg => b.d[q] = bg
    <3>1. k + 1 \in 1 .. r.w * r.h  BY <1>1, <2>1
    <3>2. b = SubsStep(r, bg, a, k + 1)  BY <2>2 DEF a, b
    <3> DEFINE kk == k + 1
    <3>3. kk \in 1 .. r.w * r.h /\ b = SubsStep(r, bg, a, kk)  BY <3>1, <3>2
    <3> HIDE DEF kk
    <3>4. /\ Took1(w, h, data, bg, C, b) /\ b.d[Nth(kk, w)] = bg
          /\ \A q \in Z : a.d[q] = bg => b.d[q] = bg
      <4>1. Took1(r.w, r.h, data, bg, C, a)  BY <2>3
      <4>2. Takes(r, data, bg, C, a, SubsStep(r, bg, a, kk), kk)  BY <3>3, <4>1, TakeOne
      <4> QED  BY <3>3, <4>2 DEF Takes
    <3> QED  BY <3>4 DEF kk
  <2>5. \A i \in 1 .. k + 1 : b.d[Nth(i, w)] = bg
    <3>1. ASSUME NEW i \in 1 .. k + 1, i # k + 1 PROVE b.d[Nth(i, w)] = bg
      <4>1. i \in 1 .. k /\ i \in 1 .. w * h  BY <1>1, <2>1, <3>1
      <4>2. Nth(i, w) \in Z  BY <1>1, <4>1, NthIs
      <4> QED  BY <2>3, <2>4, <4>1, <4>2
    <3> QED  BY <2>4, <3>1
  <2> QED  BY <2>1, <2>4, <2>5 DEF b
<1>8. \A k \in 0 .. n : k \in Q
  <2> HIDE DEF Q
  <2> QED  BY <1>2, <1>6, <1>7, Reached
<1>9. Took1(w, h, data, bg, C, f[n]) /\ \A i \in 1 .. n : f[n].d[Nth(i, w)] = bg
  <2>1. n \in Q
    <3> HIDE DEF Q
    <3> QED  BY <1>2, <1>8
  <2> QED  BY <2>1
<1>10. ASSUME NEW q \in Z PROVE f[n].d[q] = bg
  <2>1. IsNth(w, h, q)  BY <1>1, NthIs
  <2> QED  BY <1>1, <1>9, <2>1 DEF IsNth
<1>11. \A q \in Z : Paint(w, h, bg, f[n].subs)[q] = data[q]  BY <1>9, <1>10 DEF Took1
<1> QED  BY <1>5, <1>9, <1>11 DEF Took1, Shows

-----------------------------------------------------------------------------
(* What the viewer draws of subrectangles.  RRE and CoRRE. *)

\* Where a point of the screen is in a rectangle, and in a part of it.
LEMMA Place ==
  ASSUME NEW r, IsRect(r), NEW s, IsRect(s), Within(s, Rect(0, 0, r.w, r.h)), NEW p
  PROVE  LET q == <<p[1] - r.x, p[2] - r.y>>
             t == Rect(r.x + s.x, r.y + s.y, s.w, s.h)
         IN  /\ p \in Points(r) => q \in Zone(r.w, r.h)
             /\ p \in Points(t) <=> p \in Points(r) /\ q \in Points(s)
<1> DEFINE q == <<p[1] - r.x, p[2] - r.y>>
           t == Rect(r.x + s.x, r.y + s.y, s.w, s.h)
           z == Rect(0, 0, r.w, r.h)
<1>1. /\ r.x \in Int /\ r.y \in Int /\ r.w \in Nat \ {0} /\ r.h \in Nat \ {0}
      /\ s.x \in Int /\ s.y \in Int /\ s.w \in Nat \ {0} /\ s.h \in Nat \ {0}  BY DEF IsRect
<1>2. z.x = 0 /\ z.y = 0 /\ z.w = r.w /\ z.h = r.h  BY RectFields
<1> HIDE DEF z
<1>3. 0 <= s.x /\ 0 <= s.y /\ s.x + s.w <= r.w /\ s.y + s.h <= r.h  BY <1>1, <1>2 DEF Within, z
<1>4. t.x = r.x + s.x /\ t.y = r.y + s.y /\ t.w = s.w /\ t.h = s.h  BY RectFields
<1> HIDE DEF t
<1>5. p \in Points(r) <=> /\ p = <<p[1], p[2]>> /\ p[1] \in Int /\ p[2] \in Int
                          /\ r.x <= p[1] /\ p[1] < r.x + r.w /\ r.y <= p[2] /\ p[2] < r.y + r.h  BY <1>1, PointsOf
<1>6. p \in Points(t) <=> /\ p = <<p[1], p[2]>> /\ p[1] \in Int /\ p[2] \in Int
                          /\ t.x <= p[1] /\ p[1] < t.x + t.w /\ t.y <= p[2] /\ p[2] < t.y + t.h
  <2>1. t.x \in Int /\ t.y \in Int /\ t.w \in Int /\ t.h \in Int  BY <1>1, <1>4
  <2> QED  BY <2>1, PointsOf
<1>7. q \in Points(s) <=> /\ q[1] \in Int /\ q[2] \in Int
                          /\ s.x <= q[1] /\ q[1] < s.x + s.w /\ s.y <= q[2] /\ q[2] < s.y + s.h
  <2>1. q = <<q[1], q[2]>>  OBVIOUS
  <2> HIDE DEF q
  <2> QED  BY <1>1, <2>1, PointsOf
<1>8. q \in Zone(r.w, r.h) <=> /\ q[1] \in Int /\ q[2] \in Int
                               /\ 0 <= q[1] /\ q[1] < r.w /\ 0 <= q[2] /\ q[2] < r.h
  <2>1. q = <<q[1], q[2]>>  OBVIOUS
  <2> HIDE DEF q
  <2> QED  BY <1>1, <2>1, ZoneIs
<1>9. q[1] = p[1] - r.x /\ q[2] = p[2] - r.y  OBVIOUS
<1> HIDE DEF q
<1>10. ASSUME p \in Points(r) PROVE q \in Zone(r.w, r.h)  BY <1>1, <1>5, <1>8, <1>9, <1>10
<1>11. ASSUME p \in Points(r), q \in Points(s) PROVE p \in Points(t)  BY <1>1, <1>4, <1>5, <1>6, <1>7, <1>9, <1>11
<1>12. ASSUME p \in Points(t) PROVE p \in Points(r) /\ q \in Points(s)
  <2>1. p = <<p[1], p[2]>> /\ p[1] \in Int /\ p[2] \in Int  BY <1>6, <1>12
  <2> QED  BY <1>1, <1>3, <1>4, <1>5, <1>6, <1>7, <1>9, <1>12, <2>1
<1> QED  BY <1>10, <1>11, <1>12 DEF q, t

\* The viewer draws them in the same order.
LEMMA DrawOne ==
  ASSUME NEW r, IsRect(r), NEW pic, NEW c, NEW s, IsRect(s[2]), Within(s[2], Rect(0, 0, r.w, r.h))
  PROVE  Filled(Shade(pic, r, c), Rect(r.x + s[2].x, r.y + s[2].y, s[2].w, s[2].h), s[1])
           = Shade(pic, r, PaintStep(Zone(r.w, r.h), 0, c, s))
<1> DEFINE t == Rect(r.x + s[2].x, r.y + s[2].y, s[2].w, s[2].h)  Z == Zone(r.w, r.h)
           b == PaintStep(Z, 0, c, s)
           at(p) == <<p[1] - r.x, p[2] - r.y>>
<1>1. ASSUME NEW p \in Screen
      PROVE  /\ p \in Points(r) => at(p) \in Z
             /\ p \in Points(t) <=> p \in Points(r) /\ at(p) \in Points(s[2])  BY Place
<1>2. \A q \in Z : b[q] = IF q \in Points(s[2]) THEN s[1] ELSE c[q]  BY DEF PaintStep
<1> HIDE DEF at, b, t, Z
<1>3. ASSUME NEW p \in Screen
      PROVE  (IF p \in Points(t) THEN s[1] ELSE (IF p \in Points(r) THEN c[at(p)] ELSE pic[p]))
               = (IF p \in Points(r) THEN b[at(p)] ELSE pic[p])  BY <1>1, <1>2
<1>4. ASSUME NEW p \in Screen PROVE Shade(pic, r, c)[p] = IF p \in Points(r) THEN c[at(p)] ELSE pic[p]
  BY DEF Shade, at
<1>5. Filled(Shade(pic, r, c), t, s[1])
        = [p \in Screen |-> IF p \in Points(t) THEN s[1] ELSE IF p \in Points(r) THEN c[at(p)] ELSE pic[p]]
  BY <1>4 DEF Filled
<1>6. Shade(pic, r, b) = [p \in Screen |-> IF p \in Points(r) THEN b[at(p)] ELSE pic[p]]  BY DEF Shade, at
<1>7. Filled(Shade(pic, r, c), t, s[1]) = Shade(pic, r, b)  BY <1>3, <1>5, <1>6
<1> QED  BY <1>7 DEF t, b, Z

\* The viewer ends up with what subs shows.
LEMMA DrawnIs ==
  ASSUME NEW r, On(r), NEW pic, DOMAIN pic = Screen, NEW items, NEW at, NEW inf, NEW bg, NEW C,
         NEW subs, IsSubs(r.w, r.h, subs, C)
  PROVE  Drawn(GotFillRect(View(items, pic, at, inf), r, bg), r, subs)
           = View(items, Shade(pic, r, Paint(r.w, r.h, bg, subs)), at, inf)
<1> DEFINE Z == Zone(r.w, r.h)  n == Len(subs)  plain == Plain(r.w, r.h, bg)
           start == View(items, Filled(pic, r, bg), at, inf)
           f == Drawing!After(r, 0, start, subs)
           g == Painting!After(Z, 0, plain, subs)
<1>1. n \in Nat  BY Appended DEF IsSubs
<1>2. IsRect(r)  BY DEF On
<1>3. GotFillRect(View(items, pic, at, inf), r, bg) = start  BY FillDrawn
<1> HIDE DEF start
<1>4. Drawn(start, r, subs) = f[n]  BY DEF Drawn, InTurn, Drawing!After, DrawStep
<1>5. Paint(r.w, r.h, bg, subs) = g[n]  BY DEF Paint
<1>6. f[0] = start /\ \A i \in 1 .. n : f[i] = DrawStep(r, 0, f[i - 1], subs[i])
  BY <1>1, Drawing!AfterExists, Reached DEF Drawing!Upward
<1>7. g[0] = plain /\ \A i \in 1 .. n : g[i] = PaintStep(Z, 0, g[i - 1], subs[i])
  BY <1>1, Painting!AfterExists, Reached DEF Painting!Upward
<1> HIDE DEF f, g, n
<1> DEFINE Q == {k \in 0 .. n : f[k] = View(items, Shade(pic, r, g[k]), at, inf)}
<1>8. 0 \in Q
  <2>1. ASSUME NEW p \in Points(r) PROVE plain[<<p[1] - r.x, p[2] - r.y>>] = bg
    <3> DEFINE s == Rect(0, 0, r.w, r.h)
    <3>1. IsRect(s) /\ Within(s, s)
      <4>1. s.x = 0 /\ s.y = 0 /\ s.w = r.w /\ s.h = r.h  BY RectFields
      <4>2. r.w \in Nat \ {0} /\ r.h \in Nat \ {0}  BY <1>2 DEF IsRect
      <4> QED  BY <4>1, <4>2 DEF IsRect, Within
    <3> HIDE DEF s
    <3>2. <<p[1] - r.x, p[2] - r.y>> \in Zone(r.w, r.h)  BY <1>2, <3>1, Place DEF s
    <3> QED  BY <3>2 DEF Plain
  <2> HIDE DEF plain
  <2>2. Filled(pic, r, bg) = Shade(pic, r, plain)  BY <2>1 DEF Filled, Shade
  <2> QED  BY <1>1, <1>6, <1>7, <2>2 DEF start
<1>9. ASSUME NEW k \in 0 .. n - 1, k \in Q PROVE k + 1 \in Q
  <2>1. k + 1 \in 1 .. n /\ (k + 1) - 1 = k /\ k + 1 \in 0 .. n  BY <1>1
  <2> DEFINE s == subs[k + 1]  t == Rect(r.x + s[2].x, r.y + s[2].y, s[2].w, s[2].h)  c == g[k]
             P == Shade(pic, r, c)
  <2>2. f[k + 1] = GotFillRect(f[k], t, s[1]) /\ g[k + 1] = PaintStep(Z, 0, c, s)  BY <1>6, <1>7, <2>1 DEF DrawStep
  <2>3. f[k] = View(items, P, at, inf)  BY <1>9
  <2>4. IsRect(s[2]) /\ Within(s[2], Rect(0, 0, r.w, r.h))  BY <2>1 DEF IsSubs, n
  <2> HIDE DEF s, c
  <2>5. DOMAIN P = Screen  BY DEF Shade
  <2>7. Filled(P, t, s[1]) = Shade(pic, r, PaintStep(Z, 0, c, s))  BY <1>2, <2>4, DrawOne
  <2> HIDE DEF P, t
  <2>6. GotFillRect(View(items, P, at, inf), t, s[1]) = View(items, Filled(P, t, s[1]), at, inf)  BY <2>5, FillDrawn
  <2> QED  BY <2>1, <2>2, <2>3, <2>6, <2>7
<1>10. \A k \in 0 .. n : k \in Q
  <2> HIDE DEF Q
  <2> QED  BY <1>1, <1>8, <1>9, Reached
<1>11. n \in Q
  <2> HIDE DEF Q
  <2> QED  BY <1>1, <1>10
<1> QED  BY <1>3, <1>4, <1>5, <1>11

\* Data that are those of scr.
LEMMA ShadeIs ==
  ASSUME NEW scr \in Pictures, NEW r, On(r), NEW pic, NEW c, \A q \in Zone(r.w, r.h) : c[q] = Crop(scr, r)[q]
  PROVE  Shade(pic, r, c) = Overlay(pic, Points(r), scr)
<1>1. ASSUME NEW p \in Points(r) PROVE c[<<p[1] - r.x, p[2] - r.y>>] = scr[p]
  <2> DEFINE q == <<p[1] - r.x, p[2] - r.y>>
  <2>1. q \in Zone(r.w, r.h) /\ Crop(scr, r)[q] = scr[p]  BY CropIs DEF Zone
  <2> HIDE DEF q
  <2>2. c[q] = scr[p]  BY <2>1
  <2> QED  BY <2>2 DEF q
<1> QED  BY <1>1 DEF Shade, Overlay

\* A rectangle sent with RRE is shown, or raw if that is shorter.
LEMMA RreSent ==
  ASSUME NEW scr \in Pictures, NEW o, IsOut(o), NEW r, On(r), NEW enc \in {"rre", "corre"}, NEW szSubrect \in Nat
  PROVE  Sends(scr, o, Rre(o, scr, r, enc, szSubrect), r, 1)
<1> DEFINE data == Crop(scr, r)  bg == data[<<0, 0>>]  subs == Subrects(data, r, bg)  k == Len(subs)
           len == BPP + k * (BPP + szSubrect)
           room == Room(o, 16)  h == Header(room, r, enc)  one == <<"rect", r, enc>>
           two == <<"subrects", k>>  p == Put(h, two, 4)
           three == <<"filled", bg, subs>>  q == Copied(p, three, len)
<1>1. Rre(o, scr, r, enc, szSubrect) = IF len > Area(r) * BPP THEN rfbSendRectEncodingRaw(o, scr, r) ELSE q
  <2>1. sz_rfbFramebufferUpdateRectHeader + sz_rfbRREHeader = 16
    BY DEF sz_rfbFramebufferUpdateRectHeader, sz_rfbRREHeader
  <2> QED  BY <2>1 DEF Rre, sz_rfbRREHeader
<1>2. CASE len > Area(r) * BPP  BY <1>1, <1>2, RawSent
<1>3. CASE ~(len > Area(r) * BPP)
  <2>1. IsRect(r) /\ data \in [Zone(r.w, r.h) -> Colours]  BY CropIs DEF On, Zone
  <2> HIDE DEF data
  <2>2. IsSubs(r.w, r.h, subs, Colours \ {bg}) /\ \A z \in Zone(r.w, r.h) : Paint(r.w, r.h, bg, subs)[z] = data[z]
    <3>1. Shows(r, subs, bg, data, Colours)  BY <2>1, SubrectsAre
    <3> QED  BY <3>1 DEF Shows
  <2>21. Rre(o, scr, r, enc, szSubrect) = q  BY <1>1, <1>3
  <2> HIDE DEF subs, bg
  <2>3. k \in Nat  BY <2>2, Appended DEF IsSubs
  <2>4. len \in Nat  BY <2>3 DEF BPP
  <2> HIDE DEF k, len
  <2>5. IsOut(room) /\ Quiet(o, room) /\ room.ublen + 16 <= UPDATE_BUF_SIZE  BY Sizes, RoomIs
  <2>6. room.ublen \in Nat  BY <2>5 DEF IsOut
  <2> HIDE DEF room, one, two, three
  <2>7. IsOut(h) /\ h.headers = room.headers + 1 /\ h.items = Append(room.items, one) /\ h.deflated = room.deflated
        /\ h.ublen = room.ublen + 12
    <3>1. room.ublen + 12 <= UPDATE_BUF_SIZE  BY <2>5, <2>6, Sizes
    <3> QED  BY <2>5, <3>1, HeaderIs DEF one
  <2> HIDE DEF h
  <2>8. IsOut(p) /\ Adds(h, p, two)
    <3>1. h.ublen + 4 <= UPDATE_BUF_SIZE  BY <2>5, <2>6, <2>7, Sizes
    <3> QED  BY <2>7, <3>1, PutIs
  <2> HIDE DEF p
  <2>9. IsOut(q) /\ Adds(p, q, three)  BY <2>4, <2>8, CopiedIs
  <2> HIDE DEF q
  <2>10. q.headers = o.headers + 1 /\ q.deflated = o.deflated /\ Ends3(q.items, o.items, one, two, three)
    BY <2>5, <2>7, <2>8, <2>9 DEF Adds, Quiet, Ends3
  <2>11. IsSeq(o.items)  BY DEF IsOut
  <2>12. Extends(q.items, o.items) /\ Len(q.items) = Len(o.items) + 3  BY <2>10, <2>11, Follow3
  <2>13. ASSUME NEW items, NEW pic, IsSeq(items), Extends(items, q.items), pic \in Seen
         PROVE  HandleRect(View(items, pic, Len(o.items) + 1, o.deflated))
                  = View(items, Overlay(pic, Points(r), scr), Len(q.items) + 1, q.deflated)
    <3>1. Follows3(items, o.items, one, two, three)  BY <2>10, <2>11, <2>13, Follow3
    <3> DEFINE L == Len(o.items)  d == o.deflated
    <3>2. /\ L + 1 \in 1 .. Len(items) /\ items[L + 1] = one
          /\ L + 2 \in 1 .. Len(items) /\ items[L + 2] = two
          /\ L + 3 \in 1 .. Len(items) /\ items[L + 3] = three  BY <3>1 DEF Follows3, Follows2, Follows1
    <3>3. L \in Nat  BY <2>11, Appended
    <3> HIDE DEF L, d
    <3>4. L + 1 + 1 = L + 2 /\ L + 2 + 1 = L + 3 /\ L + 3 + 1 = L + 4  BY <3>3
    <3> DEFINE v == View(items, pic, L + 2, d)  w == View(items, pic, L + 3, d)  x == View(items, pic, L + 4, d)
    <3>5. HandleRect(View(items, pic, L + 1, d)) = Handle(View(items, pic, L + 1 + 1, d), r, enc)
      BY <2>13, <3>2, HeaderRead DEF one
    <3>6. Next1(v) = two /\ Took(v) = w
      <4>1. Took(v) = View(items, pic, L + 2 + 1, d)  BY ViewIs
      <4>2. Next1(v) = two  BY <2>13, <3>2, NextIs
      <4> QED  BY <3>4, <4>1, <4>2
    <3>7. Next1(w) = three /\ Took(w) = x
      <4>1. Took(w) = View(items, pic, L + 3 + 1, d)  BY ViewIs
      <4>2. Next1(w) = three  BY <2>13, <3>2, NextIs
      <4> QED  BY <3>4, <4>1, <4>2
    <3>8. Drawn(GotFillRect(x, r, bg), r, subs) = View(items, Shade(pic, r, Paint(r.w, r.h, bg, subs)), L + 4, d)
      BY <2>2, <2>13, DrawnIs DEF Seen
    <3>9. Shade(pic, r, Paint(r.w, r.h, bg, subs)) = Overlay(pic, Points(r), scr)  BY <2>2, ShadeIs DEF data
    <3> HIDE DEF v, w, x
    <3>10. HandleRRE(v, r) = Drawn(GotFillRect(x, r, bg), r, subs)
      <4>1. Next1(v)[1] = "subrects" /\ Next1(v)[2] = k  BY <3>6 DEF two
      <4>2. Next1(Took(v)) = three /\ three[1] = "filled" /\ three[2] = bg /\ three[3] = subs  BY <3>6, <3>7 DEF three
      <4> QED  BY <3>6, <3>7, <4>1, <4>2 DEF HandleRRE, k
    <3>11. Handle(v, r, enc) = HandleRRE(v, r)  BY Handled
    <3> QED  BY <2>10, <2>12, <3>4, <3>5, <3>8, <3>9, <3>10, <3>11 DEF L, d, v
  <2>14. Serve(scr, o, q, Points(r))  BY <2>9, <2>10, <2>12, <2>13, ServeOne
  <2> QED  BY <2>10, <2>14, <2>21 DEF Sends
<1> QED  BY <1>2, <1>3

-----------------------------------------------------------------------------
(* Rectangles of three and four items; several for one. *)

LEMMA ServeThree ==
  ASSUME NEW scr \in Pictures, NEW o, NEW q, IsOut(o), IsOut(q), q.headers = o.headers + 1,
         NEW r, NEW enc, enc # "last", NEW b, NEW c, Ends3(q.items, o.items, <<"rect", r, enc>>, b, c), NEW D,
         Reads3(scr, o, q, r, enc, b, c, D)
  PROVE  Serve(scr, o, q, D)
<1> DEFINE one == <<"rect", r, enc>>
<1>1. Ends3(q.items, o.items, one, b, c)  OBVIOUS
<1>11. IsSeq(o.items)  BY DEF IsOut
<1>12. Extends(q.items, o.items) /\ Len(q.items) = Len(o.items) + 3
  <2> HIDE DEF one
  <2> QED  BY <1>1, <1>11, Follow3
<1>13. ASSUME NEW items, NEW pic, IsSeq(items), Extends(items, q.items), pic \in Seen
       PROVE  HandleRect(View(items, pic, Len(o.items) + 1, o.deflated))
                = View(items, Overlay(pic, D, scr), Len(q.items) + 1, q.deflated)
  <2>1. Follows3(items, o.items, one, b, c)
    <3> HIDE DEF one
    <3> QED  BY <1>1, <1>11, <1>13, Follow3
  <2> DEFINE L == Len(o.items)  d == o.deflated  at == L + 2
  <2>2. /\ L + 1 \in 1 .. Len(items) /\ items[L + 1] = one
        /\ L + 2 \in 1 .. Len(items) /\ items[L + 2] = b
        /\ L + 3 \in 1 .. Len(items) /\ items[L + 3] = c  BY <2>1 DEF Follows3, Follows2, Follows1
  <2>3. L \in Nat  BY <1>11, Appended
  <2>4. L + 1 + 1 = L + 2 /\ at + 1 = L + 3 /\ at + 2 = Len(q.items) + 1  BY <1>12, <2>3
  <2> HIDE DEF L, d, one
  <2>5. HandleRect(View(items, pic, L + 1, d)) = Handle(View(items, pic, L + 1 + 1, d), r, enc)
    BY <1>13, <2>2, HeaderRead DEF one
  <2>6. /\ at \in 1 .. Len(items) /\ items[at] = b /\ L + 1 + 1 = at
        /\ at + 1 \in 1 .. Len(items) /\ items[at + 1] = c  BY <2>2, <2>4
  <2> HIDE DEF at
  <2>7. Handle(View(items, pic, at, d), r, enc) = View(items, Overlay(pic, D, scr), at + 2, q.deflated)
    BY <1>13, <2>6 DEF d, Reads3
  <2> QED  BY <2>4, <2>5, <2>6, <2>7 DEF L, d
<1> QED  BY <1>12, <1>13, ServeOne

LEMMA ServeFour ==
  ASSUME NEW scr \in Pictures, NEW o, NEW q, IsOut(o), IsOut(q), q.headers = o.headers + 1,
         NEW r, NEW enc, enc # "last", NEW b, NEW c, NEW e, Ends4(q.items, o.items, <<"rect", r, enc>>, b, c, e), NEW D,
         Reads4(scr, o, q, r, enc, b, c, e, D)
  PROVE  Serve(scr, o, q, D)
<1> DEFINE one == <<"rect", r, enc>>
<1>1. Ends4(q.items, o.items, one, b, c, e)  OBVIOUS
<1>11. IsSeq(o.items)  BY DEF IsOut
<1>12. Extends(q.items, o.items) /\ Len(q.items) = Len(o.items) + 4
  <2> HIDE DEF one
  <2> QED  BY <1>1, <1>11, Follow4
<1>13. ASSUME NEW items, NEW pic, IsSeq(items), Extends(items, q.items), pic \in Seen
       PROVE  HandleRect(View(items, pic, Len(o.items) + 1, o.deflated))
                = View(items, Overlay(pic, D, scr), Len(q.items) + 1, q.deflated)
  <2>1. Follows4(items, o.items, one, b, c, e)
    <3> HIDE DEF one
    <3> QED  BY <1>1, <1>11, <1>13, Follow4
  <2> DEFINE L == Len(o.items)  d == o.deflated  at == L + 2
  <2>2. /\ L + 1 \in 1 .. Len(items) /\ items[L + 1] = one
        /\ L + 2 \in 1 .. Len(items) /\ items[L + 2] = b
        /\ L + 3 \in 1 .. Len(items) /\ items[L + 3] = c
        /\ L + 4 \in 1 .. Len(items) /\ items[L + 4] = e  BY <2>1 DEF Follows4, Follows3, Follows2, Follows1
  <2>3. L \in Nat  BY <1>11, Appended
  <2>4. L + 1 + 1 = L + 2 /\ at + 1 = L + 3 /\ at + 2 = L + 4 /\ at + 3 = Len(q.items) + 1  BY <1>12, <2>3
  <2> HIDE DEF L, d, one
  <2>5. HandleRect(View(items, pic, L + 1, d)) = Handle(View(items, pic, L + 1 + 1, d), r, enc)
    BY <1>13, <2>2, HeaderRead DEF one
  <2>6. /\ at \in 1 .. Len(items) /\ items[at] = b /\ L + 1 + 1 = at
        /\ at + 1 \in 1 .. Len(items) /\ items[at + 1] = c
        /\ at + 2 \in 1 .. Len(items) /\ items[at + 2] = e  BY <2>2, <2>4
  <2> HIDE DEF at
  <2>7. Handle(View(items, pic, at, d), r, enc) = View(items, Overlay(pic, D, scr), at + 3, q.deflated)
    BY <1>13, <2>6 DEF d, Reads4
  <2> QED  BY <2>4, <2>5, <2>6, <2>7 DEF L, d
<1> QED  BY <1>12, <1>13, ServeOne

\* Whether the buffer is flushed before or afterwards makes no difference.
LEMMA SendsQuiet ==
  ASSUME NEW scr \in Pictures, NEW o, IsOut(o), NEW p, NEW q, NEW r, NEW k
  PROVE  /\ IsOut(p) /\ Quiet(o, p) /\ Sends(scr, p, q, r, k) => Sends(scr, o, q, r, k)
         /\ IsOut(q) /\ Quiet(p, q) /\ Sends(scr, o, p, r, k) => Sends(scr, o, q, r, k)
<1> DEFINE D == Points(r)
<1>1. {} \cup D = D /\ D \cup {} = D  OBVIOUS
<1>2. ASSUME IsOut(p), Quiet(o, p), Sends(scr, p, q, r, k) PROVE Sends(scr, o, q, r, k)
  <2>1. Serve(scr, o, p, {})  BY <1>2, ServeNothing
  <2>2. Serve(scr, p, q, D)  BY <1>2 DEF Sends
  <2> HIDE DEF D
  <2>3. Serve(scr, o, q, {} \cup D)  BY <2>1, <2>2, ServeBoth
  <2> QED  BY <1>1, <1>2, <2>3 DEF Sends, Quiet, D
<1>3. ASSUME IsOut(q), Quiet(p, q), Sends(scr, o, p, r, k) PROVE Sends(scr, o, q, r, k)
  <2>2. Serve(scr, o, p, D) /\ IsOut(p)  BY <1>3 DEF Sends, Serve
  <2>1. Serve(scr, p, q, {})  BY <1>3, <2>2, ServeNothing
  <2> HIDE DEF D
  <2>3. Serve(scr, o, q, D \cup {})  BY <2>1, <2>2, ServeBoth
  <2> QED  BY <1>1, <1>3, <2>3 DEF Sends, Quiet, D
<1> QED  BY <1>2, <1>3

\* The parts of a rectangle, one after the other.
LEMMA PartsSent ==
  ASSUME NEW scr \in Pictures, NEW n \in Nat, NEW f, NEW T, NEW r, IsOut(f[0]),
         Points(r) = UNION {Points(T[i]) : i \in 1 .. n},
         \A i \in 1 .. n : IsOut(f[i - 1]) => Sends(scr, f[i - 1], f[i], T[i], 1)
  PROVE  Sends(scr, f[0], f[n], r, n)
<1> DEFINE D == [i \in 1 .. n |-> Points(T[i])]
           Q == {k \in 0 .. n : IsOut(f[k]) /\ f[k].headers = f[0].headers + k}
<1>1. f[0].headers \in Nat  BY DEF IsOut
<1>2. 0 \in Q  BY <1>1
<1>3. ASSUME NEW k \in 0 .. n - 1, k \in Q PROVE k + 1 \in Q
  <2>1. k + 1 \in 1 .. n /\ k + 1 \in 0 .. n /\ (k + 1) - 1 = k  OBVIOUS
  <2>2. Sends(scr, f[k], f[k + 1], T[k + 1], 1)  BY <1>3, <2>1
  <2>3. IsOut(f[k + 1]) /\ f[k + 1].headers = f[k].headers + 1  BY <2>2 DEF Sends, Serve
  <2> QED  BY <1>1, <1>3, <2>1, <2>3
<1>4. \A k \in 0 .. n : k \in Q
  <2> HIDE DEF Q
  <2> QED  BY <1>2, <1>3, Reached
<1>5. f[n].headers = f[0].headers + n  BY <1>4
<1>6. \A i \in 1 .. n : D[i] = Points(T[i])  OBVIOUS
<1> HIDE DEF D
<1>7. \A i \in 1 .. n : IsOut(f[i - 1]) => Serve(scr, f[i - 1], f[i], D[i])  BY <1>6 DEF Sends
<1>8. Serve(scr, f[0], f[n], UnionOf(D, n))  BY <1>7, ServeAll
<1>9. UnionOf(D, n) = Points(r)  BY <1>6 DEF UnionOf
<1> QED  BY <1>5, <1>8, <1>9 DEF Sends

-----------------------------------------------------------------------------
(* CoRRE. *)

\* So is one with CoRRE, cut into tiles.
LEMMA CorreSent ==
  ASSUME NEW scr \in Pictures, NEW o, IsOut(o), NEW r, On(r)
  PROVE  Sends(scr, o, rfbSendRectEncodingCoRRE(o, scr, r), r,
               ((r.w - 1) \div CorreMax + 1) * ((r.h - 1) \div CorreMax + 1))
<1> DEFINE n == ((r.w - 1) \div CorreMax + 1) * ((r.h - 1) \div CorreMax + 1)
           T == Tiles(r, CorreMax, CorreMax)
           f == Correing!After(scr, 0, o, T)
<1>1. CorreMax \in Nat \ {0} /\ IsRect(r)  BY Sizes DEF On
<1>2. /\ n \in Nat \ {0} /\ Len(T) = n
      /\ \A i \in 1 .. n : IsRect(T[i]) /\ Within(T[i], r)
      /\ Points(r) = UNION {Points(T[i]) : i \in 1 .. n}
  <2>1. Divides(r, CorreMax, CorreMax, T, n)  BY <1>1, TilesDivide
  <2> QED  BY <2>1 DEF Divides
<1> HIDE DEF n
<1>3. f[0] = o /\ \A i \in 1 .. n : f[i] = CorreStep(scr, 0, f[i - 1], T[i])
  BY <1>2, Correing!AfterExists, Reached DEF Correing!Upward
<1>4. rfbSendRectEncodingCoRRE(o, scr, r) = f[n]
  <2>1. rfbSendRectEncodingCoRRE(o, scr, r) = f[Len(T)]
    BY DEF rfbSendRectEncodingCoRRE, InTurn, Correing!After, CorreStep
  <2> QED  BY <1>2, <2>1
<1> HIDE DEF f, T
<1>5. ASSUME NEW i \in 1 .. n, IsOut(f[i - 1]) PROVE Sends(scr, f[i - 1], f[i], T[i], 1)
  <2>1. On(T[i])  BY <1>2, OnWithin
  <2>2. f[i] = Rre(f[i - 1], scr, T[i], "corre", 4)  BY <1>3 DEF CorreStep
  <2>3. Sends(scr, f[i - 1], Rre(f[i - 1], scr, T[i], "corre", 4), T[i], 1)
    <3>1. 4 \in Nat /\ "corre" \in {"rre", "corre"}  OBVIOUS
    <3> QED  BY <1>5, <2>1, <3>1, RreSent
  <2> QED  BY <2>2, <2>3
<1>6. Sends(scr, f[0], f[n], r, n)  BY <1>2, <1>3, <1>5, PartsSent
<1> QED  BY <1>3, <1>4, <1>6 DEF n

-----------------------------------------------------------------------------
(* Compressed bodies.  Zlib and Ultra. *)

\* What is compressed for the nth time by a stream is inflated for the nth time.
LEMMA LengthIs ==
  ASSUME NEW items, NEW pic, NEW at, NEW inf, IsSeq(items), at \in 1 .. Len(items), items[at] = <<"length">>
  PROVE  Length(View(items, pic, at, inf)) = View(items, pic, at + 1, inf)
<1> DEFINE v == View(items, pic, at, inf)
<1>1. Next1(v) = <<"length">>  BY NextIs
<1>2. Took(v) = View(items, pic, at + 1, inf)  BY ViewIs
<1> HIDE DEF v
<1>3. Next1(v)[1] = "length"  BY <1>1
<1> QED  BY <1>2, <1>3 DEF Length, v

LEMMA WithIs ==
  ASSUME NEW items, NEW pic, NEW at, NEW inf, NEW x
  PROVE  With(View(items, pic, at, inf), x) = View(items, pic, at, x)  BY DEF With, View, Viewing

LEMMA InflatedIs ==
  ASSUME NEW scr \in Pictures, NEW items, NEW pic \in Seen, NEW at, NEW inf \in [Streams -> Nat], IsSeq(items),
         at \in 1 .. Len(items), NEW s \in Streams, NEW data, items[at] = <<"deflated", s, inf[s] + 1, data>>,
         NEW r, Cut(scr, r, data)
  PROVE  Inflated(View(items, pic, at, inf), r, s)
           = View(items, Overlay(pic, Points(r), scr), at + 1, Bumped(inf, s))
<1> DEFINE v == View(items, pic, at, inf)  b == <<"deflated", s, inf[s] + 1, data>>
           w == View(items, Overlay(pic, Points(r), scr), at + 1, inf)
<1>1. Next1(v) = b  BY NextIs
<1>2. Took(v) = View(items, pic, at + 1, inf) /\ v.inflated = inf
  <2>1. Took(v) = View(items, pic, at + 1, inf)  BY ViewIs
  <2>2. v.inflated = inf  BY ViewFields
  <2> QED  BY <2>1, <2>2
<1>3. GotBitmap(View(items, pic, at + 1, inf), r, data) = w  BY BitmapDrawn
<1>4. w.inflated = inf  BY ViewFields
<1>5. ASSUME NEW x PROVE [w EXCEPT !.inflated = x] = View(items, Overlay(pic, Points(r), scr), at + 1, x)
  <2> DEFINE P == Overlay(pic, Points(r), scr)  a == at + 1
  <2> HIDE DEF P, a
  <2>1. [View(items, P, a, inf) EXCEPT !.inflated = x] = View(items, P, a, x)  BY WithIs DEF With
  <2> QED  BY <2>1 DEF P, a
<1> HIDE DEF v, w
<1>6. b[1] = "deflated" /\ b[2] = s /\ b[3] = inf[s] + 1 /\ b[4] = data  OBVIOUS
<1> HIDE DEF b
<1>7. Inflated(v, r, s) = [w EXCEPT !.inflated[s] = @ + 1]  BY <1>1, <1>2, <1>3, <1>6 DEF Inflated
<1>8. [w EXCEPT !.inflated[s] = @ + 1] = [w EXCEPT !.inflated = [w.inflated EXCEPT ![s] = @ + 1]]  OBVIOUS
<1> DEFINE x == [inf EXCEPT ![s] = @ + 1]
<1>9. [w EXCEPT !.inflated[s] = @ + 1] = [w EXCEPT !.inflated = x]  BY <1>4, <1>8
<1> HIDE DEF x
<1> QED  BY <1>5, <1>7, <1>9 DEF v, x, Bumped

LEMMA BodyLenIs ==
  ASSUME NEW o, IsOut(o)
  PROVE  BodyLen(o) \in Nat \ {0}
<1> DEFINE S == Nat \ {0}  L == Len(PackedLens)
<1>1. PackedLens \in Seq(S) /\ PackedLens # <<>>  BY EncodingAssumption
<1> HIDE DEF S
<1>2. L \in Nat \ {0} /\ \A i \in 1 .. L : PackedLens[i] \in S  BY <1>1
<1> HIDE DEF L
<1>3. (o.headers % L) + 1 \in 1 .. L
  <2>0. o.headers \in Int /\ L \in Nat \ {0}  BY <1>2 DEF IsOut
  <2>1. o.headers % L \in 0 .. L - 1  BY <2>0, DivMod
  <2> QED  BY <1>2, <2>1
<1> QED  BY <1>2, <1>3 DEF BodyLen, S, L

LEMMA PackedIs ==
  ASSUME NEW done, IsOut(done), NEW pic, NEW r, NEW enc, NEW item
  PROVE  IsPacked(done, Packed(done, pic, r, enc, item), r, enc, item)
<1> DEFINE room == Room(done, 16)  h == Header(room, r, enc)  one == <<"rect", r, enc>>
           p == Put(h, <<"length">>, 4)  q == Copied(p, item, BodyLen(p))
<1>1. Packed(done, pic, r, enc, item) = q
  <2>1. sz_rfbFramebufferUpdateRectHeader + sz_rfbRREHeader = 16
    BY DEF sz_rfbFramebufferUpdateRectHeader, sz_rfbRREHeader
  <2> QED  BY <2>1 DEF Packed, sz_rfbRREHeader
<1>5. IsOut(room) /\ Quiet(done, room) /\ room.ublen + 16 <= UPDATE_BUF_SIZE  BY Sizes, RoomIs
<1>6. room.ublen \in Nat  BY <1>5 DEF IsOut
<1> HIDE DEF room, one
<1>7. IsOut(h) /\ h.headers = room.headers + 1 /\ h.items = Append(room.items, one) /\ h.deflated = room.deflated
      /\ h.ublen = room.ublen + 12
  <2>1. room.ublen + 12 <= UPDATE_BUF_SIZE  BY <1>5, <1>6, Sizes
  <2> QED  BY <1>5, <2>1, HeaderIs DEF one
<1> HIDE DEF h
<1>8. IsOut(p) /\ Adds(h, p, <<"length">>)
  <2>1. h.ublen + 4 <= UPDATE_BUF_SIZE  BY <1>5, <1>6, <1>7, Sizes
  <2> QED  BY <1>7, <2>1, PutIs
<1> HIDE DEF p
<1>9. IsOut(q) /\ Adds(p, q, item)
  <2>1. BodyLen(p) \in Nat  BY <1>8, BodyLenIs
  <2> QED  BY <1>8, <2>1, CopiedIs
<1> HIDE DEF q
<1>10. q.headers = done.headers + 1 /\ q.deflated = done.deflated /\ Ends3(q.items, done.items, one, <<"length">>, item)
  BY <1>5, <1>7, <1>8, <1>9 DEF Adds, Quiet, Ends3
<1> QED  BY <1>1, <1>9, <1>10 DEF IsPacked, one

LEMMA ZlibOneSent ==
  ASSUME NEW scr \in Pictures, NEW o, IsOut(o), NEW r, On(r)
  PROVE  Sends(scr, o, SendOneRectEncodingZlib(o, scr, r), r, 1)
<1>1. CASE Area(r) * BPP < VNC_ENCODE_ZLIB_MIN_COMP_SIZE
  <2> DEFINE p == IF o.ublen % BPP # 0 THEN rfbSendUpdateBuf(o) ELSE o
  <2>1. IsOut(p) /\ Quiet(o, p)  BY FlushIs DEF Quiet
  <2>2. SendOneRectEncodingZlib(o, scr, r) = rfbSendRectEncodingRaw(p, scr, r)  BY <1>1 DEF SendOneRectEncodingZlib
  <2> HIDE DEF p
  <2>3. Sends(scr, p, rfbSendRectEncodingRaw(p, scr, r), r, 1)  BY <2>1, RawSent
  <2> QED  BY <2>1, <2>2, <2>3, SendsQuiet
<1>2. CASE ~(Area(r) * BPP < VNC_ENCODE_ZLIB_MIN_COMP_SIZE)
  <2> DEFINE s == "zlib"  done == Deflate(o, s)  data == Crop(scr, r)  body == Body(done, s, data)
             q == Packed(done, scr, r, "zlib", body)
  <2>1. SendOneRectEncodingZlib(o, scr, r) = q  BY <1>2 DEF SendOneRectEncodingZlib
  <2>2. s \in Streams  BY DEF Streams
  <2>3. o.deflated \in [Streams -> Nat]  BY DEF IsOut
  <2> HIDE DEF s
  <2>4. /\ IsOut(done) /\ done.headers = o.headers /\ done.items = o.items
        /\ done.deflated = Bumped(o.deflated, s)  BY <2>2, DeflateIs DEF Bumped
  <2>5. Cut(scr, r, data)  BY CropIs
  <2> HIDE DEF data, done
  <2>6. body = <<"deflated", s, o.deflated[s] + 1, data>>  BY <2>2, <2>3, <2>4 DEF Body, Bumped
  <2> HIDE DEF body
  <2>7. IsPacked(done, q, r, "zlib", body)  BY <2>4, PackedIs
  <2> HIDE DEF q
  <2>8. /\ IsOut(q) /\ q.headers = o.headers + 1 /\ q.deflated = Bumped(o.deflated, s)
        /\ Ends3(q.items, o.items, <<"rect", r, "zlib">>, <<"length">>, body)  BY <2>4, <2>7 DEF IsPacked
  <2>9. ASSUME NEW items, NEW pic, NEW at, IsSeq(items), pic \in Seen,
               at \in 1 .. Len(items), items[at] = <<"length">>,
               at + 1 \in 1 .. Len(items), items[at + 1] = body
        PROVE  Handle(View(items, pic, at, o.deflated), r, "zlib")
                 = View(items, Overlay(pic, Points(r), scr), at + 2, q.deflated)
    <3> DEFINE v == View(items, pic, at, o.deflated)  a == at + 1
    <3>1. Length(v) = View(items, pic, a, o.deflated)  BY <2>9, LengthIs
    <3>2. a \in 1 .. Len(items) /\ items[a] = <<"deflated", s, o.deflated[s] + 1, data>> /\ a + 1 = at + 2
      BY <2>6, <2>9
    <3> HIDE DEF a, v
    <3>3. Inflated(View(items, pic, a, o.deflated), r, s) = View(items, Overlay(pic, Points(r), scr), a + 1, q.deflated)
      <4> DEFINE d == o.deflated
      <4>1. d \in [Streams -> Nat] /\ items[a] = <<"deflated", s, d[s] + 1, data>>  BY <2>3, <3>2
      <4> HIDE DEF d
      <4>2. Inflated(View(items, pic, a, d), r, s) = View(items, Overlay(pic, Points(r), scr), a + 1, Bumped(d, s))
        BY <2>2, <2>5, <2>9, <3>2, <4>1, InflatedIs
      <4> QED  BY <2>8, <4>2 DEF d
    <3>4. Handle(v, r, "zlib") = Inflated(Length(v), r, s)  BY Handled DEF HandleZlib, s
    <3> QED  BY <3>1, <3>2, <3>3, <3>4 DEF v
  <2>10. Serve(scr, o, q, Points(r))
    <3>1. Reads3(scr, o, q, r, "zlib", <<"length">>, body, Points(r))  BY <2>9 DEF Reads3
    <3> QED  BY <2>8, <3>1, ServeThree
  <2> QED  BY <2>1, <2>8, <2>10 DEF Sends
<1> QED  BY <1>1, <1>2

LEMMA UltraOneSent ==
  ASSUME NEW scr \in Pictures, NEW o, IsOut(o), NEW r, On(r)
  PROVE  Sends(scr, o, Packed(o, scr, r, "ultra", <<"lzo", Crop(scr, r)>>), r, 1)
<1> DEFINE data == Crop(scr, r)  body == <<"lzo", data>>
           q == Packed(o, scr, r, "ultra", body)
<1>5. Cut(scr, r, data)  BY CropIs
<1> HIDE DEF data
<1>6. body[1] = "lzo" /\ body[2] = data  OBVIOUS
<1> HIDE DEF body
<1>7. IsPacked(o, q, r, "ultra", body)  BY PackedIs
<1> HIDE DEF q
<1>8. /\ IsOut(q) /\ q.headers = o.headers + 1 /\ q.deflated = o.deflated
      /\ Ends3(q.items, o.items, <<"rect", r, "ultra">>, <<"length">>, body)  BY <1>7 DEF IsPacked
<1>9. ASSUME NEW items, NEW pic, NEW at, IsSeq(items), pic \in Seen,
             at \in 1 .. Len(items), items[at] = <<"length">>,
             at + 1 \in 1 .. Len(items), items[at + 1] = body
      PROVE  Handle(View(items, pic, at, o.deflated), r, "ultra")
               = View(items, Overlay(pic, Points(r), scr), at + 2, q.deflated)
  <2> DEFINE d == o.deflated  v == View(items, pic, at, d)  a == at + 1  u == View(items, pic, a, d)
  <2>1. Length(v) = u  BY <1>9, LengthIs
  <2>2. a \in 1 .. Len(items) /\ items[a] = body /\ a + 1 = at + 2  BY <1>9
  <2> HIDE DEF a, v, d
  <2>3. Next1(u) = body /\ Took(u) = View(items, pic, a + 1, d)
    <3>1. Took(u) = View(items, pic, a + 1, d)  BY ViewIs
    <3> QED  BY <1>9, <2>2, <3>1, NextIs
  <2>4. GotBitmap(View(items, pic, a + 1, d), r, data) = View(items, Overlay(pic, Points(r), scr), a + 1, d)
    BY <1>5, <1>9, BitmapDrawn
  <2> HIDE DEF u
  <2>5. HandleUltra(v, r) = GotBitmap(Took(u), r, data)  BY <1>6, <2>1, <2>3 DEF HandleUltra
  <2>6. Handle(v, r, "ultra") = HandleUltra(v, r)  BY Handled
  <2> QED  BY <1>8, <2>2, <2>3, <2>4, <2>5, <2>6 DEF v, d
<1>10. Serve(scr, o, q, Points(r))
  <2>1. Reads3(scr, o, q, r, "ultra", <<"length">>, body, Points(r))  BY <1>9 DEF Reads3
  <2> QED  BY <1>8, <2>1, ServeThree
<1>11. Sends(scr, o, q, r, 1)  BY <1>8, <1>10 DEF Sends
<1> QED  BY <1>11 DEF q, body, data

LEMMA FlushedIs ==
  ASSUME NEW o, IsOut(o), NEW r, NEW s
  PROVE  IsOut(Flushed(o, r, s)) /\ Quiet(o, Flushed(o, r, s))  BY FlushIs DEF Flushed, Quiet

\* The strips of a large rectangle divide it.
LEMMA StripsAre ==
  ASSUME NEW r, On(r)
  PROVE  LET n == (r.h - 1) \div StripLines(r.w) + 1  T == Strips(r)
         IN  /\ n \in Nat \ {0} /\ Len(T) = n /\ \A i \in 1 .. n : On(T[i])
             /\ Points(r) = UNION {Points(T[i]) : i \in 1 .. n}
<1> DEFINE a == IF 2 * r.w > MaxStripSize THEN 2 * r.w ELSE MaxStripSize  l == StripLines(r.w)
           m == ((r.w - 1) \div r.w + 1) * ((r.h - 1) \div l + 1)  n == (r.h - 1) \div l + 1
           T == Tiles(r, r.w, l)
<1>1. IsRect(r) /\ r.w \in Nat \ {0} /\ r.h \in Nat \ {0}  BY DEF On, IsRect
<1>2. a \in Nat /\ 2 * r.w <= a  BY <1>1, Sizes
<1>3. l = a \div r.w  BY DEF StripLines
<1> HIDE DEF a
<1>4. IsQuot(a \div r.w, a, r.w)  BY <1>1, <1>2, QuotIs
<1>5. l \in Nat \ {0}  BY <1>2, <1>3, <1>4 DEF IsQuot
<1> HIDE DEF l
<1>6. (r.w - 1) \div r.w = 0
  <2> DEFINE w == r.w
  <2>1. w \in Nat \ {0}  BY <1>1
  <2> HIDE DEF w
  <2>2. (w - 1) \div w = 0
    <3>1. w - 1 \in 0 .. w - 1 /\ (w * 0) + (w - 1) = w - 1  BY <2>1
    <3> DEFINE u == w - 1
    <3>2. u \in 0 .. w - 1 /\ (w * 0) + u = u  BY <3>1
    <3> HIDE DEF u
    <3>3. ((w * 0) + u) \div w = 0  BY <2>1, <3>2, DivIs
    <3> QED  BY <3>2, <3>3 DEF u
  <2> QED  BY <2>2 DEF w
<1>7. (r.h - 1) \div l \in Nat  BY <1>1, <1>5, Slot
<1>8. m = n
  <2> DEFINE y == (r.h - 1) \div l
  <2> HIDE DEF y
  <2>1. (0 + 1) * (y + 1) = y + 1  BY <1>7 DEF y
  <2> QED  BY <1>6, <2>1 DEF y
<1>9. /\ m \in Nat \ {0} /\ Len(T) = m
      /\ \A i \in 1 .. m : IsRect(T[i]) /\ Within(T[i], r)
      /\ Points(r) = UNION {Points(T[i]) : i \in 1 .. m}
  <2> DEFINE w == r.w
  <2>1. w \in Nat \ {0}  BY <1>1
  <2> DEFINE mm == ((r.w - 1) \div w + 1) * ((r.h - 1) \div l + 1)
  <2> HIDE DEF w
  <2>2. Divides(r, w, l, Tiles(r, w, l), mm)  BY <1>1, <1>5, <2>1, TilesDivide
  <2>3. Divides(r, r.w, l, T, m)  BY <2>2 DEF w
  <2> HIDE DEF T, m
  <2> QED  BY <2>3 DEF Divides
<1> HIDE DEF m, n, T
<1>10. \A i \in 1 .. n : On(T[i])  BY <1>8, <1>9, OnWithin
<1>11. Strips(r) = T  BY DEF Strips, l, T
<1> QED  BY <1>8, <1>9, <1>10, <1>11 DEF n, l

\* A rectangle sent with Zlib is shown.
LEMMA ZlibSent ==
  ASSUME NEW scr \in Pictures, NEW o, IsOut(o), NEW r, On(r)
  PROVE  Sends(scr, o, rfbSendRectEncodingZlib(o, scr, r), r, (r.h - 1) \div StripLines(r.w) + 1)
<1> DEFINE n == (r.h - 1) \div StripLines(r.w) + 1
           T == Strips(r)
           f == Zlibbing!After(scr, r, o, T)
<1>2. /\ n \in Nat \ {0} /\ Len(T) = n /\ \A i \in 1 .. n : On(T[i])
      /\ Points(r) = UNION {Points(T[i]) : i \in 1 .. n}  BY StripsAre
<1> HIDE DEF n
<1>3. f[0] = o /\ \A i \in 1 .. n : f[i] = ZlibStep(scr, r, f[i - 1], T[i])
  <2>1. Zlibbing!Upward  BY Reached DEF Zlibbing!Upward
  <2> QED  BY <1>2, <2>1, Zlibbing!AfterExists
<1>4. rfbSendRectEncodingZlib(o, scr, r) = f[n]
  <2>1. rfbSendRectEncodingZlib(o, scr, r) = f[Len(T)]
    BY DEF rfbSendRectEncodingZlib, InTurn, Zlibbing!After, ZlibStep
  <2> QED  BY <1>2, <2>1
<1> HIDE DEF f, T
<1>5. ASSUME NEW i \in 1 .. n, IsOut(f[i - 1]) PROVE Sends(scr, f[i - 1], f[i], T[i], 1)
  <2> DEFINE p == SendOneRectEncodingZlib(f[i - 1], scr, T[i])
  <2>1. Sends(scr, f[i - 1], p, T[i], 1)  BY <1>2, <1>5, ZlibOneSent
  <2>2. f[i] = Flushed(p, r, T[i])  BY <1>3 DEF ZlibStep
  <2> HIDE DEF p
  <2>3. IsOut(p)  BY <2>1 DEF Sends, Serve
  <2>4. IsOut(f[i]) /\ Quiet(p, f[i])  BY <2>2, <2>3, FlushedIs
  <2> QED  BY <1>5, <2>1, <2>4, SendsQuiet
<1>6. Sends(scr, f[0], f[n], r, n)  BY <1>2, <1>3, <1>5, PartsSent
<1> QED  BY <1>3, <1>4, <1>6 DEF n

\* A rectangle sent with Ultra is shown.
LEMMA UltraSent ==
  ASSUME NEW scr \in Pictures, NEW o, IsOut(o), NEW r, On(r)
  PROVE  Sends(scr, o, rfbSendRectEncodingUltra(o, scr, r), r, (r.h - 1) \div StripLines(r.w) + 1)
<1> DEFINE n == (r.h - 1) \div StripLines(r.w) + 1
           T == Strips(r)
           f == Ultraing!After(scr, r, o, T)
<1>2. /\ n \in Nat \ {0} /\ Len(T) = n /\ \A i \in 1 .. n : On(T[i])
      /\ Points(r) = UNION {Points(T[i]) : i \in 1 .. n}  BY StripsAre
<1> HIDE DEF n
<1>3. f[0] = o /\ \A i \in 1 .. n : f[i] = UltraStep(scr, r, f[i - 1], T[i])
  <2>1. Ultraing!Upward  BY Reached DEF Ultraing!Upward
  <2> QED  BY <1>2, <2>1, Ultraing!AfterExists
<1>4. rfbSendRectEncodingUltra(o, scr, r) = f[n]
  <2>1. rfbSendRectEncodingUltra(o, scr, r) = f[Len(T)]
    BY DEF rfbSendRectEncodingUltra, InTurn, Ultraing!After, UltraStep
  <2> QED  BY <1>2, <2>1
<1> HIDE DEF f, T
<1>5. ASSUME NEW i \in 1 .. n, IsOut(f[i - 1]) PROVE Sends(scr, f[i - 1], f[i], T[i], 1)
  <2> DEFINE p == Packed(f[i - 1], scr, T[i], "ultra", <<"lzo", Crop(scr, T[i])>>)
  <2>1. Sends(scr, f[i - 1], p, T[i], 1)  BY <1>2, <1>5, UltraOneSent
  <2>2. f[i] = Flushed(p, r, T[i])  BY <1>3 DEF UltraStep
  <2> HIDE DEF p
  <2>3. IsOut(p)  BY <2>1 DEF Sends, Serve
  <2>4. IsOut(f[i]) /\ Quiet(p, f[i])  BY <2>2, <2>3, FlushedIs
  <2> QED  BY <1>5, <2>1, <2>4, SendsQuiet
<1>6. Sends(scr, f[0], f[n], r, n)  BY <1>2, <1>3, <1>5, PartsSent
<1> QED  BY <1>3, <1>4, <1>6 DEF n

-----------------------------------------------------------------------------
(* The colours of a rectangle. *)

LEMMA FlatIs ==
  ASSUME NEW r, IsRect(r), NEW data, DOMAIN data = Zone(r.w, r.h)
  PROVE  /\ Area(r) \in Nat \ {0} /\ DOMAIN Flat(data, r) = 1 .. Area(r)
         /\ \A i \in 1 .. Area(r) : Flat(data, r)[i] = data[Nth(i, r.w)] /\ Flat(data, r)[i] \in ColoursOf(data)
         /\ \A c \in ColoursOf(data) : \E i \in 1 .. Area(r) : Flat(data, r)[i] = c
<1> DEFINE w == r.w  h == r.h  n == Area(r)  f == Flat(data, r)  S == ColoursOf(data)
<1>1. w \in Nat \ {0} /\ h \in Nat \ {0} /\ n = w * h  BY DEF IsRect, Area
<1>2. n \in Nat \ {0} /\ (\A i \in 1 .. n : Nth(i, w) \in Zone(w, h)) /\ \A q \in Zone(w, h) : IsNth(w, h, q)
  <2> HIDE DEF w, h, n
  <2> QED  BY <1>1, NthIs
<1>3. DOMAIN f = 1 .. n /\ \A i \in 1 .. n : f[i] = data[Nth(i, w)]  BY DEF Flat
<1> HIDE DEF f, n
<1>4. ASSUME NEW i \in 1 .. n PROVE f[i] \in S  BY <1>2, <1>3 DEF ColoursOf
<1>5. ASSUME NEW c \in S PROVE \E i \in 1 .. n : f[i] = c
  <2>1. PICK q \in Zone(w, h) : c = data[q]  BY <1>5 DEF ColoursOf
  <2>2. PICK i \in 1 .. n : Nth(i, w) = q  BY <1>1, <1>2 DEF IsNth
  <2> QED  BY <1>3, <2>1, <2>2
<1> QED  BY <1>2, <1>3, <1>4, <1>5 DEF f, n

\* A rectangle has finitely many colours.
LEMMA ColoursFinite ==
  ASSUME NEW r, IsRect(r), NEW data, DOMAIN data = Zone(r.w, r.h)
  PROVE  IsFiniteSet(ColoursOf(data)) /\ Cardinality(ColoursOf(data)) \in Nat
<1> DEFINE n == Area(r)  f == Flat(data, r)  S == ColoursOf(data)
<1>1. n \in Nat /\ DOMAIN f = 1 .. n /\ (\A i \in 1 .. n : f[i] \in S) /\ \A c \in S : \E i \in 1 .. n : f[i] = c
  BY FlatIs
<1>2. f \in [1 .. n -> S]
  <2>1. f = [i \in 1 .. n |-> f[i]]  BY <1>1 DEF Flat
  <2> HIDE DEF f, n, S
  <2> QED  BY <1>1, <2>1
<1> HIDE DEF n, f
<1>3. f \in Surjection(1 .. n, S)  BY <1>1, <1>2 DEF Surjection
<1>4. IsFiniteSet(1 .. n)  BY <1>1, FS_Interval
<1>5. IsFiniteSet(S)  BY <1>3, <1>4, FS_Surjection
<1> QED  BY <1>5, FS_CardinalityType

LEMMA TwoAre ==
  ASSUME NEW S, IsFiniteSet(S), Cardinality(S) <= 2, NEW a \in S, NEW b \in S, a # b
  PROVE  S = {a, b}
<1>1. ASSUME NEW c \in S, c # a, c # b PROVE FALSE
  <2> DEFINE A == {a}  B == A \cup {b}  C == B \cup {c}
  <2>1. IsFiniteSet(A) /\ Cardinality(A) = 1  BY FS_Singleton
  <2>2. IsFiniteSet(B) /\ Cardinality(B) = 2
    <3>1. b \notin A  OBVIOUS
    <3> HIDE DEF A
    <3> QED  BY <2>1, <3>1, FS_AddElement
  <2>3. IsFiniteSet(C) /\ Cardinality(C) = 3
    <3>1. c \notin B  BY <1>1
    <3> HIDE DEF B
    <3> QED  BY <2>2, <3>1, FS_AddElement
  <2>4. C \in SUBSET S  BY <1>1
  <2> HIDE DEF C
  <2>5. Cardinality(C) <= Cardinality(S) /\ Cardinality(S) \in Nat  BY <2>4, FS_Subset, FS_CardinalityType
  <2> QED  BY <2>3, <2>5
<1> QED  BY <1>1

\* testColours tells one colour, two and more apart.
LEMMA TestIs ==
  ASSUME NEW r, IsRect(r), NEW data, DOMAIN data = Zone(r.w, r.h)
  PROVE  Tested(data, r, TestColours(data, r))
<1> DEFINE flat == Flat(data, r)  n == Area(r)  S == ColoursOf(data)
           other == {i \in 1 .. n : flat[i] # flat[1]}
           second == IF other = {} THEN flat[1] ELSE flat[Min(other)]
           c == TestColours(data, r)
<1>1. n \in Nat \ {0} /\ DOMAIN flat = 1 .. n /\ (\A i \in 1 .. n : flat[i] \in S) /\ \A x \in S : \E i \in 1 .. n : flat[i] = x
  BY FlatIs
<1>2. IsFiniteSet(S) /\ Cardinality(S) \in Nat  BY ColoursFinite
<1>3. c \in {[bg |-> flat[1], fg |-> second], [bg |-> second, fg |-> flat[1]]}
  <2> DEFINE third == {i \in other : flat[i] # second}
             seen == IF third = {} THEN DOMAIN flat ELSE 1 .. Min(third) - 1
             n1 == Cardinality({i \in seen : flat[i] = flat[1]})
             large == n1 > Cardinality(seen) - n1
  <2>1. c = IF large THEN [bg |-> flat[1], fg |-> second] ELSE [bg |-> second, fg |-> flat[1]]
    <3>1. DOMAIN Flat(data, r) = 1 .. Area(r)  BY <1>1
    <3> QED  BY <3>1 DEF TestColours
  <2> HIDE DEF large, c, second, flat
  <2> QED  BY <2>1
<1> HIDE DEF flat, n, S
<1>4. other # {} => Min(other) \in other
  <2>1. other \in SUBSET Int /\ \A t \in other : 1 <= t /\ t <= n  BY <1>1
  <2>2. n \in Int /\ 1 \in Int  BY <1>1
  <2> HIDE DEF other
  <2>3. ASSUME other # {} PROVE Min(other) \in other  BY <2>1, <2>2, <2>3, Extremes
  <2> QED  BY <2>3
<1>5. second \in S /\ (other # {} => second # flat[1]) /\ flat[1] \in S  BY <1>1, <1>4
<1>6. ASSUME other = {} PROVE S = {flat[1]}  BY <1>1, <1>6
<1> HIDE DEF other, second, c
<1>7. c.bg \in S /\ c.fg \in S /\ {c.bg, c.fg} = {flat[1], second}  BY <1>3, <1>5
<1>8. ASSUME Solid(data, r), NEW q \in Zone(r.w, r.h) PROVE data[q] = c.bg
  <2>1. Cardinality(S) = 1 /\ data[q] \in S  BY <1>8 DEF Solid, S, ColoursOf
  <2>2. \E x : S = {x}  BY <1>2, <2>1, FS_Singleton
  <2> QED  BY <1>7, <2>1, <2>2
<1>9. ASSUME Mono(data, r), ~Solid(data, r) PROVE S = {c.bg, c.fg}
  <2>1. Cardinality(S) <= 2 /\ Cardinality(S) # 1  BY <1>9 DEF Mono, Solid, S, ColoursOf
  <2>2. second # flat[1]
    <3>1. Cardinality({flat[1]}) = 1  BY FS_Singleton
    <3> QED  BY <1>5, <1>6, <2>1, <3>1
  <2>3. S = {flat[1], second}  BY <1>2, <1>5, <2>1, <2>2, TwoAre
  <2> QED  BY <1>7, <2>3
<1> QED  BY <1>7, <1>8, <1>9 DEF Tested, S, c

-----------------------------------------------------------------------------
(* A tile of Hextile. *)

LEMMA RecIs ==
  ASSUME NEW v, NEW bg, NEW fg, NEW x
  PROVE  LET a == Rec(v, bg, fg) IN a.v = v /\ a.bg = bg /\ a.fg = fg /\ [a EXCEPT !.v = x] = Rec(x, bg, fg)
  BY DEF Rec

\* The three kinds of tile, as the viewer reads them.
LEMMA RawTileRead ==
  ASSUME NEW scr \in Pictures, NEW t, NEW data, Cut(scr, t, data), NEW item, item = <<"rawtile", data>>,
         NEW kb, NEW kf
  PROVE  TileRead(scr, item, t, kb, kf, <<>>, <<>>)
<1>0. item[1] = "rawtile" /\ item[2] = data  OBVIOUS
<1>1. ASSUME NEW items, NEW pic, NEW at, NEW inf, NEW bg, NEW fg,
             IsSeq(items), at \in 1 .. Len(items), items[at] = item, pic \in Seen
      PROVE  HandleTile(Rec(View(items, pic, at, inf), bg, fg), t)
               = Rec(View(items, Overlay(pic, Points(t), scr), at + 1, inf), bg, fg)
  <2> DEFINE v == View(items, pic, at, inf)  a == Rec(v, bg, fg)  n == at + 1
             w == View(items, Overlay(pic, Points(t), scr), n, inf)
  <2>1. Next1(v) = item  BY <1>1, NextIs
  <2>2. Took(v) = View(items, pic, n, inf)  BY ViewIs
  <2> HIDE DEF n
  <2>3. GotBitmap(View(items, pic, n, inf), t, data) = w  BY <1>1, BitmapDrawn
  <2> HIDE DEF v, w
  <2>4. a.v = v /\ \A x : [a EXCEPT !.v = x] = Rec(x, bg, fg)  BY RecIs
  <2> HIDE DEF a
  <2>5. HandleTile(a, t) = [a EXCEPT !.v = GotBitmap(Took(a.v), t, item[2])]  BY <1>0, <2>1, <2>4 DEF HandleTile
  <2> QED  BY <1>0, <2>2, <2>3, <2>4, <2>5 DEF a, v, w, n
<1>2. ASSUME NEW items, NEW pic, NEW at, NEW inf, NEW bg, NEW fg,
             IsSeq(items), at \in 1 .. Len(items), items[at] = item, pic \in Seen
      PROVE  TileDone(scr, t, items, pic, at, inf, <<>>, <<>>, HandleTile(Rec(View(items, pic, at, inf), bg, fg), t))
  <2> DEFINE none == <<>>
  <2>1. \A x : Agrees(none, x)  BY DEF Agrees
  <2>2. HandleTile(Rec(View(items, pic, at, inf), bg, fg), t)
               = Rec(View(items, Overlay(pic, Points(t), scr), at + 1, inf), bg, fg)  BY <1>1, <1>2
  <2> HIDE DEF none
  <2>3. TileDraws(scr, t, items, pic, at, inf, bg, none, HandleTile(Rec(View(items, pic, at, inf), bg, fg), t))
    BY <2>1, <2>2 DEF TileDraws
  <2>4. TileDone(scr, t, items, pic, at, inf, none, none, HandleTile(Rec(View(items, pic, at, inf), bg, fg), t))
    BY <2>1, <2>3 DEF TileDone
  <2> QED  BY <2>4 DEF none
<1> QED  BY <1>2 DEF TileRead

LEMMA OneOf ==
  ASSUME NEW x
  PROVE  <<x>> # <<>> /\ <<x>>[1] = x
<1>1. Len(<<x>>) = 1 /\ Len(<<>>) = 0  BY EmptyIs
<1> QED  BY <1>1

\* Subrectangles of one colour, with that colour told once.
LEMMA HexOneColour ==
  ASSUME NEW w, NEW h, NEW subs, NEW f, IsSubs(w, h, subs, {f})
  PROVE  [i \in DOMAIN subs |-> <<f, subs[i][2]>>] = subs
<1>1. IsSeq(subs) /\ \A i \in 1 .. Len(subs) : subs[i] = <<subs[i][1], subs[i][2]>> /\ subs[i][1] \in {f}
  BY DEF IsSubs
<1>2. DOMAIN subs = 1 .. Len(subs)  BY <1>1, Appended
<1>3. subs = [i \in DOMAIN subs |-> subs[i]]  BY <1>1 DEF IsSeq
<1>4. ASSUME NEW i \in DOMAIN subs PROVE <<f, subs[i][2]>> = subs[i]  BY <1>1, <1>2
<1> QED  BY <1>3, <1>4

LEMMA SubsTileRead ==
  ASSUME NEW scr \in Pictures, NEW t, On(t), NEW item, NEW kb, NEW kf, NEW nf, NEW c, NEW f, NEW C,
         item[1] = "tile", IsSubs(t.w, t.h, item[5], C),
         \A q \in Zone(t.w, t.h) : Paint(t.w, t.h, c, item[5])[q] = Crop(scr, t)[q],
         Told(item[2], kb) = <<c>>, item[2] # <<>> \/ kb # <<>>,
         item[4] /\ item[5] # <<>> => /\ Told(item[3], kf) = <<f>> /\ C = {f}
                                      /\ item[3] # <<>> \/ kf # <<>>,
         \/ nf = <<>>
         \/ (item[4] \/ item[5] = <<>>) /\ nf = Told(item[3], kf)
  PROVE  TileRead(scr, item, t, kb, kf, <<c>>, nf)
<1> DEFINE subs == item[5]
<1>1. ASSUME NEW items, NEW pic, NEW at, NEW inf, NEW bg, NEW fg,
             IsSeq(items), at \in 1 .. Len(items), items[at] = item, pic \in Seen, Agrees(kb, bg), Agrees(kf, fg)
      PROVE  TileDraws(scr, t, items, pic, at, inf, <<c>>, nf, HandleTile(Rec(View(items, pic, at, inf), bg, fg), t))
  <2> DEFINE v == View(items, pic, at, inf)  a == Rec(v, bg, fg)  n == at + 1  u == View(items, pic, n, inf)
             w == View(items, Overlay(pic, Points(t), scr), n, inf)
             F == Told(item[3], fg)  colours == Coloured(item, F)
             G == IF item[4] \/ subs = <<>> THEN F ELSE <<Last(subs)[1]>>
  <2>1. Next1(v) = item  BY <1>1, NextIs
  <2>2. Took(v) = u  BY ViewIs
  <2>3. Told(item[2], bg) = <<c>> /\ <<c>> # <<>> /\ <<c>>[1] = c  BY <1>1, OneOf DEF Told, Agrees
  <2>4. item[4] /\ subs # <<>> => F = <<f>> /\ C = {f}  BY <1>1 DEF Told, Agrees
  <2>5. colours = subs
    <3>1. CASE ~item[4]  BY <3>1 DEF Coloured
    <3>2. CASE subs = <<>>
      <4>1. [i \in DOMAIN subs |-> <<F[1], subs[i][2]>>] = subs  BY <3>2
      <4> QED  BY <4>1 DEF Coloured
    <3>3. CASE item[4] /\ subs # <<>>
      <4>1. F[1] = f /\ C = {f}  BY <2>4, <3>3, OneOf
      <4>2. IsSubs(t.w, t.h, subs, {f})  BY <4>1
      <4> HIDE DEF subs
      <4>3. [i \in DOMAIN subs |-> <<f, subs[i][2]>>] = subs  BY <4>2, HexOneColour
      <4>4. colours = [i \in DOMAIN subs |-> <<F[1], subs[i][2]>>]  BY <3>3 DEF Coloured, subs
      <4> QED  BY <4>1, <4>3, <4>4
    <3> QED  BY <3>1, <3>2, <3>3
  <2>6. Drawn(GotFillRect(u, t, c), t, subs) = w
    <3> HIDE DEF subs, n
    <3>1. IsSubs(t.w, t.h, subs, C) /\ DOMAIN pic = Screen  BY <1>1 DEF subs, Seen
    <3>2. Drawn(GotFillRect(u, t, c), t, subs) = View(items, Shade(pic, t, Paint(t.w, t.h, c, subs)), n, inf)
      BY <3>1, DrawnIs
    <3>3. Shade(pic, t, Paint(t.w, t.h, c, subs)) = Overlay(pic, Points(t), scr)  BY ShadeIs DEF subs
    <3> QED  BY <3>2, <3>3
  <2>7. subs = <<>> \/ ~item[4] \/ F # <<>>  BY <2>4, OneOf
  <2>8. a.v = v /\ a.bg = bg /\ a.fg = fg  BY RecIs
  <2> HIDE DEF v, a, u, w, F, subs, colours
  <2> DEFINE B == Told(item[2], a.bg)
             drawn == Drawn(GotFillRect(Took(v), t, B[1]), t, colours)
  <2>9. HandleTile(a, t) = Rec(drawn, B, G)
    <3>1. F = IF item[3] # <<>> THEN item[3] ELSE a.fg  BY <2>8 DEF F, Told
    <3>2. B = IF item[2] # <<>> THEN item[2] ELSE a.bg  BY DEF Told
    <3>3. B # <<>> /\ item[1] = "tile" /\ Next1(a.v) = item  BY <2>1, <2>3, <2>8
    <3>4. item[1] # "rawtile"  OBVIOUS
    <3> HIDE DEF B
    <3>5. HandleTile(a, t) = [v |-> Drawn(GotFillRect(Took(a.v), t, B[1]), t, colours), bg |-> B, fg |-> G]
      BY <2>7, <3>1, <3>2, <3>3, <3>4 DEF HandleTile, colours, subs
    <3> QED  BY <2>8, <3>5 DEF Rec
  <2>10. B = <<c>> /\ drawn = w  BY <2>2, <2>3, <2>5, <2>6, <2>8
  <2>11. Agrees(nf, G)
    <3>1. CASE nf = <<>>  BY <3>1 DEF Agrees
    <3>2. CASE (item[4] \/ subs = <<>>) /\ nf = Told(item[3], kf)  BY <1>1, <3>2 DEF Agrees, Told, F
    <3> QED  BY <3>1, <3>2 DEF subs
  <2> HIDE DEF drawn, B, G
  <2>12. HandleTile(a, t) = Rec(w, <<c>>, G)  BY <2>9, <2>10
  <2> QED  BY <2>11, <2>12 DEF a, v, w, n, TileDraws
<1>2. Agrees(<<c>>, <<c>>)  BY DEF Agrees
<1>3. ASSUME NEW items, NEW pic, NEW at, NEW inf, NEW bg, NEW fg,
             IsSeq(items), at \in 1 .. Len(items), items[at] = item, pic \in Seen, Agrees(kb, bg), Agrees(kf, fg)
      PROVE  TileDone(scr, t, items, pic, at, inf, <<c>>, nf, HandleTile(Rec(View(items, pic, at, inf), bg, fg), t))
  <2> DEFINE d == <<c>>
  <2>1. TileDraws(scr, t, items, pic, at, inf, d, nf, HandleTile(Rec(View(items, pic, at, inf), bg, fg), t))
    BY <1>1, <1>3
  <2>2. Agrees(d, d)  BY <1>2
  <2> HIDE DEF d
  <2>3. TileDone(scr, t, items, pic, at, inf, d, nf, HandleTile(Rec(View(items, pic, at, inf), bg, fg), t))
    BY <2>1, <2>2 DEF TileDone
  <2> QED  BY <2>3 DEF d
<1> DEFINE d == <<c>>
<1>4. \A items, pic, at, inf, bg, fg :
    /\ IsSeq(items) /\ at \in 1 .. Len(items) /\ items[at] = item /\ pic \in Seen
    /\ Agrees(kb, bg) /\ Agrees(kf, fg)
    => TileDone(scr, t, items, pic, at, inf, d, nf, HandleTile(Rec(View(items, pic, at, inf), bg, fg), t))  BY <1>3
<1> HIDE DEF d
<1>5. TileRead(scr, item, t, kb, kf, d, nf)  BY <1>4 DEF TileRead
<1> QED  BY <1>5 DEF d

\* What the encoder asked room for holds any tile.
LEMMA TileFits ==
  ASSUME NEW t, IsRect(t), t.w <= HextileSize, t.h <= HextileSize
  PROVE  /\ Area(t) \in Nat \ {0} /\ 1 + (2 + HextileSize * HextileSize) * BPP \in 0 .. UPDATE_BUF_SIZE
         /\ 9 + Area(t) * BPP <= 1 + (2 + HextileSize * HextileSize) * BPP
<1> DEFINE w == t.w  h == t.h  n == HextileSize
<1>1. w \in Nat \ {0} /\ h \in Nat \ {0} /\ n \in Nat \ {0} /\ w <= n /\ h <= n  BY Sizes DEF IsRect
<1>2. 1 + (2 + n * n) * 4 <= UPDATE_BUF_SIZE  BY EncodingAssumption
<1> HIDE DEF w, h, n
<1>3. w * h <= n * h /\ n * h <= n * n /\ w * h \in Nat \ {0} /\ n * n \in Nat  BY <1>1, TimesMore
<1> DEFINE a == w * h  b == n * n
<1> HIDE DEF a, b
<1>4. a \in Nat \ {0} /\ b \in Nat /\ a <= b /\ 1 + (2 + b) * 4 <= UPDATE_BUF_SIZE
  <2>1. n * h \in Nat  BY <1>1
  <2> QED  BY <1>2, <1>3, <2>1 DEF a, b
<1>5. 1 + (2 + b) * 4 \in 0 .. UPDATE_BUF_SIZE /\ 9 + a * 4 <= 1 + (2 + b) * 4  BY <1>4, Sizes
<1> QED  BY <1>4, <1>5 DEF Area, BPP, a, b, w, h, n

LEMMA TilePut ==
  ASSUME NEW scr, NEW acc, IsOut(acc.o), NEW t, IsRect(t), t.w <= HextileSize, t.h <= HextileSize,
         NEW n \in Nat, n <= 9 + Area(t) * BPP, NEW item, NEW bg, NEW fg, TileRead(scr, item, t, acc.bg, acc.fg, bg, fg)
  PROVE  TileSent(scr, acc, Acc(Put(Room(acc.o, 1 + (2 + HextileSize * HextileSize) * BPP), item, n), bg, fg), t)
<1> DEFINE m == 1 + (2 + HextileSize * HextileSize) * BPP  room == Room(acc.o, m)  k == 9 + Area(t) * BPP
           q == Put(room, item, n)  new == Acc(q, bg, fg)
<1>1. m \in 0 .. UPDATE_BUF_SIZE /\ k <= m /\ k \in Nat
  <2>1. Area(t) * BPP \in Nat  BY TileFits DEF BPP
  <2> QED  BY <2>1, TileFits
<1>2. n <= k  OBVIOUS
<1> HIDE DEF m, k
<1>3. IsOut(room) /\ Quiet(acc.o, room) /\ room.ublen + m <= UPDATE_BUF_SIZE  BY <1>1, RoomIs
<1>4. room.ublen \in Nat  BY <1>3 DEF IsOut
<1>5. room.ublen + n <= UPDATE_BUF_SIZE  BY <1>1, <1>2, <1>3, <1>4, Sizes
<1> HIDE DEF room
<1>6. IsOut(q) /\ Adds(room, q, item)  BY <1>3, <1>5, PutIs
<1> HIDE DEF q
<1>7. q.headers = acc.o.headers /\ q.deflated = acc.o.deflated /\ q.items = Append(acc.o.items, item)
  BY <1>3, <1>6 DEF Adds, Quiet
<1>8. new.o = q /\ new.bg = bg /\ new.fg = fg  BY DEF Acc
<1> HIDE DEF new
<1>9. TileSent(scr, acc, new, t)  BY <1>6, <1>7, <1>8 DEF TileSent
<1> QED  BY <1>9 DEF new, q, room, m

\* Both sides remember the same background and foreground after a tile.
LEMMA HexOne ==
  ASSUME NEW scr \in Pictures, NEW acc, IsOut(acc.o), NEW t, On(t), t.w <= HextileSize, t.h <= HextileSize
  PROVE  TileSent(scr, acc, Hextile(acc, Crop(scr, t), t), t)
<1> DEFINE data == Crop(scr, t)  c == TestColours(data, t)  list == Subrects(data, t, c.bg)
           size == IF Mono(data, t) THEN 2 ELSE BPP + 2
           newBg == acc.bg # <<c.bg>>
           newFg == Mono(data, t) /\ acc.fg # <<c.fg>>
           room == Room(acc.o, 1 + (2 + HextileSize * HextileSize) * BPP)
           Bg   == IF newBg THEN <<c.bg>> ELSE <<>>
           Fg   == IF newFg THEN <<c.fg>> ELSE <<>>
           start == 1 + (IF newBg THEN BPP ELSE 0)
           plain == <<"tile", Bg, <<>>, Mono(data, t), <<>>>>
           raw == <<"rawtile", data>>
           subs == <<"tile", Bg, Fg, Mono(data, t), list>>
           n == start + (IF newFg THEN BPP ELSE 0) + 1 + size * Len(list)
           new == Hextile(acc, data, t)
           fg == IF Mono(data, t) THEN <<c.fg>> ELSE <<>>
           w == t.w  h == t.h  Z == Zone(w, h)
<1>1. IsRect(t)  BY DEF On
<1>2. data \in [Z -> Colours] /\ Cut(scr, t, data)  BY CropIs DEF Zone
<1>3. data \in [Z -> ColoursOf(data)] /\ DOMAIN data = Z
  <2> HIDE DEF data, Z
  <2> QED  BY <1>2 DEF ColoursOf
<1>4. Tested(data, t, c)  BY <1>1, <1>3, TestIs
<1>5. Shows(t, list, c.bg, data, ColoursOf(data))  BY <1>1, <1>3, SubrectsAre
<1>6. /\ IsSubs(w, h, list, ColoursOf(data) \ {c.bg})
      /\ \A q \in Z : Paint(w, h, c.bg, list)[q] = data[q]  BY <1>5 DEF Shows
<1>7. Told(Bg, acc.bg) = <<c.bg>> /\ (Bg # <<>> \/ acc.bg # <<>>)  BY OneOf DEF Told
<1>8. start \in Nat /\ start <= 5  BY DEF BPP
<1>9. Area(t) \in Nat \ {0}  BY <1>1, TileFits
<1>10. Len(list) \in Nat  BY <1>6, Appended DEF IsSubs
<1>11. new = IF Solid(data, t) THEN Acc(Put(room, plain, start), <<c.bg>>, acc.fg)
             ELSE IF 1 + size * Len(list) > Area(t) * BPP
               THEN Acc(Put(room, raw, 1 + Area(t) * BPP), <<>>, <<>>)
             ELSE Acc(Put(room, subs, n), <<c.bg>>, fg)  BY DEF Hextile, AfterRaw, Acc
<1>12. size \in Nat /\ size * Len(list) \in Nat  BY <1>10 DEF BPP
<1> HIDE DEF new, data, c, list, size, newBg, newFg, room, Bg, start
<1>13. ASSUME Solid(data, t) PROVE TileSent(scr, acc, new, t)
  <2> DEFINE d == <<c.bg>>
  <2>1. TileRead(scr, plain, t, acc.bg, acc.fg, d, acc.fg)
    <3>1. plain[1] = "tile" /\ plain[2] = Bg /\ plain[3] = <<>> /\ plain[5] = <<>>  OBVIOUS
    <3> HIDE DEF plain, d
    <3> DEFINE C == {}
    <3>2. IsSubs(w, h, plain[5], C)  BY <3>1, EmptyIs DEF IsSubs
    <3>3. \A q \in Z : Paint(w, h, c.bg, plain[5])[q] = Crop(scr, t)[q]
      <4>1. Paint(w, h, c.bg, <<>>) = Plain(w, h, c.bg)  BY EmptyIs, PaintMore
      <4>2. \A q \in Z : data[q] = c.bg  BY <1>4, <1>13 DEF Tested
      <4> QED  BY <3>1, <4>1, <4>2 DEF Plain, data
    <3>4. Told(plain[2], acc.bg) = d /\ (plain[2] # <<>> \/ acc.bg # <<>>)  BY <1>7, <3>1 DEF d
    <3>5. acc.fg = Told(plain[3], acc.fg)  BY <3>1 DEF Told
    <3> HIDE DEF C
    <3> QED  BY <3>1, <3>2, <3>3, <3>4, <3>5, SubsTileRead DEF d
  <2>2. new = Acc(Put(room, plain, start), d, acc.fg)  BY <1>11, <1>13
  <2>3. start <= 9 + Area(t) * BPP  BY <1>8, <1>9 DEF BPP
  <2> HIDE DEF d, plain
  <2> QED  BY <1>1, <1>8, <2>1, <2>2, <2>3, TilePut DEF room
<1>14. ASSUME ~Solid(data, t) /\ 1 + size * Len(list) > Area(t) * BPP PROVE TileSent(scr, acc, new, t)
  <2> DEFINE none == <<>>
  <2>1. TileRead(scr, raw, t, acc.bg, acc.fg, none, none)  BY <1>2, RawTileRead
  <2>2. new = Acc(Put(room, raw, 1 + Area(t) * BPP), none, none)  BY <1>11, <1>14
  <2> DEFINE k == 1 + Area(t) * BPP
  <2>3. k \in Nat /\ k <= 9 + Area(t) * BPP  BY <1>9 DEF BPP
  <2> HIDE DEF none, raw, k
  <2>4. TileSent(scr, acc, Acc(Put(room, raw, k), none, none), t)  BY <1>1, <2>1, <2>3, TilePut DEF room
  <2> QED  BY <2>2, <2>4 DEF k
<1>15. ASSUME ~Solid(data, t) /\ ~(1 + size * Len(list) > Area(t) * BPP) PROVE TileSent(scr, acc, new, t)
  <2> DEFINE d == <<c.bg>>  C == ColoursOf(data) \ {c.bg}
  <2>1. TileRead(scr, subs, t, acc.bg, acc.fg, d, fg)
    <3>1. subs[1] = "tile" /\ subs[2] = Bg /\ subs[3] = Fg /\ subs[4] = Mono(data, t) /\ subs[5] = list  OBVIOUS
    <3> HIDE DEF subs, d
    <3>2. IsSubs(w, h, subs[5], C)  BY <1>6, <3>1
    <3>3. \A q \in Z : Paint(w, h, c.bg, subs[5])[q] = Crop(scr, t)[q]  BY <1>6, <3>1 DEF data
    <3>4. Told(subs[2], acc.bg) = d /\ (subs[2] # <<>> \/ acc.bg # <<>>)  BY <1>7, <3>1 DEF d
    <3>5. ASSUME Mono(data, t)
          PROVE  Told(Fg, acc.fg) = <<c.fg>> /\ (Fg # <<>> \/ acc.fg # <<>>) /\ C = {c.fg} /\ fg = <<c.fg>>
      <4>1. ColoursOf(data) = {c.bg, c.fg}  BY <1>4, <1>15, <3>5 DEF Tested
      <4>2. c.bg # c.fg
        <5>1. ASSUME c.bg = c.fg PROVE FALSE
          <6>1. ColoursOf(data) = {c.bg}  BY <4>1, <5>1
          <6>2. Cardinality(ColoursOf(data)) = 1  BY <6>1, FS_Singleton
          <6> QED  BY <1>15, <6>2 DEF Solid, ColoursOf
        <5> QED  BY <5>1
      <4> QED  BY <3>5, <4>1, <4>2, OneOf DEF Told, newFg
    <3>6. subs[4] => Told(subs[3], acc.fg) = <<c.fg>> /\ (subs[3] # <<>> \/ acc.fg # <<>>) /\ C = {c.fg}
      BY <3>1, <3>5
    <3>7. \/ fg = <<>>
          \/ (subs[4] \/ subs[5] = <<>>) /\ fg = Told(subs[3], acc.fg)  BY <3>1, <3>5
    <3> HIDE DEF C, fg
    <3> QED  BY <3>1, <3>2, <3>3, <3>4, <3>6, <3>7, SubsTileRead DEF d
  <2>2. new = Acc(Put(room, subs, n), d, fg)  BY <1>11, <1>15
  <2>3. n \in Nat /\ n <= 9 + Area(t) * BPP
    <3> DEFINE m == size * Len(list)
    <3>1. m \in Nat /\ 1 + m <= Area(t) * 4
      <4> HIDE DEF m
      <4>1. m \in Nat /\ ~(1 + m > Area(t) * 4)  BY <1>12, <1>15 DEF m, BPP
      <4> QED  BY <1>9, <4>1
    <3> HIDE DEF m
    <3>2. n = start + (IF newFg THEN 4 ELSE 0) + 1 + m  BY DEF m, BPP
    <3> QED  BY <1>8, <1>9, <3>1, <3>2 DEF BPP
  <2> HIDE DEF d, subs, n, fg
  <2> QED  BY <1>1, <2>1, <2>2, <2>3, TilePut DEF room
<1>16. TileSent(scr, acc, new, t)  BY <1>13, <1>14, <1>15
<1> QED  BY <1>16 DEF new, data

-----------------------------------------------------------------------------
(* The tiles of a rectangle of Hextile. *)

LEMMA HexSeenMore ==
  ASSUME NEW scr \in Pictures, NEW pic \in Seen, NEW items, IsSeq(items), NEW U, NEW at \in 1 .. Len(items), NEW inf,
         NEW kb, NEW kf, NEW nb, NEW nf, NEW g, HexSeen(scr, pic, items, U, at, inf, kb, kf, g),
         NEW item, items[at] = item, NEW t, TileRead(scr, item, t, kb, kf, nb, nf)
  PROVE  HexSeen(scr, pic, items, U \cup Points(t), at + 1, inf, nb, nf, HandleTile(g, t))
<1> DEFINE mid == Overlay(pic, U, scr)  new == HandleTile(g, t)  m == at + 1  D == U \cup Points(t)
<1>1. mid \in Seen /\ Overlay(mid, Points(t), scr) = Overlay(pic, D, scr)
  <2> DEFINE P == Points(t)
  <2> HIDE DEF P
  <2>1. mid \in Seen  BY OverlayIs
  <2>2. Overlay(Overlay(pic, U, scr), P, scr) = Overlay(pic, U \cup P, scr)  BY OverlayIs
  <2> QED  BY <2>1, <2>2 DEF P
<1>2. PICK b, f : /\ g = Rec(View(items, mid, at, inf), b, f)
                  /\ Agrees(kb, b) /\ Agrees(kf, f)  BY DEF HexSeen
<1> HIDE DEF mid
<1>3. TileDone(scr, t, items, mid, at, inf, nb, nf, HandleTile(Rec(View(items, mid, at, inf), b, f), t))
  BY <1>1, <1>2 DEF TileRead
<1>4. TileDone(scr, t, items, mid, at, inf, nb, nf, new)  BY <1>2, <1>3
<1> HIDE DEF new, m, D
<1>5. PICK c : TileDraws(scr, t, items, mid, at, inf, c, nf, new) /\ Agrees(nb, c)  BY <1>4 DEF TileDone
<1>6. PICK e : new = Rec(View(items, Overlay(mid, Points(t), scr), m, inf), c, e) /\ Agrees(nf, e)
  BY <1>5 DEF TileDraws, m
<1>7. HexSeen(scr, pic, items, D, m, inf, nb, nf, new)  BY <1>1, <1>5, <1>6 DEF HexSeen
<1> QED  BY <1>7 DEF D, m, new

\* All the tiles are read.
LEMMA HexRead ==
  ASSUME NEW scr \in Pictures, NEW T, NEW n \in Nat, Len(T) = n, NEW r,
         Points(r) = UNION {Points(T[i]) : i \in 1 .. n},
         NEW pic \in Seen, NEW items, IsSeq(items), NEW f, NEW L \in Nat, NEW inf,
         f[0].bg = <<>>, f[0].fg = <<>>, HexItems(scr, T, f, n, L, items)
  PROVE  HexReads(scr, pic, items, T, r, L, n, inf)
<1> DEFINE start == Rec(View(items, pic, L + 1, inf), <<>>, <<>>)
           g == HexReading!After(0, 0, start, T)
           D == [i \in 1 .. n |-> Points(T[i])]
           Q == {k \in 0 .. n : HexSeen(scr, pic, items, UnionOf(D, k), L + k + 1, inf, f[k].bg, f[k].fg, g[k])}
<1>1. g[0] = start /\ \A i \in 1 .. n : g[i] = HexTurn(0, 0, g[i - 1], T[i])
  BY HexReading!AfterExists, Reached DEF HexReading!Upward
<1>2. InTurn(HandleTile, start, T) = g[n]
  <2>1. InTurn(HandleTile, start, T) = g[Len(T)]  BY DEF InTurn, HexReading!After, HexTurn
  <2> QED  BY <2>1
<1> HIDE DEF g
<1>3. \A i \in 1 .. n : D[i] = Points(T[i])  OBVIOUS
<1> HIDE DEF D
<1>4. UnionOf(D, 0) = {} /\ UnionOf(D, n) = Points(r)  BY <1>3 DEF UnionOf
<1>5. 0 \in Q
  <2> DEFINE m == L + 1
  <2>1. L + 0 + 1 = m  OBVIOUS
  <2>2. Overlay(pic, UnionOf(D, 0), scr) = pic  BY <1>4, OverlayIs
  <2> HIDE DEF m
  <2>3. HexSeen(scr, pic, items, UnionOf(D, 0), m, inf, f[0].bg, f[0].fg, g[0])  BY <1>1, <2>2 DEF HexSeen, Agrees, m
  <2> QED  BY <2>1, <2>3
<1>6. ASSUME NEW k \in 0 .. n - 1, k \in Q PROVE k + 1 \in Q
  <2> DEFINE l == k + 1  at == L + l  U == UnionOf(D, k)
  <2>1. l \in 1 .. n /\ l \in 0 .. n /\ l - 1 = k  OBVIOUS
  <2>2. L + k + 1 = at /\ L + l + 1 = at + 1  OBVIOUS
  <2> HIDE DEF l
  <2>3. PICK item : items[at] = item /\ at \in 1 .. Len(items)
                    /\ TileRead(scr, item, T[l], f[l - 1].bg, f[l - 1].fg, f[l].bg, f[l].fg)  BY <2>1 DEF HexItems
  <2> HIDE DEF at
  <2>4. HexSeen(scr, pic, items, U, at, inf, f[k].bg, f[k].fg, g[k])  BY <1>6, <2>2
  <2>5. UnionOf(D, l) = U \cup Points(T[l])
    <3>1. 1 .. l = (1 .. k) \cup {l}  BY <2>1
    <3>2. UnionOf(D, l) = U \cup D[l]  BY <3>1 DEF UnionOf
    <3> QED  BY <1>3, <2>1, <3>2
  <2> HIDE DEF U
  <2>6. HexSeen(scr, pic, items, U \cup Points(T[l]), at + 1, inf, f[l].bg, f[l].fg, HandleTile(g[k], T[l]))
    BY <2>1, <2>3, <2>4, HexSeenMore
  <2>7. g[l] = HandleTile(g[k], T[l])  BY <1>1, <2>1 DEF HexTurn
  <2>8. HexSeen(scr, pic, items, UnionOf(D, l), L + l + 1, inf, f[l].bg, f[l].fg, g[l])  BY <2>2, <2>5, <2>6, <2>7
  <2>9. l \in Q  BY <2>1, <2>8
  <2> QED  BY <2>9 DEF l
<1>7. n \in Q
  <2>1. \A k \in 0 .. n : k \in Q
    <3> HIDE DEF Q
    <3> QED  BY <1>5, <1>6, Reached
  <2> HIDE DEF Q
  <2> QED  BY <2>1
<1>8. HexSeen(scr, pic, items, Points(r), L + n + 1, inf, f[n].bg, f[n].fg, g[n])  BY <1>4, <1>7
<1> DEFINE m == L + n + 1
<1> HIDE DEF m
<1>9. g[n].v = View(items, Overlay(pic, Points(r), scr), m, inf)
  <2>1. PICK b, c : g[n] = Rec(View(items, Overlay(pic, Points(r), scr), m, inf), b, c)  BY <1>8 DEF HexSeen, m
  <2> HIDE DEF start
  <2> QED  BY <2>1, RecIs
<1> QED  BY <1>2, <1>9 DEF m, HexReads, HexDone

\* A rectangle sent with Hextile is shown.
LEMMA HextileSent ==
  ASSUME NEW scr \in Pictures, NEW o, IsOut(o), NEW r, On(r)
  PROVE  Sends(scr, o, rfbSendRectEncodingHextile(o, scr, r), r, 1)
<1> DEFINE n == ((r.w - 1) \div HextileSize + 1) * ((r.h - 1) \div HextileSize + 1)
           T == Tiles(r, HextileSize, HextileSize)
           room == Room(o, 12)  one == <<"rect", r, "hextile">>
           h == Header(room, r, "hextile")
           f == Hexing!After(scr, 0, Acc(h, <<>>, <<>>), T)
           q == f[n].o  s == h.items
<1>1. HextileSize \in Nat \ {0} /\ IsRect(r)  BY Sizes DEF On
<1>2. /\ n \in Nat \ {0} /\ Len(T) = n
      /\ \A i \in 1 .. n : IsRect(T[i]) /\ Within(T[i], r) /\ T[i].w <= HextileSize /\ T[i].h <= HextileSize
      /\ Points(r) = UNION {Points(T[i]) : i \in 1 .. n}
  <2>1. Divides(r, HextileSize, HextileSize, T, n)  BY <1>1, TilesDivide
  <2> QED  BY <2>1 DEF Divides
<1> HIDE DEF n
<1>3. f[0] = Acc(h, <<>>, <<>>) /\ \A i \in 1 .. n : f[i] = HexStep(scr, 0, f[i - 1], T[i])
  BY <1>2, Hexing!AfterExists, Reached DEF Hexing!Upward
<1>4. rfbSendRectEncodingHextile(o, scr, r) = q
  <2>1. rfbSendRectEncodingHextile(o, scr, r) = f[Len(T)].o
    BY DEF rfbSendRectEncodingHextile, InTurn, Hexing!After, HexStep, Acc, sz_rfbFramebufferUpdateRectHeader
  <2> QED  BY <1>2, <2>1
<1> HIDE DEF f
<1>5. IsOut(room) /\ Quiet(o, room) /\ room.ublen + 12 <= UPDATE_BUF_SIZE  BY Sizes, RoomIs
<1>6. IsOut(h) /\ h.headers = o.headers + 1 /\ h.items = Append(o.items, one) /\ h.deflated = o.deflated
  <2> HIDE DEF room
  <2> QED  BY <1>5, HeaderIs DEF Quiet
<1> HIDE DEF h, one, room
<1>7. f[0].o = h /\ f[0].bg = <<>> /\ f[0].fg = <<>>  BY <1>3 DEF Acc
<1>8. \A i \in 1 .. n : IsOut(f[i - 1].o) => TileSent(scr, f[i - 1], f[i], T[i])
  <2> SUFFICES ASSUME NEW i \in 1 .. n, IsOut(f[i - 1].o) PROVE TileSent(scr, f[i - 1], f[i], T[i])  OBVIOUS
  <2>1. On(T[i]) /\ T[i].w <= HextileSize /\ T[i].h <= HextileSize  BY <1>2, OnWithin
  <2> DEFINE t == T[i]  acc == f[i - 1]
  <2>2. f[i] = Hextile(acc, Crop(scr, t), t)  BY <1>3 DEF HexStep
  <2> HIDE DEF T, t, acc
  <2>3. TileSent(scr, acc, Hextile(acc, Crop(scr, t), t), t)  BY <2>1, HexOne DEF t, acc
  <2> QED  BY <2>2, <2>3 DEF t, acc
<1> HIDE DEF T
<1> DEFINE P(k) == /\ IsOut(f[k].o) /\ f[k].o.headers = h.headers /\ f[k].o.deflated = h.deflated
                   /\ Len(f[k].o.items) = Len(s) + k
                   /\ \A j \in 0 .. k : IsSeq(f[j].o.items) /\ Extends(f[k].o.items, f[j].o.items)
           Q == {k \in 0 .. n : P(k)}
<1>9. Len(s) \in Nat /\ IsSeq(s)  BY <1>6, Appended DEF IsOut
<1>10. 0 \in Q
  <2>1. Extends(s, s)  BY <1>9 DEF Extends
  <2>2. f[0].o.items = s /\ Len(s) + 0 = Len(s) /\ \A j \in 0 .. 0 : j = 0  BY <1>7, <1>9
  <2> HIDE DEF s
  <2>3. P(0)  BY <1>6, <1>7, <1>9, <2>1, <2>2
  <2>4. 0 \in 0 .. n  BY <1>2
  <2> HIDE DEF P
  <2> QED  BY <2>3, <2>4
<1>11. ASSUME NEW k \in 0 .. n - 1, k \in Q PROVE k + 1 \in Q
  <2> DEFINE l == k + 1  a == f[k].o.items  b == f[l].o.items
  <2>1. l \in 1 .. n /\ l \in 0 .. n /\ l - 1 = k /\ 0 .. l = (0 .. k) \cup {l}  BY <1>2
  <2>2. P(k)  BY <1>11
  <2> HIDE DEF l
  <2>3. TileSent(scr, f[k], f[l], T[l])
    <3>1. IsOut(f[l - 1].o)  BY <2>1, <2>2
    <3>2. TileSent(scr, f[l - 1], f[l], T[l])  BY <1>8, <2>1, <3>1
    <3> QED  BY <2>1, <3>2
  <2>4. IsOut(f[l].o) /\ f[l].o.headers = h.headers /\ f[l].o.deflated = h.deflated /\ \E item : b = Append(a, item)
    BY <2>2, <2>3 DEF TileSent
  <2>5. IsSeq(a) /\ IsSeq(b)  BY <2>2, <2>4 DEF IsOut
  <2>6. Len(b) = Len(a) + 1 /\ Extends(b, a) /\ Extends(b, b)  BY <2>4, <2>5, Appended DEF Extends
  <2>7. Len(b) = Len(s) + l  BY <1>9, <2>1, <2>2, <2>6
  <2> HIDE DEF a, b, s
  <2>8. ASSUME NEW j \in 0 .. l PROVE IsSeq(f[j].o.items) /\ Extends(b, f[j].o.items)
    <3>1. CASE j = l  BY <2>5, <2>6, <3>1 DEF b
    <3>2. CASE j \in 0 .. k
      <4> DEFINE c == f[j].o.items
      <4>1. IsSeq(c) /\ Extends(a, c)  BY <2>2, <3>2 DEF a
      <4> HIDE DEF c
      <4>2. Extends(b, c)  BY <2>5, <2>6, <4>1, ExtendsMore
      <4> QED  BY <4>1, <4>2 DEF c
    <3> QED  BY <2>1, <3>1, <3>2
  <2>9. P(l)  BY <2>4, <2>7, <2>8 DEF b
  <2> QED  BY <2>1, <2>9 DEF l
<1>12. \A k \in 0 .. n : P(k)
  <2>1. \A k \in 0 .. n : k \in Q
    <3> HIDE DEF Q
    <3> QED  BY <1>2, <1>10, <1>11, Reached
  <2> QED  BY <2>1
<1>13. ASSUME NEW items, IsSeq(items), Extends(items, q.items)
       PROVE  HexItems(scr, T, f, n, Len(s), items)
  <2> SUFFICES ASSUME NEW i \in 1 .. n
               PROVE  \E item : items[Len(s) + i] = item /\ Len(s) + i \in 1 .. Len(items)
                        /\ TileRead(scr, item, T[i], f[i - 1].bg, f[i - 1].fg, f[i].bg, f[i].fg)  BY DEF HexItems
  <2> DEFINE k == i - 1  a == f[k].o.items  b == f[i].o.items
  <2>1. k \in 0 .. n /\ i \in 0 .. n /\ k + 1 = i /\ n \in 0 .. n  BY <1>2
  <2>2. P(k) /\ P(i) /\ P(n)  BY <1>12, <2>1
  <2>3. TileSent(scr, f[k], f[i], T[i])  BY <1>8, <2>2
  <2>4. PICK item : b = Append(a, item) /\ TileRead(scr, item, T[i], f[k].bg, f[k].fg, f[i].bg, f[i].fg)
    BY <2>3 DEF TileSent
  <2>5. IsSeq(a) /\ IsSeq(b) /\ IsSeq(q.items) /\ Extends(q.items, b)  BY <2>1, <2>2 DEF IsOut
  <2>6. Extends(items, b)
    <3> HIDE DEF b, q
    <3> QED  BY <1>13, <2>5, ExtendsMore
  <2>7. Len(b) = Len(a) + 1 /\ b[Len(a) + 1] = item /\ Len(a) = Len(s) + k
    <3>1. Len(a) = Len(s) + k  BY <2>2
    <3> HIDE DEF a, b
    <3> QED  BY <2>4, <2>5, <3>1, Appended
  <2> DEFINE m == Len(s) + i
  <2>8. Len(b) = m /\ b[m] = item /\ m \in 1 .. m
    <3> HIDE DEF a, b, s
    <3> QED  BY <1>9, <2>1, <2>7
  <2> HIDE DEF a, b, s, m
  <2>9. items[m] = item /\ m \in 1 .. Len(items)
    <3>1. Len(items) \in Nat  BY <1>13, Appended
    <3> QED  BY <2>6, <2>8, <3>1 DEF Extends
  <2> QED  BY <2>4, <2>9 DEF m
<1>14. IsOut(q) /\ q.headers = o.headers + 1 /\ q.deflated = o.deflated /\ Len(q.items) = Len(s) + n /\ Extends(q.items, s)
  <2>1. n \in 0 .. n /\ 0 \in 0 .. n  BY <1>2
  <2>2. P(n) /\ f[0].o.items = s  BY <1>7, <1>12, <2>1
  <2> HIDE DEF s
  <2> QED  BY <1>6, <2>1, <2>2
<1>15. Extends(q.items, o.items) /\ IsSeq(o.items) /\ Len(s) = Len(o.items) + 1 /\ s[Len(s)] = one /\ Len(o.items) \in Nat
  <2>1. IsSeq(o.items) /\ IsSeq(q.items)  BY <1>14 DEF IsOut
  <2> DEFINE oi == o.items  qi == q.items
  <2>2. s = Append(oi, one)  BY <1>6
  <2> HIDE DEF s, oi, qi
  <2>3. Extends(s, oi) /\ Len(s) = Len(oi) + 1 /\ s[Len(oi) + 1] = one /\ Len(oi) \in Nat
    BY <2>1, <2>2, Appended DEF oi
  <2>4. Extends(qi, oi)  BY <1>9, <1>14, <2>1, <2>3, ExtendsMore DEF qi, oi
  <2> QED  BY <2>1, <2>3, <2>4 DEF qi, oi
<1>16. ASSUME NEW items, NEW pic, IsSeq(items), Extends(items, q.items), pic \in Seen
       PROVE  HandleRect(View(items, pic, Len(o.items) + 1, o.deflated))
                = View(items, Overlay(pic, Points(r), scr), Len(q.items) + 1, q.deflated)
  <2> DEFINE L == Len(s)  d == o.deflated  at == L + 1  qi == q.items
  <2>1. Len(items) \in Nat /\ Len(qi) \in Nat /\ IsSeq(qi)  BY <1>14, <1>16, Appended DEF IsOut
  <2>2. L \in 1 .. Len(items) /\ items[L] = one
    <3> HIDE DEF s
    <3>1. Extends(items, s)
      <4> HIDE DEF q, qi
      <4> QED  BY <1>9, <1>14, <1>16, <2>1, ExtendsMore DEF qi
    <3>2. L \in 1 .. L  BY <1>9, <1>15
    <3> QED  BY <1>15, <2>1, <3>1, <3>2 DEF Extends
  <2>3. HexItems(scr, T, f, n, L, items)  BY <1>13, <1>16
  <2>4. L \in Nat /\ Len(o.items) + 1 = L /\ L + n + 1 = Len(qi) + 1
    <3> HIDE DEF q
    <3>1. L = Len(o.items) + 1 /\ Len(qi) = L + n  BY <1>14, <1>15
    <3> HIDE DEF L, qi
    <3> QED  BY <1>9, <3>1 DEF L
  <2> HIDE DEF L, d, qi, q
  <2>5. HandleRect(View(items, pic, L, d)) = Handle(View(items, pic, at, d), r, "hextile")
    BY <1>16, <2>2, HeaderRead DEF one
  <2> DEFINE v == View(items, pic, at, d)
  <2>6. HexDone(v, T) = View(items, Overlay(pic, Points(r), scr), L + n + 1, d)
    <3>1. Len(T) = n /\ n \in Nat /\ Points(r) = UNION {Points(T[i]) : i \in 1 .. n}  BY <1>2
    <3>2. HexReads(scr, pic, items, T, r, L, n, d)  BY <1>7, <1>16, <2>3, <2>4, <3>1, HexRead
    <3> QED  BY <3>2 DEF HexReads
  <2> HIDE DEF v
  <2>7. Handle(v, r, "hextile") = HexDone(v, T)  BY Handled DEF HandleHextile, Rec, T, HexDone
  <2>8. HandleRect(View(items, pic, L, d)) = View(items, Overlay(pic, Points(r), scr), Len(qi) + 1, d)
    BY <2>4, <2>5, <2>6, <2>7 DEF v
  <2> QED  BY <1>14, <2>4, <2>8 DEF d, qi
<1>17. Serve(scr, o, q, Points(r))
  <2> HIDE DEF q
  <2> QED  BY <1>14, <1>15, <1>16, ServeOne
<1> QED  BY <1>4, <1>14, <1>17 DEF Sends

-----------------------------------------------------------------------------
(* Runs of pixels. *)

LEMMA CopiesAre ==
  ASSUME NEW C, NEW c \in C, NEW l \in Nat
  PROVE  Copies1(c, l) \in Seq(C) /\ Len(Copies1(c, l)) = l /\ \A i \in 1 .. l : Copies1(c, l)[i] = c
<1>1. Copies1(c, l) \in [1 .. l -> C] /\ \A i \in 1 .. l : Copies1(c, l)[i] = c  BY DEF Copies1
<1>2. Copies1(c, l) \in Seq(C)  BY <1>1, SeqDef
<1>3. DOMAIN Copies1(c, l) = 1 .. l  BY DEF Copies1
<1> HIDE DEF Copies1
<1> QED  BY <1>1, <1>2, <1>3, LenProperties

LEMMA CopiesBoth ==
  ASSUME NEW C, NEW s \in Seq(C), NEW c \in C, NEW l \in Nat, NEW m \in Nat
  PROVE  CopiesJoin(s, c, l, m)
<1> DEFINE k == l + m  a == Copies1(c, l)  b == Copies1(c, m)  d == Copies1(c, k)  t == a \o b
<1>1. a \in Seq(C) /\ Len(a) = l /\ (\A i \in 1 .. l : a[i] = c) /\ b \in Seq(C) /\ Len(b) = m /\ \A i \in 1 .. m : b[i] = c
  BY CopiesAre
<1>2. d \in Seq(C) /\ Len(d) = l + m /\ \A i \in 1 .. l + m : d[i] = c
  <2>1. k \in Nat  OBVIOUS
  <2>2. d \in Seq(C) /\ Len(d) = k /\ \A i \in 1 .. k : d[i] = c
    <3> HIDE DEF k
    <3> QED  BY <2>1, CopiesAre
  <2> QED  BY <2>2
<1> HIDE DEF a, b, d
<1>3. t \in Seq(C) /\ Len(t) = l + m /\ \A i \in 1 .. l + m : t[i] = IF i <= l THEN a[i] ELSE b[i - l]
  BY <1>1, ConcatProperties
<1> HIDE DEF t
<1>4. ASSUME NEW i \in 1 .. l + m PROVE t[i] = c
  <2>1. CASE i <= l  BY <1>1, <1>3, <2>1
  <2>2. CASE ~(i <= l)
    <3>1. i - l \in 1 .. m  BY <2>2
    <3> QED  BY <1>1, <1>3, <2>2, <3>1
  <2> QED  BY <2>1, <2>2
<1>5. t = d
  <2>1. \A i \in 1 .. Len(t) : t[i] = d[i]  BY <1>2, <1>3, <1>4
  <2> QED  BY <1>2, <1>3, <2>1, SeqEqual
<1>6. (s \o a) \o b = s \o t  BY <1>1, ConcatAssociative DEF t
<1> QED  BY <1>5, <1>6 DEF a, b, d, k, CopiesJoin

LEMMA CopyAppended ==
  ASSUME NEW C, NEW s \in Seq(C), NEW c \in C
  PROVE  Append(s, c) = s \o Copies1(c, 1) /\ Append(s, c) \in Seq(C)
<1> DEFINE a == Copies1(c, 1)
<1>1. a \in Seq(C) /\ Len(a) = 1 /\ a[1] = c
  <2> DEFINE k == 1
  <2>1. k \in Nat /\ 1 \in 1 .. k  OBVIOUS
  <2> HIDE DEF k
  <2>2. Copies1(c, k) \in Seq(C) /\ Len(Copies1(c, k)) = k /\ \A i \in 1 .. k : Copies1(c, k)[i] = c
    BY <2>1, CopiesAre
  <2> QED  BY <2>1, <2>2 DEF k
<1>2. <<c>> \in Seq(C) /\ Len(<<c>>) = 1 /\ <<c>>[1] = c  OBVIOUS
<1> DEFINE b == <<c>>
<1> HIDE DEF a, b
<1>3. a = b
  <2>1. \A i \in 1 .. Len(a) : a[i] = b[i]  BY <1>1, <1>2 DEF b
  <2> QED  BY <1>1, <1>2, <2>1, SeqEqual DEF b
<1>4. Append(s, c) = s \o b  BY AppendIsConcat DEF b
<1> QED  BY <1>3, <1>4, AppendProperties DEF a

LEMMA ExpandMore ==
  ASSUME NEW S, NEW runs \in Seq(S), NEW e \in S
  PROVE  Expand(<<>>) = <<>> /\ Expand(Append(runs, e)) = Expand(runs) \o Copies1(e[1], e[2])
<1>1. Expanding!After(0, 0, <<>>, Append(runs, e))[Len(runs) + 1]
        = ExpandStep(0, 0, Expanding!After(0, 0, <<>>, runs)[Len(runs)], e)
  BY Expanding!AfterMore, Reached DEF Expanding!Upward
<1>2. Len(Append(runs, e)) = Len(runs) + 1  BY AppendProperties
<1>3. Expanding!After(0, 0, <<>>, <<>>)[0] = <<>>  BY EmptyIs, Expanding!AfterExists, Reached DEF Expanding!Upward
<1> QED  BY <1>1, <1>2, <1>3, EmptyIs DEF Expand, ExpandStep

\* Runs expand to what they were made of.
LEMMA ExpandIs ==
  ASSUME NEW C, NEW runs \in Seq(RunsOf(C))
  PROVE  Expand(runs) \in Seq(C)
<1> DEFINE n == Len(runs)  f == Expanding!After(0, 0, <<>>, runs)
           Q == {k \in 0 .. n : f[k] \in Seq(C)}
<1>1. n \in Nat  BY LenProperties
<1>2. f[0] = <<>> /\ \A i \in 1 .. n : f[i] = ExpandStep(0, 0, f[i - 1], runs[i])
  BY <1>1, Expanding!AfterExists, Reached DEF Expanding!Upward
<1> HIDE DEF f, n
<1>3. 0 \in Q
  <2>1. f[0] \in Seq(C)  BY <1>2, EmptySeq
  <2> QED  BY <1>1, <2>1
<1>4. ASSUME NEW k \in 0 .. n - 1, k \in Q PROVE k + 1 \in Q
  <2> DEFINE l == k + 1  e == runs[l]
  <2>1. l \in 1 .. n /\ l \in 0 .. n /\ l - 1 = k  BY <1>1
  <2>2. f[l] = f[k] \o Copies1(e[1], e[2])  BY <1>2, <2>1 DEF ExpandStep
  <2>3. e \in RunsOf(C)
    <3> HIDE DEF l
    <3> QED  BY <2>1, ElementOfSeq DEF n
  <2> HIDE DEF e, l
  <2>4. e[1] \in C /\ e[2] \in Nat  BY <2>3 DEF RunsOf
  <2>5. Copies1(e[1], e[2]) \in Seq(C)  BY <2>4, CopiesAre
  <2>6. f[l] \in Seq(C)  BY <1>4, <2>2, <2>5, ConcatProperties
  <2> QED  BY <2>1, <2>6 DEF l
<1>5. n \in Q
  <2>1. \A k \in 0 .. n : k \in Q
    <3> HIDE DEF Q
    <3> QED  BY <1>1, <1>3, <1>4, Reached
  <2> HIDE DEF Q
  <2> QED  BY <1>1, <2>1
<1> QED  BY <1>5 DEF Expand, f, n

LEMMA PairIs ==
  ASSUME NEW c, NEW l, NEW m
  PROVE  [<<c, l>> EXCEPT ![2] = m] = <<c, m>>
<1> DEFINE a == <<c, l>>  b == [a EXCEPT ![2] = m]  d == <<c, m>>
<1>1. DOMAIN a = 1 .. 2 /\ a[1] = c /\ a[2] = l  OBVIOUS
<1>2. b = [i \in 1 .. 2 |-> IF i = 2 THEN m ELSE a[i]]  BY <1>1
<1>3. d = [i \in 1 .. 2 |-> IF i = 2 THEN m ELSE a[i]]
  <2>1. d \in Seq({c, m}) /\ Len(d) = 2 /\ d[1] = c /\ d[2] = m  OBVIOUS
  <2>2. d = [i \in 1 .. 2 |-> d[i]]
    <3> HIDE DEF d
    <3> QED  BY <2>1, LenProperties
  <2> HIDE DEF d, a
  <2> QED  BY <1>1, <2>1, <2>2
<1> QED  BY <1>2, <1>3

\* Runs has something for each pixel it has met.
LEMMA RunsGrow ==
  ASSUME NEW C, NEW runs \in Seq(RunsOf(C)), NEW c \in C
  PROVE  Grows(runs, RunsStep(0, 0, runs, c), c, C)
<1> DEFINE S == RunsOf(C)
<1>1. CASE runs # <<>> /\ Last(runs)[1] = c
  <2>1. PICK s \in Seq(S), e \in S : runs = Append(s, e)  BY <1>1, SequenceEmptyOrAppend
  <2> DEFINE n == Len(runs)  x == <<c, e[2] + 1>>
  <2>2. Len(s) \in Nat /\ n = Len(s) + 1 /\ runs[n] = e /\ \A i \in 1 .. Len(s) : runs[i] = s[i]
    BY <2>1, LenProperties, AppendProperties
  <2>3. e = <<e[1], e[2]>> /\ e[1] \in C /\ e[2] \in Nat \ {0}  BY DEF RunsOf
  <2>4. e[1] = c  BY <1>1, <2>2 DEF Last
  <2>5. x \in S /\ x[1] = c /\ x[2] = e[2] + 1  BY <2>3 DEF RunsOf
  <2>6. [e EXCEPT ![2] = e[2] + 1] = x
    <3> DEFINE l == e[2]  m == l + 1
    <3>1. e = <<c, l>>  BY <2>3, <2>4
    <3> HIDE DEF m, l
    <3>2. [<<c, l>> EXCEPT ![2] = m] = <<c, m>>  BY PairIs
    <3> QED  BY <3>1, <3>2 DEF m, l
  <2> HIDE DEF x
  <2>7. RunsStep(0, 0, runs, c) = [runs EXCEPT ![n] = x]  BY <1>1, <2>2, <2>6 DEF RunsStep
  <2> DEFINE new == Append(s, x)
  <2>8. [runs EXCEPT ![n] = x] = new
    <3> DEFINE t == [runs EXCEPT ![n] = x]
    <3>1. n \in 1 .. Len(runs)  BY <2>2
    <3> HIDE DEF n
    <3>2. t \in Seq(S) /\ Len(t) = Len(runs) /\ \A j \in 1 .. Len(runs) : t[j] = IF j = n THEN x ELSE runs[j]
      BY <2>5, <3>1, ExceptSeq
    <3>3. new \in Seq(S) /\ Len(new) = Len(s) + 1 /\ new[Len(s) + 1] = x /\ \A i \in 1 .. Len(s) : new[i] = s[i]
      BY <2>5, AppendProperties
    <3> HIDE DEF t, new
    <3>4. ASSUME NEW i \in 1 .. Len(t) PROVE t[i] = new[i]  BY <2>2, <3>2, <3>3 DEF n
    <3>5. Len(t) = Len(new)  BY <2>2, <3>2, <3>3 DEF n
    <3>6. t = new  BY <3>2, <3>3, <3>4, <3>5, SeqEqual
    <3> QED  BY <3>6 DEF t
  <2>9. new \in Seq(S)  BY <2>5, AppendProperties
  <2>10. Expand(new) = Append(Expand(runs), c)
    <3> DEFINE y == Expand(s)  l == e[2]
    <3>1. y \in Seq(C)  BY ExpandIs
    <3>2. Expand(new) = y \o Copies1(c, l + 1)  BY <2>5, ExpandMore
    <3>3. Expand(runs) = y \o Copies1(c, l)  BY <2>1, <2>4, ExpandMore
    <3>4. l \in Nat /\ 1 \in Nat  BY <2>3
    <3> HIDE DEF y, l, new
    <3>5. (y \o Copies1(c, l)) \o Copies1(c, 1) = y \o Copies1(c, l + 1)
      <4> DEFINE one == 1
      <4>1. one \in Nat  OBVIOUS
      <4> HIDE DEF one
      <4>2. CopiesJoin(y, c, l, one)  BY <3>1, <3>4, <4>1, CopiesBoth
      <4> QED  BY <4>2 DEF CopiesJoin, one
    <3>6. y \o Copies1(c, l) \in Seq(C)  BY <3>1, <3>4, CopiesAre, ConcatProperties
    <3>7. Append(y \o Copies1(c, l), c) = (y \o Copies1(c, l)) \o Copies1(c, 1)  BY <3>6, CopyAppended
    <3> QED  BY <3>2, <3>3, <3>5, <3>7
  <2> HIDE DEF new
  <2> QED  BY <2>7, <2>8, <2>9, <2>10 DEF Grows
<1>2. CASE ~(runs # <<>> /\ Last(runs)[1] = c)
  <2> DEFINE x == <<c, 1>>  new == Append(runs, x)
  <2>1. RunsStep(0, 0, runs, c) = new  BY <1>2 DEF RunsStep
  <2>2. x \in S /\ x[1] = c /\ x[2] = 1  BY DEF RunsOf
  <2> HIDE DEF x
  <2>3. new \in Seq(S)  BY <2>2, AppendProperties
  <2>4. Expand(new) = Expand(runs) \o Copies1(c, 1)  BY <2>2, ExpandMore
  <2>5. Append(Expand(runs), c) = Expand(runs) \o Copies1(c, 1)  BY ExpandIs, CopyAppended
  <2> HIDE DEF new
  <2> QED  BY <2>1, <2>3, <2>4, <2>5 DEF Grows
<1> QED  BY <1>1, <1>2

\* Runs stand for the pixels they were taken from.
LEMMA RunsAre ==
  ASSUME NEW C, NEW flat \in Seq(C)
  PROVE  Runs(flat) \in Seq(RunsOf(C)) /\ Expand(Runs(flat)) = flat
<1> DEFINE n == Len(flat)  f == Running!After(0, 0, <<>>, flat)  S == RunsOf(C)
           Q == {k \in 0 .. n : f[k] \in Seq(S) /\ Expand(f[k]) = SubSeq(flat, 1, k)}
<1>1. n \in Nat  BY LenProperties
<1>2. f[0] = <<>> /\ \A i \in 1 .. n : f[i] = RunsStep(0, 0, f[i - 1], flat[i])
  BY <1>1, Running!AfterExists, Reached DEF Running!Upward
<1>3. Runs(flat) = f[n]  BY DEF Runs, InTurn, Running!After, RunsStep
<1> HIDE DEF f, n
<1>4. 0 \in Q
  <2>1. Expand(<<>>) = <<>>
    <3>1. Expanding!After(0, 0, <<>>, <<>>)[0] = <<>>  BY EmptyIs, Expanding!AfterExists, Reached DEF Expanding!Upward
    <3> QED  BY <3>1, EmptyIs DEF Expand
  <2>2. SubSeq(flat, 1, 0) = <<>>  BY SubSeqEmpty
  <2>3. <<>> \in Seq(S)  BY EmptySeq
  <2>4. f[0] \in Seq(S) /\ Expand(f[0]) = SubSeq(flat, 1, 0)  BY <1>2, <2>1, <2>2, <2>3
  <2> QED  BY <1>1, <2>4
<1>5. ASSUME NEW k \in 0 .. n - 1, k \in Q PROVE k + 1 \in Q
  <2> DEFINE l == k + 1  c == flat[l]  s == SubSeq(flat, 1, k)
  <2>1. l \in 1 .. n /\ l \in 0 .. n /\ l - 1 = k /\ 1 \in 1 .. n  BY <1>1
  <2> HIDE DEF l
  <2>2. c \in C  BY <2>1, ElementOfSeq DEF n
  <2>3. f[l] = RunsStep(0, 0, f[k], c)  BY <1>2, <2>1
  <2>4. SubSeq(flat, 1, l) = SubSeq(flat, 1, l - 1) \o <<c>>
    <3>1. l \in 1 .. Len(flat) /\ 1 \in 1 .. Len(flat)  BY <2>1 DEF n
    <3> QED  BY <3>1, SubSeqRecursiveSecond
  <2> HIDE DEF c
  <2>5. s \in Seq(C)
    <3>1. \A i \in 1 .. k : flat[i] \in C  BY <1>1, <2>1, ElementOfSeq DEF n
    <3> QED  BY <3>1, SubSeqProperties
  <2> HIDE DEF s
  <2>6. Append(s, c) = s \o <<c>>  BY <2>2, <2>5, AppendIsConcat
  <2>7. f[k] \in Seq(S) /\ Expand(f[k]) = s  BY <1>5 DEF s
  <2>8. Grows(f[k], f[l], c, C)  BY <2>2, <2>3, <2>7, RunsGrow
  <2>9. f[l] \in Seq(S) /\ Expand(f[l]) = SubSeq(flat, 1, l)  BY <2>1, <2>4, <2>6, <2>7, <2>8 DEF Grows, s
  <2> QED  BY <2>1, <2>9 DEF l
<1>6. n \in Q
  <2>1. \A k \in 0 .. n : k \in Q
    <3> HIDE DEF Q
    <3> QED  BY <1>1, <1>4, <1>5, Reached
  <2> HIDE DEF Q
  <2> QED  BY <1>1, <2>1
<1>7. SubSeq(flat, 1, n) = flat  BY SubSeqFull DEF n
<1> QED  BY <1>3, <1>6, <1>7

-----------------------------------------------------------------------------
(* Palettes, and what a tile of ZRLE stands for. *)

LEMMA PalMore ==
  ASSUME NEW C, NEW pal \in Seq(C), NEW c \in C
  PROVE  PalGrows(pal, PalStep(0, 0, pal, c), c, C)
<1> USE DEF PalGrows
<1>1. CASE c \in Range(pal)  BY <1>1 DEF PalStep
<1>2. CASE c \notin Range(pal)
  <2> DEFINE new == Append(pal, c)
  <2>1. new \in Seq(C) /\ Len(new) = Len(pal) + 1 /\ new[Len(pal) + 1] = c /\ \A i \in 1 .. Len(pal) : new[i] = pal[i]
    BY AppendProperties
  <2>2. Len(pal) \in Nat /\ DOMAIN pal = 1 .. Len(pal)  BY LenProperties
  <2> HIDE DEF new
  <2>3. DOMAIN new = 1 .. Len(pal) + 1  BY <2>1, LenProperties
  <2>4. Range(pal) \subseteq Range(new) /\ c \in Range(new)  BY <2>1, <2>2, <2>3 DEF Range
  <2>5. PalStep(0, 0, pal, c) = new  BY <1>2 DEF PalStep, new
  <2> QED  BY <2>1, <2>4, <2>5
<1> QED  BY <1>1, <1>2

\* A palette has every colour of the tile once.
LEMMA PaletteIs ==
  ASSUME NEW C, NEW flat \in Seq(C), \A c \in C : \E i \in 1 .. Len(flat) : flat[i] = c
  PROVE  HasAll(Palette(flat), C)
<1> DEFINE n == Len(flat)  f == Choosing!After(0, 0, <<>>, flat)
           Q == {k \in 0 .. n : f[k] \in Seq(C) /\ \A i \in 1 .. k : flat[i] \in Range(f[k])}
<1>1. n \in Nat  BY LenProperties
<1>2. f[0] = <<>> /\ \A i \in 1 .. n : f[i] = PalStep(0, 0, f[i - 1], flat[i])
  BY <1>1, Choosing!AfterExists, Reached DEF Choosing!Upward
<1>3. Palette(flat) = f[n]  BY DEF Palette, InTurn, Choosing!After, PalStep
<1> HIDE DEF f, n
<1>4. 0 \in Q
  <2>1. f[0] \in Seq(C)  BY <1>2, EmptySeq
  <2> QED  BY <1>1, <2>1
<1>5. ASSUME NEW k \in 0 .. n - 1, k \in Q PROVE k + 1 \in Q
  <2> DEFINE l == k + 1  c == flat[l]
  <2>1. l \in 1 .. n /\ l \in 0 .. n /\ l - 1 = k /\ \A i \in 1 .. l : i \in 1 .. k \/ i = l  BY <1>1
  <2> HIDE DEF l
  <2>2. c \in C  BY <2>1, ElementOfSeq DEF n
  <2>3. f[l] = PalStep(0, 0, f[k], c)  BY <1>2, <2>1
  <2> HIDE DEF c
  <2>4. f[l] \in Seq(C) /\ Range(f[k]) \subseteq Range(f[l]) /\ c \in Range(f[l])
    <3>1. f[k] \in Seq(C)  BY <1>5
    <3>2. PalGrows(f[k], f[l], c, C)  BY <2>2, <2>3, <3>1, PalMore
    <3> QED  BY <3>2 DEF PalGrows
  <2>5. \A i \in 1 .. l : flat[i] \in Range(f[l])  BY <1>5, <2>1, <2>4 DEF c
  <2> QED  BY <2>1, <2>4, <2>5 DEF l
<1>6. n \in Q
  <2>1. \A k \in 0 .. n : k \in Q
    <3> HIDE DEF Q
    <3> QED  BY <1>1, <1>4, <1>5, Reached
  <2> HIDE DEF Q
  <2> QED  BY <1>1, <2>1
<1>7. f[n] \in Seq(C) /\ \A c \in C : c \in Range(f[n])  BY <1>6 DEF n
<1> QED  BY <1>3, <1>7 DEF HasAll, Range

LEMMA IndexIs ==
  ASSUME NEW pal, NEW C, HasAll(pal, C), NEW c \in C
  PROVE  Index(pal, c) \in Int /\ Index(pal, c) + 1 \in 1 .. Len(pal) /\ pal[Index(pal, c) + 1] = c
<1> DEFINE j == CHOOSE i \in DOMAIN pal : pal[i] = c
<1>1. j \in DOMAIN pal /\ pal[j] = c  BY DEF HasAll
<1>2. Index(pal, c) = j - 1  BY DEF Index
<1>3. DOMAIN pal = 1 .. Len(pal) /\ Len(pal) \in Nat  BY LenProperties DEF HasAll
<1> HIDE DEF j
<1> QED  BY <1>1, <1>2, <1>3

LEMMA AddIs ==
  ASSUME NEW t, NEW pixels, NEW e
  PROVE  AddStep(t, 0, pixels, e) = pixels \o Copies1(ColourOf(t, e[1]), LengthOf(e))
  BY DEF AddStep, Copies1, ColourOf, LengthOf

LEMMA DecodeMore ==
  ASSUME NEW t, NEW S, NEW rest \in Seq(S), NEW e \in S
  PROVE  Decodes(t, Append(rest, e), rest, ColourOf(t, e[1]), LengthOf(e))
<1>1. Adding!After(t, 0, <<>>, Append(rest, e))[Len(rest) + 1]
        = AddStep(t, 0, Adding!After(t, 0, <<>>, rest)[Len(rest)], e)  BY Adding!AfterMore, Reached DEF Adding!Upward
<1>2. Len(Append(rest, e)) = Len(rest) + 1  BY AppendProperties
<1>3. Decode(t, Append(rest, e)) = AddStep(t, 0, Decode(t, rest), e)  BY <1>1, <1>2 DEF Decode
<1> QED  BY <1>3, AddIs DEF Decodes

\* Plain runs.
LEMMA PlainDecoded ==
  ASSUME NEW C, NEW runs \in Seq(RunsOf(C)), NEW t, t.type = PlainRle,
         t.rest = [i \in DOMAIN runs |-> <<runs[i][1], runs[i][2] - 1>>]
  PROVE  Decode(t, t.rest) = Expand(runs)
<1> DEFINE n == Len(runs)  rest == t.rest  f == Expanding!After(0, 0, <<>>, runs)  g == Adding!After(t, 0, <<>>, rest)
           Q == {k \in 0 .. n : g[k] = f[k]}
<1>1. n \in Nat /\ DOMAIN runs = 1 .. n  BY LenProperties
<1>2. f[0] = <<>> /\ \A i \in 1 .. n : f[i] = ExpandStep(0, 0, f[i - 1], runs[i])
  BY <1>1, Expanding!AfterExists, Reached DEF Expanding!Upward
<1>3. ASSUME NEW i \in 1 .. n
      PROVE  /\ runs[i][1] \in C /\ runs[i][2] \in Nat \ {0}
             /\ rest[i] = <<runs[i][1], runs[i][2] - 1>>  BY <1>1, ElementOfSeq DEF RunsOf
<1>4. Len(rest) = n
  <2>1. ASSUME NEW i \in 1 .. n PROVE rest[i] \in C \X Int
    <3> DEFINE c == runs[i][1]  m == runs[i][2]  m1 == m - 1
    <3>1. c \in C /\ m \in Nat /\ rest[i] = <<c, m1>>  BY <1>3
    <3>2. m1 \in Int  BY <3>1
    <3> HIDE DEF c, m, m1, rest
    <3> QED  BY <3>1, <3>2
  <2>2. rest \in [1 .. n -> C \X Int]  BY <1>1, <2>1
  <2> HIDE DEF rest, n
  <2>3. rest \in Seq(C \X Int)  BY <1>1, <2>2, SeqDef
  <2>4. DOMAIN rest = 1 .. n /\ DOMAIN rest = 1 .. Len(rest) /\ Len(rest) \in Nat  BY <2>2, <2>3, LenProperties
  <2> QED  BY <1>1, <2>4
<1> HIDE DEF rest
<1>5. g[0] = <<>> /\ \A i \in 1 .. n : g[i] = AddStep(t, 0, g[i - 1], rest[i])
  BY <1>1, <1>4, Adding!AfterExists, Reached DEF Adding!Upward
<1>6. Decode(t, rest) = g[n] /\ Expand(runs) = f[n]  BY <1>4 DEF Decode, Expand
<1> HIDE DEF f, g, n
<1>7. 0 \in Q  BY <1>1, <1>2, <1>5
<1>8. ASSUME NEW k \in 0 .. n - 1, k \in Q PROVE k + 1 \in Q
  <2> DEFINE l == k + 1  c == runs[l][1]  m == runs[l][2]  e == rest[l]  m1 == m - 1
  <2>1. l \in 1 .. n /\ l \in 0 .. n /\ l - 1 = k  BY <1>1
  <2> HIDE DEF l
  <2>2. c \in C /\ m \in Nat \ {0} /\ e = <<c, m1>>  BY <1>3, <2>1
  <2>3. m1 \in Nat /\ m1 + 1 = m  BY <2>2
  <2> HIDE DEF m1
  <2>4. ColourOf(t, e[1]) = c /\ LengthOf(e) = m
    <3>1. e[1] = c /\ e[2] = m1 /\ Len(e) = 2
      <4> HIDE DEF c, m, e
      <4> QED  BY <2>2
    <3> HIDE DEF c, m, e
    <3> QED  BY <2>3, <3>1 DEF ColourOf, LengthOf
  <2>5. f[l] = f[k] \o Copies1(c, m)  BY <1>2, <2>1 DEF ExpandStep
  <2> HIDE DEF c, m, e
  <2>6. g[l] = g[k] \o Copies1(c, m)
    <3>1. g[l] = AddStep(t, 0, g[k], e)  BY <1>5, <2>1 DEF e
    <3>2. g[l] = g[k] \o Copies1(ColourOf(t, e[1]), LengthOf(e))  BY <3>1, AddIs
    <3> QED  BY <2>4, <3>2
  <2>7. g[k] = f[k]  BY <1>8
  <2>8. l \in Q  BY <2>1, <2>5, <2>6, <2>7
  <2> QED  BY <2>8 DEF l
<1>9. n \in Q
  <2>1. \A k \in 0 .. n : k \in Q
    <3> HIDE DEF Q
    <3> QED  BY <1>1, <1>7, <1>8, Reached
  <2> HIDE DEF Q
  <2> QED  BY <1>1, <2>1
<1> QED  BY <1>6, <1>9 DEF rest

\* A run of a palette colour is read with its length.
LEMMA PaletteRunRead ==
  ASSUME NEW C, NEW t, t.type # PlainRle, HasAll(t.palette, C), NEW rest \in Seq(Entries), NEW run \in RunsOf(C),
         Decode(t, rest) \in Seq(C)
  PROVE  RestMore(t, rest, RestStep(t.palette, 0, rest, run), run)
<1> DEFINE pal == t.palette  c == run[1]  l == run[2]  x == Index(pal, c)  d == Decode(t, rest)
           one == <<x>>
<1>1. c \in C /\ l \in Nat \ {0}  BY DEF RunsOf
<1>2. x \in Int /\ pal[x + 1] = c  BY <1>1, IndexIs
<1>3. ColourOf(t, x) = c  BY <1>2 DEF ColourOf
<1> HIDE DEF x, d
<1>4. one \in Entries /\ one[1] = x /\ LengthOf(one) = 1
  <2>1. one \in Entries  BY <1>2 DEF Entries
  <2>2. one[1] = x /\ Len(one) = 1  OBVIOUS
  <2> HIDE DEF one
  <2> QED  BY <2>1, <2>2 DEF LengthOf
<1> HIDE DEF one
<1> DEFINE a == Append(rest, one)
<1>5. a \in Seq(Entries) /\ Decode(t, a) = d \o Copies1(c, 1)
  <2>1. Decodes(t, a, rest, ColourOf(t, one[1]), LengthOf(one))  BY <1>4, DecodeMore
  <2>2. a \in Seq(Entries)  BY <1>4, AppendProperties
  <2> HIDE DEF a, c
  <2>3. Decodes(t, a, rest, c, 1)  BY <1>3, <1>4, <2>1
  <2> QED  BY <2>2, <2>3 DEF Decodes, d
<1>6. ASSUME l = 1 PROVE RestMore(t, rest, RestStep(pal, 0, rest, run), run)
  <2>1. PaletteRun(pal, run) = [i \in 1 .. 1 |-> one]  BY <1>6 DEF PaletteRun, x, one
  <2>2. rest \o Copies1(one, 1) = a  BY <1>4, CopyAppended
  <2>3. RestStep(pal, 0, rest, run) = a  BY <2>1, <2>2 DEF RestStep, Copies1
  <2> QED  BY <1>5, <1>6, <2>3 DEF RestMore, d
<1>7. ASSUME l = 2 PROVE RestMore(t, rest, RestStep(pal, 0, rest, run), run)
  <2> DEFINE b == Append(a, one)  u == 1  v == 2
  <2>1. PaletteRun(pal, run) = Copies1(one, 2)  BY <1>7 DEF PaletteRun, x, one, Copies1
  <2>2. u \in Nat /\ v = u + u  OBVIOUS
  <2>3. a = rest \o Copies1(one, u)  BY <1>4, CopyAppended
  <2>4. b = a \o Copies1(one, u)
    <3> HIDE DEF a
    <3> QED  BY <1>4, <1>5, CopyAppended
  <2>5. Decode(t, a) = d \o Copies1(c, u)  BY <1>5
  <2> HIDE DEF a
  <2>6. b \in Seq(Entries) /\ Decode(t, b) = Decode(t, a) \o Copies1(c, u)
    <3>0. a \in Seq(Entries)  BY <1>5
    <3>1. Decodes(t, b, a, ColourOf(t, one[1]), LengthOf(one))  BY <1>4, <3>0, DecodeMore
    <3>2. b \in Seq(Entries)  BY <1>4, <3>0, AppendProperties
    <3> HIDE DEF b, c
    <3>3. Decodes(t, b, a, c, u)  BY <1>3, <1>4, <3>1
    <3> QED  BY <3>2, <3>3 DEF Decodes
  <2> HIDE DEF b, u, v
  <2>7. CopiesJoin(rest, one, u, u) /\ CopiesJoin(d, c, u, u)  BY <1>1, <1>4, <2>2, CopiesBoth DEF d
  <2>8. b = rest \o Copies1(one, v) /\ Decode(t, b) = d \o Copies1(c, v)
    BY <2>2, <2>3, <2>4, <2>5, <2>6, <2>7 DEF CopiesJoin
  <2>9. RestStep(pal, 0, rest, run) = b  BY <2>1, <2>8 DEF RestStep, v
  <2> QED  BY <1>7, <2>6, <2>8, <2>9 DEF RestMore, d, v
<1>8. ASSUME l > 2 PROVE RestMore(t, rest, RestStep(pal, 0, rest, run), run)
  <2> DEFINE m == l - 1  e == <<x, m>>  b == Append(rest, e)
  <2>1. m \in Nat /\ m + 1 = l  BY <1>1
  <2>2. PaletteRun(pal, run) = <<e>>  BY <1>1, <1>8 DEF PaletteRun, x
  <2> HIDE DEF m
  <2>3. e \in Entries /\ e[1] = x /\ LengthOf(e) = l
    <3>1. e \in Entries  BY <1>2, <2>1 DEF Entries
    <3>2. e[1] = x /\ e[2] = m /\ Len(e) = 2  OBVIOUS
    <3> HIDE DEF e
    <3> QED  BY <2>1, <3>1, <3>2 DEF LengthOf
  <2> HIDE DEF e, l
  <2>4. b \in Seq(Entries) /\ Decode(t, b) = d \o Copies1(c, l)
    <3>1. Decodes(t, b, rest, ColourOf(t, e[1]), LengthOf(e))  BY <2>3, DecodeMore
    <3>2. b \in Seq(Entries)  BY <2>3, AppendProperties
    <3> HIDE DEF b, c
    <3>3. Decodes(t, b, rest, c, l)  BY <1>3, <2>3, <3>1
    <3> QED  BY <3>2, <3>3 DEF Decodes, d
  <2>5. RestStep(pal, 0, rest, run) = b  BY <2>2, <2>3, AppendIsConcat DEF RestStep
  <2> QED  BY <2>4, <2>5 DEF RestMore, d, l
<1>9. l = 1 \/ l = 2 \/ l > 2  BY <1>1
<1> QED  BY <1>6, <1>7, <1>8, <1>9

LEMMA PaletteDecoded ==
  ASSUME NEW C, NEW runs \in Seq(RunsOf(C)), NEW t, t.type # PlainRle, HasAll(t.palette, C)
  PROVE  Decode(t, Resting!After(t.palette, 0, <<>>, runs)[Len(runs)]) = Expand(runs)
<1> DEFINE n == Len(runs)  pal == t.palette  f == Expanding!After(0, 0, <<>>, runs)  g == Resting!After(pal, 0, <<>>, runs)
           Q == {k \in 0 .. n : g[k] \in Seq(Entries) /\ Decode(t, g[k]) = f[k] /\ f[k] \in Seq(C)}
<1>1. n \in Nat  BY LenProperties
<1>2. f[0] = <<>> /\ \A i \in 1 .. n : f[i] = ExpandStep(0, 0, f[i - 1], runs[i])
  BY <1>1, Expanding!AfterExists, Reached DEF Expanding!Upward
<1>3. g[0] = <<>> /\ \A i \in 1 .. n : g[i] = RestStep(pal, 0, g[i - 1], runs[i])
  BY <1>1, Resting!AfterExists, Reached DEF Resting!Upward
<1>4. Expand(runs) = f[n]  BY DEF Expand
<1> HIDE DEF f, g, n
<1>5. 0 \in Q
  <2>1. Adding!After(t, 0, <<>>, <<>>)[0] = <<>>  BY EmptyIs, Adding!AfterExists, Reached DEF Adding!Upward
  <2>2. Decode(t, <<>>) = <<>>  BY <2>1, EmptyIs DEF Decode
  <2>3. <<>> \in Seq(Entries) /\ <<>> \in Seq(C)  BY EmptySeq
  <2>4. g[0] \in Seq(Entries) /\ Decode(t, g[0]) = f[0] /\ f[0] \in Seq(C)  BY <1>2, <1>3, <2>2, <2>3
  <2> QED  BY <1>1, <2>4
<1>6. ASSUME NEW k \in 0 .. n - 1, k \in Q PROVE k + 1 \in Q
  <2> DEFINE l == k + 1  run == runs[l]
  <2>1. l \in 1 .. n /\ l \in 0 .. n /\ l - 1 = k  BY <1>1
  <2> HIDE DEF l
  <2>2. run \in RunsOf(C)  BY <2>1, ElementOfSeq DEF n
  <2>3. f[l] = f[k] \o Copies1(run[1], run[2])  BY <1>2, <2>1 DEF ExpandStep
  <2>4. g[l] = RestStep(pal, 0, g[k], run)  BY <1>3, <2>1
  <2>5. g[k] \in Seq(Entries) /\ Decode(t, g[k]) = f[k] /\ f[k] \in Seq(C)  BY <1>6
  <2> HIDE DEF run
  <2>6. RestMore(t, g[k], g[l], run)  BY <2>2, <2>4, <2>5, PaletteRunRead
  <2>7. f[l] \in Seq(C)
    <3>1. run[1] \in C /\ run[2] \in Nat  BY <2>2 DEF RunsOf
    <3>2. Copies1(run[1], run[2]) \in Seq(C)  BY <3>1, CopiesAre
    <3> QED  BY <2>3, <2>5, <3>2, ConcatProperties
  <2>8. g[l] \in Seq(Entries) /\ Decode(t, g[l]) = f[l]  BY <2>3, <2>5, <2>6 DEF RestMore
  <2> QED  BY <2>1, <2>7, <2>8 DEF l
<1>7. n \in Q
  <2>1. \A k \in 0 .. n : k \in Q
    <3> HIDE DEF Q
    <3> QED  BY <1>1, <1>5, <1>6, Reached
  <2> HIDE DEF Q
  <2> QED  BY <1>1, <2>1
<1> QED  BY <1>4, <1>7 DEF g, n

-----------------------------------------------------------------------------
(* The tiles of ZRLE. *)

LEMMA BestIs ==
  ASSUME NEW S, NEW seq \in Seq(S), NEW x \in S
  PROVE  Bettering!After(0, 0, x, seq)[Len(seq)] \in S
<1> DEFINE n == Len(seq)  f == Bettering!After(0, 0, x, seq)
           Q == {k \in 0 .. n : f[k] \in S}
<1>1. n \in Nat  BY LenProperties
<1>2. f[0] = x /\ \A i \in 1 .. n : f[i] = BetterStep(0, 0, f[i - 1], seq[i])
  BY <1>1, Bettering!AfterExists, Reached DEF Bettering!Upward
<1> HIDE DEF f, n
<1>3. 0 \in Q  BY <1>1, <1>2
<1>4. ASSUME NEW k \in 0 .. n - 1, k \in Q PROVE k + 1 \in Q
  <2> DEFINE l == k + 1
  <2>1. l \in 1 .. n /\ l \in 0 .. n /\ l - 1 = k  BY <1>1
  <2> HIDE DEF l
  <2>2. seq[l] \in S  BY <2>1, ElementOfSeq DEF n
  <2>3. f[l] = BetterStep(0, 0, f[k], seq[l])  BY <1>2, <2>1
  <2>4. f[l] \in S  BY <1>4, <2>2, <2>3 DEF BetterStep
  <2> QED  BY <2>1, <2>4 DEF l
<1>5. n \in Q
  <2>1. \A k \in 0 .. n : k \in Q
    <3> HIDE DEF Q
    <3> QED  BY <1>1, <1>3, <1>4, Reached
  <2> HIDE DEF Q
  <2> QED  BY <1>1, <2>1
<1> QED  BY <1>5 DEF f, n

\* Whichever kind of tile is estimated shortest can be used.
LEMMA TypeIs ==
  ASSUME NEW r, NEW runs, NEW size \in Nat \ {0}
  PROVE  TypeFits(TileType(r, runs, size), size)
<1>1. CASE size = 1  BY <1>1 DEF TypeFits, TileType, SolidTile
<1>2. CASE size # 1
  <2> DEFINE e1 == <<RawTile, CPIXEL * Area(r)>>  e2 == <<PlainRle, (CPIXEL + 1) * Len(runs)>>
             single == Cardinality({i \in DOMAIN runs : runs[i][2] = 1})
             longer == Len(runs) - single
             packed == CPIXEL * size + (Area(r) * bitsPerPackedPixel(size)) \div BitsPerByte
             e3 == <<PlainRle + size, CPIXEL * size + 2 * longer + single>>
             e4 == <<size, packed>>
             S == {e \in {e1, e2, e3, e4} : e[1] \in TypesFor(size)}
             c == IF size < 128 THEN <<e3>> ELSE <<>>
             d == IF size < 17 THEN <<e4>> ELSE <<>>
             seq == <<e1, e2>> \o c \o d
  <2>1. Estimates(r, runs, size) = seq  BY DEF Estimates
  <2>2. TileType(r, runs, size) = Bettering!After(0, 0, e1, seq)[Len(seq)][1]
    <3>1. TileType(r, runs, size)
            = IF size = 1 THEN SolidTile
              ELSE Bettering!After(0, 0, <<RawTile, CPIXEL * Area(r)>>, Estimates(r, runs, size))[Len(Estimates(r, runs, size))][1]
      BY DEF TileType, InTurn, Bettering!After, BetterStep
    <3> HIDE DEF seq
    <3> QED  BY <1>2, <2>1, <3>1 DEF e1
  <2>3. e1[1] = 0 /\ e2[1] = 128 /\ e3[1] = 128 + size /\ e4[1] = size  BY DEF RawTile, PlainRle
  <2> HIDE DEF e1, e2, e3, e4
  <2>4. 0 \in TypesFor(size) /\ 128 \in TypesFor(size)  BY DEF TypesFor
  <2>5. (size < 128 => 128 + size \in TypesFor(size)) /\ (size < 17 => size \in TypesFor(size))  BY DEF TypesFor
  <2>6. e1 \in S /\ e2 \in S /\ (size < 128 => e3 \in S) /\ (size < 17 => e4 \in S)  BY <2>3, <2>4, <2>5
  <2>7. \A e \in S : e[1] \in TypesFor(size)  OBVIOUS
  <2> HIDE DEF S
  <2>8. <<e1, e2>> \in Seq(S) /\ c \in Seq(S) /\ d \in Seq(S)  BY <2>6
  <2> HIDE DEF c, d
  <2>9. seq \in Seq(S)  BY <2>8, ConcatProperties
  <2> HIDE DEF seq
  <2>10. Bettering!After(0, 0, e1, seq)[Len(seq)] \in S  BY <2>6, <2>9, BestIs
  <2> QED  BY <1>2, <2>2, <2>7, <2>10 DEF TypeFits
<1> QED  BY <1>1, <1>2

LEMMA TileFields ==
  ASSUME NEW type, NEW palette, NEW rest
  PROVE  LET t == Tile(type, palette, rest) IN t.type = type /\ t.palette = palette /\ t.rest = rest  BY DEF Tile

LEMMA TilePixelsAre ==
  ASSUME NEW t, NEW n
  PROVE  TilePixels(t, n) = IF t.type = 0 THEN t.rest
                            ELSE IF t.type = 1 THEN Copies1(t.palette[1], n)
                            ELSE IF t.type \in 2 .. 127 THEN Picked(t)
                            ELSE Decode(t, t.rest)
  BY DEF TilePixels, RawTile, SolidTile, Decode, InTurn, Adding!After, AddStep, Picked, Copies1

\* Each kind of tile stands for the pixels it was made of.
LEMMA TileIs ==
  ASSUME NEW r, IsRect(r), NEW data, DOMAIN data = Zone(r.w, r.h)
  PROVE  TileShows(EncodedTile(data, r), Area(r), Flat(data, r))
<1> DEFINE C == ColoursOf(data)  n == Area(r)  flat == Flat(data, r)  runs == Runs(flat)  pal == Palette(flat)
           size == Len(pal)  type == TileType(r, runs, size)  t == EncodedTile(data, r)
<1>1. n \in Nat \ {0} /\ DOMAIN flat = 1 .. n /\ (\A i \in 1 .. n : flat[i] \in C)
      /\ \A c \in C : \E i \in 1 .. n : flat[i] = c  BY FlatIs
<1>2. flat = [i \in 1 .. n |-> flat[i]]  BY <1>1 DEF Flat
<1> HIDE DEF C, n
<1>3. t = IF type = SolidTile THEN Tile(type, pal, <<>>)
          ELSE IF type = RawTile THEN Tile(type, <<>>, flat)
          ELSE IF type = PlainRle THEN Tile(type, <<>>, [i \in DOMAIN runs |-> <<runs[i][1], runs[i][2] - 1>>])
          ELSE IF type > PlainRle THEN Tile(type, pal, Resting!After(pal, 0, <<>>, runs)[Len(runs)])
          ELSE Tile(type, pal, [i \in DOMAIN flat |-> Index(pal, flat[i])])
  BY DEF EncodedTile, Tile, InTurn, Resting!After, RestStep
<1> HIDE DEF flat, t
<1>4. flat \in Seq(C) /\ Len(flat) = n
  <2>1. flat \in [1 .. n -> C]  BY <1>1, <1>2
  <2>2. flat \in Seq(C)  BY <1>1, <2>1, SeqDef
  <2>3. Len(flat) \in Nat /\ DOMAIN flat = 1 .. Len(flat)  BY <2>2, LenProperties
  <2> QED  BY <1>1, <2>2, <2>3
<1>5. HasAll(pal, C)  BY <1>1, <1>4, PaletteIs
<1>6. runs \in Seq(RunsOf(C)) /\ Expand(runs) = flat  BY <1>4, RunsAre
<1>7. size \in Nat \ {0} /\ pal \in Seq(C)
  <2>1. pal \in Seq(C)  BY <1>5 DEF HasAll
  <2>2. size \in Nat  BY <2>1, LenProperties
  <2>3. flat[1] \in C  BY <1>1
  <2>4. Index(pal, flat[1]) + 1 \in 1 .. size
    <3> DEFINE c == flat[1]
    <3> HIDE DEF c, pal
    <3>1. Index(pal, c) + 1 \in 1 .. size  BY <1>5, <2>3, IndexIs DEF c
    <3> QED  BY <3>1 DEF c
  <2> QED  BY <2>1, <2>2, <2>4
<1> HIDE DEF runs, pal
<1>8. TypeFits(type, size)  BY <1>7, TypeIs
<1> HIDE DEF type, size
<1>10. type \in Int /\ (type # 1 => type \in {0, 128} \/ (type = 128 + size /\ size > 1) \/ (type = size /\ size \in 2 .. 16))
       /\ (type = 1 => size = 1)  BY <1>7, <1>8 DEF TypeFits, TypesFor
<1>11. ASSUME type = 1 PROVE TileShows(t, n, flat)
  <2>1. t = Tile(1, pal, <<>>) /\ size = 1  BY <1>3, <1>10, <1>11 DEF SolidTile
  <2>2. ASSUME NEW i \in 1 .. n PROVE flat[i] = pal[1]
    <3> DEFINE c == flat[i]
    <3>1. c \in C  BY <1>1
    <3> HIDE DEF c
    <3>2. Index(pal, c) \in Int /\ Index(pal, c) + 1 \in 1 .. Len(pal) /\ pal[Index(pal, c) + 1] = c
      BY <1>5, <3>1, IndexIs
    <3>3. Index(pal, c) + 1 = 1  BY <2>1, <3>2 DEF size
    <3> QED  BY <3>2, <3>3 DEF c
  <2>3. t.type = 1 /\ t.palette = pal  BY <2>1, TileFields
  <2>4. TilePixels(t, n) = [i \in 1 .. n |-> pal[1]]  BY <2>3, TilePixelsAre DEF Copies1
  <2>5. TilePixels(t, n) = flat  BY <1>2, <2>2, <2>4
  <2>6. Len(t.palette) = 1  BY <2>1, <2>3 DEF size
  <2> QED  BY <2>3, <2>5, <2>6 DEF TileShows, PlainRle
<1>12. ASSUME type = 0 PROVE TileShows(t, n, flat)
  <2>1. t = Tile(0, <<>>, flat)  BY <1>3, <1>12 DEF SolidTile, RawTile
  <2>2. t.type = 0 /\ t.palette = <<>> /\ t.rest = flat  BY <2>1, TileFields
  <2>3. TilePixels(t, n) = flat  BY <2>2, TilePixelsAre
  <2> QED  BY <2>2, <2>3, EmptyIs DEF TileShows, PlainRle
<1>13. ASSUME type = 128 PROVE TileShows(t, n, flat)
  <2> DEFINE rest == [i \in DOMAIN runs |-> <<runs[i][1], runs[i][2] - 1>>]
  <2>1. t = Tile(128, <<>>, rest)  BY <1>3, <1>13 DEF SolidTile, RawTile, PlainRle
  <2>2. t.type = 128 /\ t.palette = <<>> /\ t.rest = rest
    <3> HIDE DEF rest
    <3> QED  BY <2>1, TileFields
  <2>3. Decode(t, t.rest) = Expand(runs)  BY <1>6, <2>2, PlainDecoded DEF PlainRle
  <2> HIDE DEF rest
  <2>4. TilePixels(t, n) = flat
    <3>1. t.type # 0 /\ t.type # 1 /\ t.type \notin 2 .. 127  BY <1>7, <2>2
    <3>2. Decode(t, t.rest) = flat  BY <1>6, <2>2, <2>3
    <3> QED  BY <3>1, <3>2, TilePixelsAre
  <2> QED  BY <2>2, <2>4, EmptyIs DEF TileShows, PlainRle
<1>14. ASSUME type = 128 + size, size > 1 PROVE TileShows(t, n, flat)
  <2> DEFINE rest == Resting!After(pal, 0, <<>>, runs)[Len(runs)]
  <2>1. t = Tile(type, pal, rest)  BY <1>3, <1>7, <1>14 DEF SolidTile, RawTile, PlainRle
  <2>2. t.type = type /\ t.palette = pal /\ t.rest = rest
    <3> HIDE DEF rest
    <3> QED  BY <2>1, TileFields
  <2>3. t.type # PlainRle /\ HasAll(t.palette, C) /\ rest = Resting!After(t.palette, 0, <<>>, runs)[Len(runs)]
    BY <1>5, <1>7, <1>14, <2>2 DEF PlainRle
  <2> HIDE DEF rest
  <2>4. Decode(t, rest) = Expand(runs)  BY <1>6, <2>3, PaletteDecoded
  <2>5. TilePixels(t, n) = flat
    <3>1. t.type # 0 /\ t.type # 1 /\ t.type \notin 2 .. 127  BY <1>7, <1>14, <2>2
    <3>2. Decode(t, t.rest) = flat  BY <1>6, <2>2, <2>4
    <3> QED  BY <3>1, <3>2, TilePixelsAre
  <2> QED  BY <1>7, <1>14, <2>2, <2>5 DEF TileShows, PlainRle, size
<1>15. ASSUME type = size, size \in 2 .. 16 PROVE TileShows(t, n, flat)
  <2> DEFINE rest == [i \in DOMAIN flat |-> Index(pal, flat[i])]
  <2>1. t = Tile(type, pal, rest)  BY <1>3, <1>7, <1>15 DEF SolidTile, RawTile, PlainRle
  <2>2. t.type = type /\ t.palette = pal /\ t.rest = rest
    <3> HIDE DEF rest
    <3> QED  BY <2>1, TileFields
  <2>3. ASSUME NEW i \in 1 .. n PROVE pal[rest[i] + 1] = flat[i]
    <3> DEFINE c == flat[i]
    <3>1. c \in C /\ rest[i] = Index(pal, c)  BY <1>1
    <3> HIDE DEF c, rest
    <3>2. pal[Index(pal, c) + 1] = c  BY <1>5, <3>1, IndexIs
    <3> QED  BY <3>1, <3>2 DEF c
  <2>4. DOMAIN rest = 1 .. n  BY <1>1
  <2> HIDE DEF rest
  <2>5. TilePixels(t, n) = [i \in DOMAIN t.rest |-> t.palette[t.rest[i] + 1]]
    <3>1. t.type # 0 /\ t.type # 1 /\ t.type \in 2 .. 127  BY <1>15, <2>2
    <3> QED  BY <3>1, TilePixelsAre DEF Picked
  <2>6. TilePixels(t, n) = [i \in 1 .. n |-> pal[rest[i] + 1]]  BY <2>2, <2>4, <2>5
  <2>7. TilePixels(t, n) = flat  BY <1>2, <2>3, <2>6
  <2>8. Len(t.palette) = type /\ type < 128 /\ type # 129 /\ type \in Int
    <3>1. Len(t.palette) = size  BY <2>2 DEF size
    <3> QED  BY <1>15, <3>1
  <2> QED  BY <2>2, <2>7, <2>8 DEF TileShows, PlainRle
<1> QED  BY <1>10, <1>11, <1>12, <1>13, <1>14, <1>15 DEF n, flat, t

-----------------------------------------------------------------------------
(* How the viewer reads them. *)

LEMMA ZRecIs ==
  ASSUME NEW v, NEW x
  PROVE  LET a == ZRec(v) IN a.v = v /\ a.failed = No /\ [a EXCEPT !.v = x] = ZRec(x)  BY DEF ZRec

LEMMA ZTileRead ==
  ASSUME NEW scr \in Pictures, NEW r, On(r), NEW t, TileShows(t, Area(r), Flat(Crop(scr, r), r)),
         NEW items, NEW pic \in Seen, NEW at, NEW inf
  PROVE  HandleZRLETile(ZRec(View(items, pic, at, inf)), t, r) = ZRec(View(items, Overlay(pic, Points(r), scr), at, inf))
<1> DEFINE n == Area(r)  data == Crop(scr, r)  flat == Flat(data, r)  v == View(items, pic, at, inf)
           drawn == [p \in Points(Rect(0, 0, r.w, r.h)) |-> flat[(p[2] * r.w) + p[1] + 1]]
           px == TilePixels(t, n)  w == r.w  h == r.h
           size == IF t.type >= PlainRle THEN t.type - PlainRle ELSE t.type
<1>1. IsRect(r) /\ w \in Nat \ {0} /\ h \in Nat \ {0} /\ n = w * h /\ r.x \in Int /\ r.y \in Int
  BY DEF On, IsRect, Area
<1>2. data \in [Zone(r.w, r.h) -> Colours] /\ \A p \in Points(r) : <<p[1] - r.x, p[2] - r.y>> \in Zone(r.w, r.h)
                                                                /\ data[<<p[1] - r.x, p[2] - r.y>>] = scr[p]
  BY CropIs DEF Zone
<1>3. n \in Nat \ {0} /\ DOMAIN flat = 1 .. n /\ \A i \in 1 .. n : flat[i] = data[Nth(i, w)]
  <2>1. DOMAIN data = Zone(r.w, r.h)  BY <1>2
  <2> HIDE DEF data
  <2> QED  BY <1>1, <2>1, FlatIs
<1>4. px = flat /\ t.type # 129 /\ Len(t.palette) = size  BY DEF TileShows
<1>5. Len(flat) = n  BY <1>3 DEF Flat
<1>6. HandleZRLETile(ZRec(v), t, r) = [ZRec(v) EXCEPT !.v = GotBitmap(v, r, drawn)]
  <2>1. ZRec(v).failed = No /\ ZRec(v).v = v  BY ZRecIs
  <2> DEFINE a == ZRec(v)
  <2> HIDE DEF a, v
  <2>2. HandleZRLETile(a, t, r)
          = IF a.failed \/ ~(t.type # 129 /\ Len(t.palette) = size /\ Len(px) = n) THEN [a EXCEPT !.failed = TRUE]
            ELSE [a EXCEPT !.v = GotBitmap(@, r, [p \in Points(Rect(0, 0, r.w, r.h)) |-> px[(p[2] * r.w) + p[1] + 1]])]
    BY DEF HandleZRLETile
  <2> HIDE DEF px, n, flat, size
  <2>3. [a EXCEPT !.v = GotBitmap(@, r, drawn)] = [a EXCEPT !.v = GotBitmap(a.v, r, drawn)]  OBVIOUS
  <2> QED  BY <1>4, <1>5, <2>1, <2>2, <2>3 DEF a, No
<1> HIDE DEF flat, data
<1>7. Cut(scr, r, drawn)
  <2> SUFFICES ASSUME NEW p \in Points(r) PROVE drawn[<<p[1] - r.x, p[2] - r.y>>] = scr[p]  BY DEF Cut
  <2> DEFINE q == <<p[1] - r.x, p[2] - r.y>>
  <2>1. q \in Zone(w, h) /\ data[q] = scr[p]  BY <1>2
  <2> HIDE DEF q, w, h
  <2>2. PICK i \in 1 .. w * h : Nth(i, w) = q /\ i = (w * q[2]) + q[1] + 1  BY <1>1, <2>1, NthIs DEF IsNth
  <2>3. q[1] \in Int /\ q[2] \in Int  BY <1>1, <2>1, ZoneIs
  <2>4. (q[2] * w) + q[1] + 1 = i  BY <1>1, <2>2, <2>3
  <2>5. flat[i] = data[q]  BY <1>1, <1>3, <2>2
  <2>6. drawn[q] = flat[(q[2] * w) + q[1] + 1]  BY <2>1 DEF w, h, Zone
  <2>7. drawn[q] = scr[p]  BY <2>1, <2>4, <2>5, <2>6
  <2> QED  BY <2>7 DEF q
<1> HIDE DEF drawn
<1>8. GotBitmap(v, r, drawn) = View(items, Overlay(pic, Points(r), scr), at, inf)  BY <1>7, BitmapDrawn
<1> HIDE DEF v
<1> QED  BY <1>6, <1>8, ZRecIs DEF v

LEMMA ZRead ==
  ASSUME NEW scr \in Pictures, NEW T, NEW n \in Nat, Len(T) = n, NEW r,
         Covered(r, T, n),
         NEW pic \in Seen, NEW items, NEW at, NEW inf, NEW coded, IsCoded(scr, T, n, coded)
  PROVE  ZReads(scr, pic, items, coded, T, r, at, inf)
<1> DEFINE v == View(items, pic, at, inf)  g == ZTurning!After(coded, T, ZRec(v), UpTo(n))
           D == [i \in 1 .. n |-> Points(T[i])]
           see(k) == ZRec(View(items, Overlay(pic, UnionOf(D, k), scr), at, inf))
           Q == {k \in 0 .. n : g[k] = see(k)}
<1>0. Len(UpTo(n)) = n /\ \A i \in 1 .. n : UpTo(n)[i] = i  BY UpToIs
<1>1. g[0] = ZRec(v) /\ \A i \in 1 .. n : g[i] = ZTurnStep(coded, T, g[i - 1], i)
  BY <1>0, ZTurning!AfterExists, Reached DEF ZTurning!Upward
<1>2. ZDone(v, coded, T) = g[n].v  BY DEF ZDone
<1> HIDE DEF g
<1>3. \A i \in 1 .. n : D[i] = Points(T[i])  OBVIOUS
<1> HIDE DEF D
<1>4. UnionOf(D, 0) = {} /\ UnionOf(D, n) = Points(r)  BY <1>3 DEF UnionOf, Covered
<1>5. 0 \in Q
  <2>1. Overlay(pic, UnionOf(D, 0), scr) = pic  BY <1>4, OverlayIs
  <2> QED  BY <1>1, <2>1
<1>6. ASSUME NEW k \in 0 .. n - 1, k \in Q PROVE k + 1 \in Q
  <2> DEFINE l == k + 1  U == UnionOf(D, k)  t == T[l]  p == Overlay(pic, U, scr)
  <2>1. l \in 1 .. n /\ l \in 0 .. n /\ l - 1 = k  OBVIOUS
  <2>5. UnionOf(D, l) = U \cup Points(t)
    <3>1. 1 .. l = (1 .. k) \cup {l}  BY <2>1
    <3>2. UnionOf(D, l) = U \cup D[l]  BY <3>1 DEF UnionOf
    <3> QED  BY <1>3, <2>1, <3>2
  <2> HIDE DEF l
  <2>2. g[l] = HandleZRLETile(g[k], coded[l], t)  BY <1>1, <2>1 DEF ZTurnStep
  <2>3. On(t) /\ TileShows(coded[l], Area(t), Flat(Crop(scr, t), t))  BY <2>1 DEF IsCoded
  <2>4. g[k] = ZRec(View(items, p, at, inf))  BY <1>6
  <2>6. p \in Seen /\ Overlay(p, Points(t), scr) = Overlay(pic, U \cup Points(t), scr)  BY OverlayIs
  <2> HIDE DEF U, t, p
  <2>7. HandleZRLETile(ZRec(View(items, p, at, inf)), coded[l], t)
          = ZRec(View(items, Overlay(p, Points(t), scr), at, inf))  BY <2>3, <2>6, ZTileRead
  <2>8. g[l] = see(l)  BY <2>2, <2>4, <2>5, <2>6, <2>7
  <2>9. l \in Q  BY <2>1, <2>8
  <2> QED  BY <2>9 DEF l
<1>7. n \in Q
  <2>1. \A k \in 0 .. n : k \in Q
    <3> HIDE DEF Q
    <3> QED  BY <1>5, <1>6, Reached
  <2> HIDE DEF Q
  <2> QED  BY <2>1
<1>8. g[n] = ZRec(View(items, Overlay(pic, Points(r), scr), at, inf))  BY <1>4, <1>7
<1>9. g[n].v = View(items, Overlay(pic, Points(r), scr), at, inf)  BY <1>8, ZRecIs
<1> QED  BY <1>2, <1>9 DEF ZReads, v

LEMMA ZrleHandled ==
  ASSUME NEW scr \in Pictures, NEW r, NEW T, T = Tiles(r, rfbZRLETileWidth, rfbZRLETileHeight), NEW n \in Nat, Len(T) = n,
         Covered(r, T, n),
         NEW items, NEW pic \in Seen, NEW at, NEW d \in [Streams -> Nat], IsSeq(items),
         at \in 1 .. Len(items), items[at] = <<"length">>,
         NEW coded, IsCoded(scr, T, n, coded),
         NEW body, ZBody(body, d, coded),
         at + 1 \in 1 .. Len(items), items[at + 1] = body
  PROVE  ZHandles(scr, items, pic, at, d, r)
<1> DEFINE v == View(items, pic, at, d)  a == at + 1  u == View(items, pic, a, d)  s == "zrle"  a2 == a + 1
           k == d[s] + 1
           seen == [Took(u) EXCEPT !.inflated["zrle"] = @ + 1]
           after == View(items, pic, a2, Bumped(d, "zrle"))
<1>1. Length(v) = u  BY LengthIs
<1>2. a \in 1 .. Len(items) /\ items[a] = body /\ a2 = at + 2  OBVIOUS
<1>3. body[1] = "deflated" /\ body[2] = "zrle" /\ body[3] = k /\ body[4] = coded
  <2> HIDE DEF k
  <2>1. body = <<"deflated", "zrle", k, coded>>  BY DEF k, ZBody
  <2> QED  BY <2>1
<1> HIDE DEF a, v, k
<1>4. Took(u) = View(items, pic, a2, d)  BY ViewIs
<1>5. Next1(u) = body  BY <1>2, NextIs
<1>6. u.inflated = d  BY ViewFields
<1> HIDE DEF u, a2
<1>7. seen = after
  <2> DEFINE w == View(items, pic, a2, d)  x == Bumped(d, "zrle")
  <2>1. w.inflated = d /\ [w EXCEPT !.inflated = x] = View(items, pic, a2, x)  BY ViewFields, ViewWith
  <2>2. [w EXCEPT !.inflated["zrle"] = @ + 1] = [w EXCEPT !.inflated = [w.inflated EXCEPT !["zrle"] = @ + 1]]  OBVIOUS
  <2>3. seen = [w EXCEPT !.inflated["zrle"] = @ + 1]  BY <1>4
  <2>4. [w EXCEPT !.inflated["zrle"] = @ + 1] = [w EXCEPT !.inflated = x]
    <3> HIDE DEF w
    <3> QED  BY <2>1, <2>2 DEF Bumped
  <2> HIDE DEF w, x, seen
  <2> QED  BY <2>1, <2>3, <2>4 DEF x
<1>8. HandleZRLE(v, r)
        = IF body[1] = "deflated" /\ body[2] = "zrle" /\ body[3] = d["zrle"] + 1
            THEN ZTurning!After(coded, T, ZRec(seen), UpTo(Len(T)))[Len(UpTo(Len(T)))].v
            ELSE Lost(u)
  <2> DEFINE b == Next1(Length(v))  y == Length(v)
  <2>1. HandleZRLE(v, r)
          = IF b[1] = "deflated" /\ b[2] = "zrle" /\ b[3] = y.inflated["zrle"] + 1
              THEN ZTurning!After(b[4], Tiles(r, rfbZRLETileWidth, rfbZRLETileHeight),
                                  ZRec([Took(y) EXCEPT !.inflated["zrle"] = @ + 1]),
                                  UpTo(Len(Tiles(r, rfbZRLETileWidth, rfbZRLETileHeight))))
                     [Len(UpTo(Len(Tiles(r, rfbZRLETileWidth, rfbZRLETileHeight))))].v
              ELSE Lost(y)  BY DEF HandleZRLE, InTurn, ZTurning!After, ZTurnStep, ZRec, No
  <2>2. y = u /\ b = body  BY <1>1, <1>5
  <2> HIDE DEF y, b, seen
  <2>3. [Took(y) EXCEPT !.inflated["zrle"] = @ + 1] = seen  BY <2>2 DEF seen
  <2> QED  BY <1>3, <1>6, <2>1, <2>2, <2>3
<1> HIDE DEF seen, after
<1>9. HandleZRLE(v, r) = ZTurning!After(coded, T, ZRec(seen), UpTo(n))[Len(UpTo(n))].v  BY <1>3, <1>8 DEF k, s
<1>10. Len(UpTo(n)) = n  BY UpToIs
<1>11. HandleZRLE(v, r) = ZDone(after, coded, T)  BY <1>7, <1>9, <1>10 DEF ZDone
<1> DEFINE e == Bumped(d, "zrle")
<1> HIDE DEF e
<1>12. ZReads(scr, pic, items, coded, T, r, a2, e)  BY ZRead
<1>13. ZDone(after, coded, T) = View(items, Overlay(pic, Points(r), scr), a2, e)  BY <1>12 DEF ZReads, after, e
<1> QED  BY <1>2, <1>11, <1>13 DEF v, e, ZHandles

\* A rectangle sent with ZRLE is shown.
LEMMA ZrleSent ==
  ASSUME NEW scr \in Pictures, NEW o, IsOut(o), NEW r, On(r)
  PROVE  Sends(scr, o, rfbSendRectEncodingZRLE(o, scr, r), r, 1)
<1> DEFINE T == Tiles(r, rfbZRLETileWidth, rfbZRLETileHeight)
           n == ((r.w - 1) \div rfbZRLETileWidth + 1) * ((r.h - 1) \div rfbZRLETileHeight + 1)
           s == "zrle"  done == Deflate(o, s)
           coded == [i \in DOMAIN T |-> EncodedTile(Crop(scr, T[i]), T[i])]
           body == Body(done, s, coded)  q == Packed(done, scr, r, "zrle", body)
<1>1. rfbSendRectEncodingZRLE(o, scr, r) = q  BY DEF rfbSendRectEncodingZRLE
<1>2. s \in Streams  BY DEF Streams
<1>3. o.deflated \in [Streams -> Nat]  BY DEF IsOut
<1>4. IsRect(r) /\ rfbZRLETileWidth \in Nat \ {0} /\ rfbZRLETileHeight \in Nat \ {0}  BY ZrleAssumption DEF On
<1>5. /\ n \in Nat \ {0} /\ Len(T) = n /\ DOMAIN T = 1 .. n
      /\ \A i \in 1 .. n : IsRect(T[i]) /\ Within(T[i], r)
      /\ Points(r) = UNION {Points(T[i]) : i \in 1 .. n}
  <2>1. Divides(r, rfbZRLETileWidth, rfbZRLETileHeight, T, n)  BY <1>4, TilesDivide
  <2> HIDE DEF T, n
  <2> QED  BY <2>1 DEF Divides
<1>14. Covered(r, T, n)  BY <1>5 DEF Covered
<1> HIDE DEF n
<1>6. IsCoded(scr, T, n, coded)
  <2> SUFFICES ASSUME NEW i \in 1 .. n
               PROVE  On(T[i]) /\ TileShows(coded[i], Area(T[i]), Flat(Crop(scr, T[i]), T[i]))  BY DEF IsCoded
  <2> DEFINE t == T[i]  data == Crop(scr, t)
  <2>1. coded[i] = EncodedTile(data, t)  BY <1>5
  <2>2. On(t)  BY <1>5, OnWithin
  <2> HIDE DEF T, coded, t
  <2>3. IsRect(t) /\ data \in [Zone(t.w, t.h) -> Colours]  BY <2>2, CropIs DEF On, Zone
  <2>4. DOMAIN data = Zone(t.w, t.h)  BY <2>3
  <2> HIDE DEF data
  <2>5. TileShows(EncodedTile(data, t), Area(t), Flat(data, t))  BY <2>3, <2>4, TileIs
  <2> QED  BY <2>1, <2>2, <2>5 DEF data, t
<1> HIDE DEF s, coded
<1>7. /\ IsOut(done) /\ done.headers = o.headers /\ done.items = o.items
      /\ done.deflated = Bumped(o.deflated, s)  BY <1>2, DeflateIs DEF Bumped
<1> HIDE DEF done
<1>8. body = <<"deflated", s, o.deflated[s] + 1, coded>>  BY <1>2, <1>3, <1>7 DEF Body, Bumped
<1> HIDE DEF body
<1>9. IsPacked(done, q, r, "zrle", body)  BY <1>7, PackedIs
<1> HIDE DEF q
<1>10. /\ IsOut(q) /\ q.headers = o.headers + 1 /\ q.deflated = Bumped(o.deflated, s)
       /\ Ends3(q.items, o.items, <<"rect", r, "zrle">>, <<"length">>, body)  BY <1>7, <1>9 DEF IsPacked
<1>11. ASSUME NEW items, NEW pic, NEW at, IsSeq(items), pic \in Seen,
              at \in 1 .. Len(items), items[at] = <<"length">>,
              at + 1 \in 1 .. Len(items), items[at + 1] = body
       PROVE  Handle(View(items, pic, at, o.deflated), r, "zrle")
                = View(items, Overlay(pic, Points(r), scr), at + 2, q.deflated)
  <2> DEFINE d == o.deflated
  <2>1. d \in [Streams -> Nat] /\ body = <<"deflated", "zrle", d["zrle"] + 1, coded>>  BY <1>3, <1>8 DEF s
  <2>2. T = Tiles(r, rfbZRLETileWidth, rfbZRLETileHeight)  OBVIOUS
  <2> HIDE DEF d, T
  <2>3. HandleZRLE(View(items, pic, at, d), r) = View(items, Overlay(pic, Points(r), scr), at + 2, Bumped(d, "zrle"))
    <3>1. n \in Nat /\ Len(T) = n  BY <1>5 DEF T
    <3>2. ZBody(body, d, coded) /\ IsCoded(scr, T, n, coded) /\ Covered(r, T, n)  BY <1>6, <1>14, <2>1 DEF T, ZBody
    <3>3. ZHandles(scr, items, pic, at, d, r)  BY <1>11, <2>1, <2>2, <3>1, <3>2, ZrleHandled
    <3> QED  BY <3>3 DEF ZHandles
  <2>4. Handle(View(items, pic, at, d), r, "zrle") = HandleZRLE(View(items, pic, at, d), r)  BY Handled
  <2> QED  BY <1>10, <2>3, <2>4 DEF d, s
<1>12. Serve(scr, o, q, Points(r))
  <2>1. Reads3(scr, o, q, r, "zrle", <<"length">>, body, Points(r))  BY <1>11 DEF Reads3
  <2> QED  BY <1>10, <2>1, ServeThree
<1>13. Sends(scr, o, q, r, 1)  BY <1>10, <1>12 DEF Sends
<1> QED  BY <1>1, <1>13

-----------------------------------------------------------------------------
(* Tight: a part of a rectangle. *)

LEMMA ServeTwo ==
  ASSUME NEW scr \in Pictures, NEW o, NEW q, IsOut(o), IsOut(q), q.headers = o.headers + 1,
         NEW r, NEW enc, enc # "last", NEW b, Ends2(q.items, o.items, <<"rect", r, enc>>, b), NEW D,
         Reads2(scr, o, q, r, enc, b, D)
  PROVE  Serve(scr, o, q, D)
<1> DEFINE one == <<"rect", r, enc>>
<1>1. Ends2(q.items, o.items, one, b)  OBVIOUS
<1>11. IsSeq(o.items)  BY DEF IsOut
<1>12. Extends(q.items, o.items) /\ Len(q.items) = Len(o.items) + 2
  <2> HIDE DEF one
  <2> QED  BY <1>1, <1>11, Follow2
<1>13. ASSUME NEW items, NEW pic, IsSeq(items), Extends(items, q.items), pic \in Seen
       PROVE  HandleRect(View(items, pic, Len(o.items) + 1, o.deflated))
                = View(items, Overlay(pic, D, scr), Len(q.items) + 1, q.deflated)
  <2>1. Follows2(items, o.items, one, b)
    <3> HIDE DEF one
    <3> QED  BY <1>1, <1>11, <1>13, Follow2
  <2> DEFINE L == Len(o.items)  d == o.deflated  at == L + 2
  <2>2. /\ L + 1 \in 1 .. Len(items) /\ items[L + 1] = one
        /\ L + 2 \in 1 .. Len(items) /\ items[L + 2] = b  BY <2>1 DEF Follows2, Follows1
  <2>3. L \in Nat  BY <1>11, Appended
  <2>4. L + 1 + 1 = L + 2 /\ at + 1 = Len(q.items) + 1  BY <1>12, <2>3
  <2> HIDE DEF L, d, one
  <2>5. HandleRect(View(items, pic, L + 1, d)) = Handle(View(items, pic, L + 1 + 1, d), r, enc)
    BY <1>13, <2>2, HeaderRead DEF one
  <2>6. at \in 1 .. Len(items) /\ items[at] = b /\ L + 1 + 1 = at  BY <2>2, <2>4
  <2> HIDE DEF at
  <2>7. Handle(View(items, pic, at, d), r, enc) = View(items, Overlay(pic, D, scr), at + 1, q.deflated)
    BY <1>13, <2>6 DEF d, Reads2
  <2> QED  BY <2>4, <2>5, <2>6, <2>7 DEF L, d
<1> QED  BY <1>12, <1>13, ServeOne

LEMMA TightHandled ==
  ASSUME NEW v, NEW r
  PROVE  HandleTight(v, r)
           = IF Next1(v)[1] # "tight" THEN Lost(v)
             ELSE IF Next1(v)[2] = "fill" THEN GotFillRect(Took(v), r, Next1(v)[3])
             ELSE IF TightSize(Next1(v), r) < TIGHT_MIN_TO_COMPRESS THEN Uncompressed(Took(v), r, TightSize(Next1(v), r))
             ELSE IF Next1(v)[4] = "NoZlib" THEN Uncompressed(Length(Took(v)), r, TightSize(Next1(v), r))
             ELSE Inflated(Length(Took(v)), r, TightStream(Next1(v)))
  BY DEF HandleTight, TightSize, TightBits, TightStream

LEMMA PlainIs ==
  ASSUME NEW scr \in Pictures, NEW items, NEW pic \in Seen, NEW at, NEW inf, IsSeq(items),
         at \in 1 .. Len(items), NEW len, NEW data, items[at] = <<"plain", len, data>>,
         NEW r, Cut(scr, r, data)
  PROVE  Uncompressed(View(items, pic, at, inf), r, len) = View(items, Overlay(pic, Points(r), scr), at + 1, inf)
<1> DEFINE v == View(items, pic, at, inf)  b == <<"plain", len, data>>  w == View(items, pic, at + 1, inf)
<1>1. Next1(v) = b  BY NextIs
<1>2. Took(v) = w  BY ViewIs
<1>3. b[1] = "plain" /\ b[2] = len /\ b[3] = data  OBVIOUS
<1> HIDE DEF v, b, w
<1>4. Uncompressed(v, r, len) = GotBitmap(w, r, data)  BY <1>1, <1>2, <1>3 DEF Uncompressed
<1> QED  BY <1>4, BitmapDrawn DEF v, w

LEMMA PortionIs ==
  ASSUME NEW o, IsOut(o), NEW n \in 0 .. UPDATE_BUF_SIZE
  PROVE  IsOut(Portion(o, n)) /\ Quiet(o, Portion(o, n))
<1> DEFINE p == Room(o, n)  m == p.ublen + n  y == Peak(p, m)
           a == [p EXCEPT !.ublen = m]  c == [a EXCEPT !.high = y]
<1>1. IsOut(p) /\ Quiet(o, p) /\ m <= UPDATE_BUF_SIZE  BY RoomIs
<1>2. Portion(o, n) = c  BY DEF Portion
<1> HIDE DEF p
<1>3. /\ p = Out(p.ublen, p.high, p.headers, p.items, p.deflated)
      /\ p.ublen \in 0 .. UPDATE_BUF_SIZE /\ p.high \in 4 .. UPDATE_BUF_SIZE
      /\ IsSeq(p.items) /\ p.deflated \in [Streams -> Nat]
      /\ p.headers \in Nat /\ p.headers <= Len(p.items)  BY <1>1 DEF IsOut
<1>4. m \in 0 .. UPDATE_BUF_SIZE /\ y \in 4 .. UPDATE_BUF_SIZE  BY <1>1, <1>3, Sizes DEF Peak
<1> HIDE DEF m, y
<1>5. a = Out(m, p.high, p.headers, p.items, p.deflated)  BY <1>3, OutFields
<1> HIDE DEF a
<1>6. c = Out(m, y, p.headers, p.items, p.deflated)  BY <1>5, OutFields
<1>7. IsOut(c)  BY <1>3, <1>4, <1>6, OutIs
<1> HIDE DEF c
<1> QED  BY <1>1, <1>2, <1>6, <1>7, OutFields DEF Quiet

\* A body of any length, in portions none of which is larger than the buffer.
LEMMA BodySent ==
  ASSUME NEW p, IsOut(p), NEW item, NEW n \in Nat \ {0}, p.ublen + 3 <= UPDATE_BUF_SIZE
  PROVE  LET q == rfbSendCompressedDataTight(p, item, n)
         IN  /\ IsOut(q) /\ q.headers = p.headers /\ q.deflated = p.deflated
             /\ q.items = Append(Append(p.items, <<"length">>), item)
<1> DEFINE k == IF n > 16383 THEN 3 ELSE IF n > 127 THEN 2 ELSE 1  a == Put(p, <<"length">>, k)
           T == Portions(n)  L == (n - 1) \div UPDATE_BUF_SIZE + 1  f == Portioning!After(0, 0, a, T)
           e == f[L]  t == Append(e.items, item)  q == [e EXCEPT !.items = t]
<1>1. IsOut(a) /\ Adds(p, a, <<"length">>)
  <2>1. k \in Nat /\ p.ublen + k <= UPDATE_BUF_SIZE  BY Sizes DEF IsOut
  <2> HIDE DEF k
  <2> QED  BY <2>1, PutIs
<1>2. IsQuot((n - 1) \div UPDATE_BUF_SIZE, n - 1, UPDATE_BUF_SIZE)  BY Sizes, QuotIs
<1>3. L \in Nat /\ Len(T) = L /\ \A i \in 1 .. L : T[i] = Lesser(UPDATE_BUF_SIZE, n - (i - 1) * UPDATE_BUF_SIZE)
  <2>1. 0 <= (n - 1) \div UPDATE_BUF_SIZE
    <3>1. 0 * UPDATE_BUF_SIZE <= n - 1  BY Sizes
    <3> QED  BY <1>2, <3>1 DEF IsQuot
  <2>2. L \in Nat  BY <1>2, <2>1 DEF IsQuot
  <2>3. T = [i \in 1 .. L |-> Lesser(UPDATE_BUF_SIZE, n - (i - 1) * UPDATE_BUF_SIZE)]  BY DEF Portions
  <2> HIDE DEF L, T
  <2> QED  BY <2>2, <2>3
<1>4. ASSUME NEW i \in 1 .. L PROVE T[i] \in 0 .. UPDATE_BUF_SIZE
  <2> DEFINE x == (i - 1) * UPDATE_BUF_SIZE
  <2>1. i - 1 \in Int /\ i - 1 <= (n - 1) \div UPDATE_BUF_SIZE  BY <1>2, <1>3 DEF IsQuot
  <2>2. x <= n - 1 /\ x \in Int  BY <1>2, <2>1, Sizes DEF IsQuot
  <2>3. T[i] = Lesser(UPDATE_BUF_SIZE, n - x)  BY <1>3
  <2> HIDE DEF x, T
  <2> QED  BY <2>2, <2>3, Sizes DEF Lesser
<1>5. rfbSendCompressedDataTight(p, item, n) = q
  <2>1. rfbSendCompressedDataTight(p, item, n) = [f[Len(T)] EXCEPT !.items = Append(f[Len(T)].items, item)]
    BY DEF rfbSendCompressedDataTight, InTurn, Portioning!After, PortionStep
  <2> HIDE DEF f, T, L
  <2> QED  BY <1>3, <2>1
<1> HIDE DEF a, L, T
<1>6. f[0] = a /\ \A i \in 1 .. L : f[i] = Portion(f[i - 1], T[i])
  BY <1>3, Portioning!AfterExists, Reached DEF Portioning!Upward, PortionStep
<1> HIDE DEF f
<1>7. IsOut(e) /\ Quiet(a, e)
  <2> DEFINE Q == {i \in 0 .. L : IsOut(f[i]) /\ Quiet(a, f[i])}
  <2>1. 0 \in Q  BY <1>1, <1>3, <1>6 DEF Quiet
  <2>2. ASSUME NEW i \in 0 .. L - 1, i \in Q PROVE i + 1 \in Q
    <3>1. i + 1 \in 1 .. L /\ i + 1 \in 0 .. L /\ (i + 1) - 1 = i  BY <1>3
    <3>2. f[i + 1] = Portion(f[i], T[i + 1]) /\ T[i + 1] \in 0 .. UPDATE_BUF_SIZE  BY <1>4, <1>6, <3>1
    <3>3. IsOut(f[i + 1]) /\ Quiet(f[i], f[i + 1])  BY <2>2, <3>2, PortionIs
    <3> QED  BY <2>2, <3>1, <3>3 DEF Quiet
  <2>3. \A i \in 0 .. L : i \in Q
    <3> HIDE DEF Q
    <3> QED  BY <1>3, <2>1, <2>2, Reached
  <2> QED  BY <1>3, <2>3
<1> HIDE DEF e
<1>8. IsSeq(e.items) /\ Len(e.items) \in Nat /\ IsSeq(t) /\ Len(t) = Len(e.items) + 1  BY <1>7, Appended DEF IsOut
<1>9. q = Out(e.ublen, e.high, e.headers, t, e.deflated)
  <2>1. e = Out(e.ublen, e.high, e.headers, e.items, e.deflated)  BY <1>7 DEF IsOut
  <2> HIDE DEF t
  <2> QED  BY <2>1, OutFields
<1>10. e.headers <= Len(t)  BY <1>7, <1>8 DEF IsOut
<1> HIDE DEF q, t
<1>11. IsOut(q)
  <2>1. /\ e.ublen \in 0 .. UPDATE_BUF_SIZE /\ e.high \in 4 .. UPDATE_BUF_SIZE
        /\ e.deflated \in [Streams -> Nat] /\ e.headers \in Nat  BY <1>7 DEF IsOut
  <2> QED  BY <1>8, <1>9, <1>10, <2>1, OutIs
<1>12. q.headers = e.headers /\ q.items = t /\ q.deflated = e.deflated  BY <1>9, OutFields
<1> QED  BY <1>1, <1>5, <1>7, <1>11, <1>12 DEF Adds, Quiet, t

\* What is short has no length, and is not compressed; nor is the rest with level 0.
LEMMA CompressIs ==
  ASSUME NEW p, IsOut(p), NEW s \in Streams, NEW data, NEW len \in Nat,
         len < TIGHT_MIN_TO_COMPRESS => p.ublen + len <= UPDATE_BUF_SIZE, p.ublen + 3 <= UPDATE_BUF_SIZE
  PROVE  Compressed(p, CompressData(p, s, data, len), s, data, len)
<1> DEFINE q == CompressData(p, s, data, len)  item == <<"plain", len, data>>
<1>1. CASE len < TIGHT_MIN_TO_COMPRESS
  <2>1. q = Put(p, item, len)  BY <1>1 DEF CompressData
  <2> HIDE DEF item, q
  <2>2. IsOut(q) /\ Adds(p, q, item)  BY <1>1, <2>1, PutIs
  <2> QED  BY <1>1, <2>2 DEF Compressed, Adds, item, q
<1>2. CASE ~(len < TIGHT_MIN_TO_COMPRESS) /\ ZlibLevel[s] = 0
  <2>1. q = rfbSendCompressedDataTight(p, item, len)  BY <1>2 DEF CompressData
  <2>2. len \in Nat \ {0}  BY <1>2 DEF TIGHT_MIN_TO_COMPRESS
  <2> HIDE DEF item, q
  <2> QED  BY <1>2, <2>1, <2>2, BodySent DEF Compressed, Lengthy, item, q
<1>3. CASE ~(len < TIGHT_MIN_TO_COMPRESS) /\ ZlibLevel[s] # 0
  <2> DEFINE done == Deflate(p, s)  body == Body(done, s, data)
  <2>1. q = rfbSendCompressedDataTight(done, body, BodyLen(p))  BY <1>3 DEF CompressData
  <2>2. p.deflated \in [Streams -> Nat]  BY DEF IsOut
  <2>3. /\ IsOut(done) /\ done.headers = p.headers /\ done.items = p.items /\ done.ublen = p.ublen
        /\ done.deflated = Bumped(p.deflated, s)  BY DeflateIs DEF Bumped
  <2> HIDE DEF done
  <2>4. body = <<"deflated", s, p.deflated[s] + 1, data>>  BY <2>2, <2>3 DEF Body, Bumped
  <2> HIDE DEF body, q, item
  <2>5. IsOut(q) /\ q.headers = done.headers /\ q.deflated = done.deflated /\ q.items = Append(Append(done.items, <<"length">>), body)
    <3>1. done.ublen + 3 <= UPDATE_BUF_SIZE /\ BodyLen(p) \in Nat \ {0}  BY <2>3, BodyLenIs
    <3> QED  BY <2>1, <2>3, <3>1, BodySent
  <2> QED  BY <1>3, <2>3, <2>4, <2>5 DEF Compressed, Lengthy, q
<1> QED  BY <1>1, <1>2, <1>3

LEMMA TightPlain ==
  ASSUME NEW scr \in Pictures, NEW o, NEW q, NEW r, NEW c, NEW s, NEW len, NEW data, TightForm(c, r, s, len),
         Cut(scr, r, data), len < TIGHT_MIN_TO_COMPRESS, q.deflated = o.deflated
  PROVE  Reads3(scr, o, q, r, "tight", c, <<"plain", len, data>>, Points(r))
<1> DEFINE item == <<"plain", len, data>>
<1> HIDE DEF item
<1>2. ASSUME NEW items, NEW pic, NEW at, IsSeq(items), pic \in Seen,
             at \in 1 .. Len(items), items[at] = c,
             at + 1 \in 1 .. Len(items), items[at + 1] = item
      PROVE  Handle(View(items, pic, at, o.deflated), r, "tight")
               = View(items, Overlay(pic, Points(r), scr), at + 2, q.deflated)
  <2> DEFINE d == o.deflated  v == View(items, pic, at, d)  a == at + 1  u == View(items, pic, a, d)  a2 == a + 1
  <2>1. a \in 1 .. Len(items) /\ items[a] = item /\ a2 = at + 2  BY <1>2
  <2>2. Took(v) = u  BY ViewIs
  <2>3. Next1(v) = c  BY <1>2, NextIs
  <2> HIDE DEF a, v, d
  <2>4. Uncompressed(u, r, len) = View(items, Overlay(pic, Points(r), scr), a2, d)  BY <1>2, <2>1, PlainIs DEF item
  <2> HIDE DEF u, a2
  <2>5. HandleTight(v, r) = Uncompressed(u, r, len)  BY <2>2, <2>3, TightHandled DEF TightForm
  <2>6. Handle(v, r, "tight") = HandleTight(v, r)  BY Handled
  <2> QED  BY <2>1, <2>4, <2>5, <2>6 DEF v, d
<1> QED  BY <1>2 DEF Reads3, item

LEMMA TightLong ==
  ASSUME NEW scr \in Pictures, NEW o, NEW q, NEW r, NEW c, NEW s \in Streams, NEW len, NEW data, TightForm(c, r, s, len),
         Cut(scr, r, data), ~(len < TIGHT_MIN_TO_COMPRESS),
         o.deflated \in [Streams -> Nat], NEW item, Lengthy(o, q, s, data, len, item)
  PROVE  Reads4(scr, o, q, r, "tight", c, <<"length">>, item, Points(r))
<1>2. ASSUME NEW items, NEW pic, NEW at, IsSeq(items), pic \in Seen,
             at \in 1 .. Len(items), items[at] = c,
             at + 1 \in 1 .. Len(items), items[at + 1] = <<"length">>,
             at + 2 \in 1 .. Len(items), items[at + 2] = item
      PROVE  Handle(View(items, pic, at, o.deflated), r, "tight")
               = View(items, Overlay(pic, Points(r), scr), at + 3, q.deflated)
  <2> DEFINE d == o.deflated  v == View(items, pic, at, d)  a == at + 1  u == View(items, pic, a, d)  a2 == a + 1
             w == View(items, pic, a2, d)  z == View(items, Overlay(pic, Points(r), scr), a2 + 1, q.deflated)
  <2>1. a \in 1 .. Len(items) /\ items[a] = <<"length">> /\ a2 = at + 2 /\ a2 + 1 = at + 3  BY <1>2
  <2>2. Took(v) = u  BY ViewIs
  <2>3. Next1(v) = c  BY <1>2, NextIs
  <2>5. a2 \in 1 .. Len(items) /\ items[a2] = item /\ d \in [Streams -> Nat]  BY <1>2, <2>1
  <2> HIDE DEF a, v, d
  <2>4. Length(u) = w  BY <1>2, <2>1, LengthIs
  <2> HIDE DEF u, a2
  <2>6. ASSUME ZlibLevel[s] # 0 PROVE HandleTight(v, r) = z
    <3>1. items[a2] = <<"deflated", s, d[s] + 1, data>> /\ q.deflated = Bumped(d, s)  BY <2>5, <2>6 DEF Lengthy, d
    <3>2. Inflated(w, r, s) = z  BY <1>2, <2>5, <3>1, InflatedIs
    <3> HIDE DEF w, z
    <3> QED  BY <2>2, <2>3, <2>4, <2>6, <3>2, TightHandled DEF TightForm, Method
  <2>7. ASSUME ZlibLevel[s] = 0 PROVE HandleTight(v, r) = z
    <3>1. items[a2] = <<"plain", len, data>> /\ q.deflated = d  BY <2>5, <2>7 DEF Lengthy, d
    <3>2. Uncompressed(w, r, len) = z
      <4> DEFINE x == q.deflated
      <4>1. x = d  BY <3>1
      <4> HIDE DEF x
      <4> DEFINE y == View(items, Overlay(pic, Points(r), scr), a2 + 1, d)
      <4>2. Uncompressed(w, r, len) = y  BY <1>2, <2>5, <3>1, PlainIs
      <4> QED  BY <4>1, <4>2 DEF x
    <3> HIDE DEF w, z
    <3> QED  BY <2>2, <2>3, <2>4, <2>7, <3>2, TightHandled DEF TightForm, Method
  <2>8. Handle(v, r, "tight") = HandleTight(v, r)  BY Handled
  <2> QED  BY <2>1, <2>6, <2>7, <2>8 DEF v, d, z
<1> QED  BY <1>2 DEF Reads4

\* h holds the header, p the form of the part as well, and q its data.
LEMMA TightDataSent ==
  ASSUME NEW scr \in Pictures, NEW o, IsOut(o), NEW h, NEW p, NEW q, NEW r, NEW c, NEW s \in Streams, NEW len \in Nat, NEW data,
         TightForm(c, r, s, len), Cut(scr, r, data),
         h.headers = o.headers + 1, h.items = Append(o.items, <<"rect", r, "tight">>), h.deflated = o.deflated,
         Adds(h, p, c), Compressed(p, q, s, data, len)
  PROVE  Sends(scr, o, q, r, 1)
<1>1. p.headers = o.headers + 1 /\ p.deflated = o.deflated /\ p.items = Append(Append(o.items, <<"rect", r, "tight">>), c)
  BY DEF Adds
<1>2. o.deflated \in [Streams -> Nat]  BY DEF IsOut
<1>3. IsOut(q) /\ q.headers = o.headers + 1  BY <1>1 DEF Compressed
<1>4. Serve(scr, o, q, Points(r))
  <2>1. CASE len < TIGHT_MIN_TO_COMPRESS
    <3> DEFINE item == <<"plain", len, data>>
    <3>1. q.deflated = o.deflated /\ Ends3(q.items, o.items, <<"rect", r, "tight">>, c, item)
      BY <1>1, <2>1 DEF Compressed, Ends3
    <3>2. Reads3(scr, o, q, r, "tight", c, item, Points(r))  BY <2>1, <3>1, TightPlain
    <3> HIDE DEF item
    <3> QED  BY <1>3, <3>1, <3>2, ServeThree
  <2>2. CASE ~(len < TIGHT_MIN_TO_COMPRESS)
    <3>1. PICK item : Lengthy(o, q, s, data, len, item) /\ Ends4(q.items, o.items, <<"rect", r, "tight">>, c, <<"length">>, item)
      BY <1>1, <2>2 DEF Compressed, Lengthy, Ends4
    <3>2. Reads4(scr, o, q, r, "tight", c, <<"length">>, item, Points(r))  BY <1>2, <2>2, <3>1, TightLong
    <3> QED  BY <1>3, <3>1, <3>2, ServeFour
  <2> QED  BY <2>1, <2>2
<1> QED  BY <1>3, <1>4 DEF Sends

\* The forms that the encoder chooses, as the decoder takes them.
LEMMA FormsAre ==
  ASSUME NEW r, IsRect(r)
  PROVE  /\ TightForm(<<"tight", "copy", 0, Method("full")>>, r, "full", Area(r) * PIXEL24)
         /\ TightForm(<<"tight", "palette", 2, Method("mono")>>, r, "mono", ((r.w + 7) \div 8) * r.h)
         /\ \A n \in Int : n # 2 => TightForm(<<"tight", "palette", n, Method("indexed")>>, r, "indexed", Area(r))
         /\ Area(r) * PIXEL24 \in Nat /\ ((r.w + 7) \div 8) * r.h \in Nat /\ Area(r) \in Nat
<1> DEFINE w == r.w  h == r.h
<1>1. w \in Nat \ {0} /\ h \in Nat \ {0} /\ Area(r) = w * h  BY DEF IsRect, Area
<1> HIDE DEF w, h
<1>2. (w * 24 + 7) \div 8 = w * 3 /\ (w * 1 + 7) \div 8 = (w + 7) \div 8 /\ (w * 8 + 7) \div 8 = w /\ (w + 7) \div 8 \in Nat
  <2>1. w * 24 + 7 = (8 * (w * 3)) + 7 /\ w * 8 + 7 = (8 * w) + 7 /\ 7 \in 0 .. 8 - 1 /\ w * 3 \in Int /\ w \in Int /\ 8 \in Nat \ {0}
    BY <1>1
  <2>2. ((8 * (w * 3)) + 7) \div 8 = w * 3  BY <1>1
  <2>3. ((8 * w) + 7) \div 8 = w  BY <1>1
  <2>4. w * 1 = w /\ (w + 7) \div 8 \in Nat  BY <1>1
  <2> QED  BY <2>1, <2>2, <2>3, <2>4
<1>3. h * (w * 3) = (w * h) * 3 /\ h * w = w * h /\ w * h \in Nat /\ (w * h) * 3 \in Nat
  <2> DEFINE a == w * h
  <2>1. a \in Nat /\ a = h * w  BY <1>1
  <2>2. h * (w * 3) = (h * w) * 3  BY <1>1
  <2> HIDE DEF a
  <2>3. h * (w * 3) = a * 3 /\ a * 3 \in Nat  BY <2>1, <2>2
  <2> QED  BY <2>1, <2>3 DEF a
<1>4. TightForm(<<"tight", "copy", 0, Method("full")>>, r, "full", Area(r) * PIXEL24)
  <2> DEFINE c == <<"tight", "copy", 0, Method("full")>>
  <2>1. c[1] = "tight" /\ c[2] = "copy" /\ c[4] = Method("full")  OBVIOUS
  <2> HIDE DEF c
  <2>2. TightBits(c) = 24 /\ TightStream(c) = "full"  BY <2>1 DEF TightBits, TightStream, PIXEL24
  <2>3. TightSize(c, r) = h * ((w * 24 + 7) \div 8)  BY <2>2 DEF TightSize, w, h
  <2>4. TightSize(c, r) = Area(r) * PIXEL24  BY <1>1, <1>2, <1>3, <2>3 DEF PIXEL24
  <2>5. TightForm(c, r, "full", Area(r) * PIXEL24)  BY <2>1, <2>2, <2>4 DEF TightForm
  <2> QED  BY <2>5 DEF c
<1>5. TightForm(<<"tight", "palette", 2, Method("mono")>>, r, "mono", ((r.w + 7) \div 8) * r.h)
  <2> DEFINE c == <<"tight", "palette", 2, Method("mono")>>  y == (w + 7) \div 8
  <2>1. c[1] = "tight" /\ c[2] = "palette" /\ c[3] = 2 /\ c[4] = Method("mono")  OBVIOUS
  <2> HIDE DEF c
  <2>2. TightBits(c) = 1 /\ TightStream(c) = "mono"  BY <2>1 DEF TightBits, TightStream
  <2>3. TightSize(c, r) = h * y  BY <1>2, <2>2 DEF TightSize, w, h
  <2>6. h * y = y * h
    <3>1. y \in Nat  BY <1>2
    <3> HIDE DEF y
    <3> QED  BY <1>1, <3>1
  <2>4. TightSize(c, r) = ((r.w + 7) \div 8) * r.h  BY <2>3, <2>6 DEF w, h
  <2>5. TightForm(c, r, "mono", ((r.w + 7) \div 8) * r.h)  BY <2>1, <2>2, <2>4 DEF TightForm
  <2> QED  BY <2>5 DEF c
<1>6. ASSUME NEW n \in Int, n # 2 PROVE TightForm(<<"tight", "palette", n, Method("indexed")>>, r, "indexed", Area(r))
  <2> DEFINE c == <<"tight", "palette", n, Method("indexed")>>
  <2>1. c[1] = "tight" /\ c[2] = "palette" /\ c[3] = n /\ c[4] = Method("indexed")  OBVIOUS
  <2> HIDE DEF c
  <2>2. TightBits(c) = 8 /\ TightStream(c) = "indexed"  BY <1>6, <2>1 DEF TightBits, TightStream
  <2>3. TightSize(c, r) = h * ((w * 8 + 7) \div 8)  BY <2>2 DEF TightSize, w, h
  <2>4. TightSize(c, r) = Area(r)  BY <1>1, <1>2, <1>3, <2>3
  <2>5. TightForm(c, r, "indexed", Area(r))  BY <2>1, <2>2, <2>4 DEF TightForm
  <2> QED  BY <2>5 DEF c
<1>7. ((r.w + 7) \div 8) * r.h \in Nat
  <2> DEFINE y == (w + 7) \div 8
  <2>1. y \in Nat  BY <1>2
  <2> HIDE DEF y
  <2>2. y * h \in Nat  BY <1>1, <2>1
  <2> QED  BY <2>2 DEF y, w, h
<1>8. Area(r) * PIXEL24 \in Nat /\ Area(r) \in Nat  BY <1>1, <1>3 DEF PIXEL24
<1> QED  BY <1>4, <1>5, <1>6, <1>7, <1>8

\* FastFillPalette finds one colour, a palette or too many.
LEMMA PaletteNumIs ==
  ASSUME NEW r, IsRect(r), Area(r) <= MaxRectSize, NEW data, DOMAIN data = Zone(r.w, r.h)
  PROVE  PaletteFits(PaletteNumColors(data, r), ColoursOf(data))
<1> DEFINE C == ColoursOf(data)  k == Cardinality(C)  asked == Area(r) \div ColorsDivisor
           max == IF asked < 2 /\ Area(r) >= MonoMinRect THEN 2 ELSE Lesser(asked, 256)
           n == PaletteNumColors(data, r)
<1>1. n = IF k = 1 \/ k <= max THEN k ELSE 0  BY DEF PaletteNumColors, ColoursOf
<1>2. IsFiniteSet(C) /\ k \in Nat  BY ColoursFinite
<1>3. k # 0
  <2>1. <<0, 0>> \in Zone(r.w, r.h)  BY DEF IsRect, Zone, Points, Rect
  <2>2. C # {}  BY <2>1 DEF ColoursOf
  <2> HIDE DEF C
  <2> QED  BY <1>2, <2>2, FS_EmptySet
<1>4. ASSUME n > 2 PROVE 18 + n * 4 <= UPDATE_BUF_SIZE
  <2>1. n = k /\ k <= max /\ k > 2  BY <1>1, <1>2, <1>4
  <2>2. Area(r) \in Nat /\ ColorsDivisor \in Nat \ {0} /\ MaxRectSize \in Nat  BY FlatIs, Sizes
  <2>3. IsQuot(asked, Area(r), ColorsDivisor) /\ IsQuot(MaxRectSize \div ColorsDivisor, MaxRectSize, ColorsDivisor)
    <3> DEFINE u == Area(r)
    <3>1. u \in Int /\ MaxRectSize \in Int  BY <2>2
    <3> HIDE DEF u
    <3>2. IsQuot(u \div ColorsDivisor, u, ColorsDivisor)  BY <2>2, <3>1, QuotIs
    <3>3. IsQuot(MaxRectSize \div ColorsDivisor, MaxRectSize, ColorsDivisor)  BY <2>2, <3>1, QuotIs
    <3> QED  BY <3>2, <3>3 DEF u
  <2> DEFINE b == MaxRectSize \div ColorsDivisor
  <2>4. asked <= b
    <3>1. asked * ColorsDivisor <= Area(r)  BY <2>3 DEF IsQuot
    <3>2. asked * ColorsDivisor \in Int
      <4> HIDE DEF asked
      <4> QED  BY <2>2, <2>3 DEF IsQuot
    <3>3. asked * ColorsDivisor <= MaxRectSize
      <4> DEFINE y == asked * ColorsDivisor
      <4> HIDE DEF y
      <4>1. y <= MaxRectSize  BY <2>2, <3>1, <3>2 DEF y
      <4> QED  BY <4>1 DEF y
    <3> HIDE DEF asked, b
    <3> QED  BY <2>3, <3>3 DEF IsQuot, b
  <2>5. asked \in Int /\ b \in Int  BY <2>3 DEF IsQuot
  <2> HIDE DEF asked, b
  <2>6. max <= asked /\ max <= 256
    <3>1. max # 2  BY <1>2, <2>1
    <3>2. max = Lesser(asked, 256)  BY <3>1
    <3> HIDE DEF max
    <3> QED  BY <2>5, <3>2 DEF Lesser
  <2>7. max \in Int  BY <2>5 DEF Lesser
  <2> HIDE DEF max, k, n
  <2>8. n \in 2 .. 256 /\ n <= b  BY <1>2, <2>1, <2>4, <2>5, <2>6, <2>7
  <2> QED  BY <2>8, EncodingAssumption DEF b
<1> HIDE DEF n, k, max
<1> QED  BY <1>1, <1>2, <1>3, <1>4 DEF PaletteFits, n, k

LEMMA OneColoured ==
  ASSUME NEW S, IsFiniteSet(S), Cardinality(S) = 1, NEW a \in S, NEW b \in S
  PROVE  a = b
<1>1. S # {}  OBVIOUS
<1>2. IsFiniteSet(S \ {a}) /\ Cardinality(S \ {a}) = Cardinality(S) - 1  BY FS_RemoveElement
<1>3. Cardinality(S \ {a}) = 0  BY <1>2
<1>4. S \ {a} = {}  BY <1>2, <1>3, FS_EmptySet
<1> QED  BY <1>4

LEMMA TightHeaderIs ==
  ASSUME NEW o, IsOut(o), NEW r
  PROVE  LET h == rfbSendTightHeader(o, r)
         IN  /\ IsOut(h) /\ h.headers = o.headers + 1 /\ h.items = Append(o.items, <<"rect", r, "tight">>)
             /\ h.deflated = o.deflated
<1> DEFINE room == Room(o, 12)  h == Header(room, r, "tight")
<1>1. rfbSendTightHeader(o, r) = h  BY DEF rfbSendTightHeader, sz_rfbFramebufferUpdateRectHeader
<1>2. IsOut(room) /\ Quiet(o, room) /\ room.ublen + 12 <= UPDATE_BUF_SIZE  BY Sizes, RoomIs
<1> HIDE DEF room
<1>3. IsOut(h) /\ h.headers = room.headers + 1 /\ h.items = Append(room.items, <<"rect", r, "tight">>) /\ h.deflated = room.deflated
  BY <1>2, HeaderIs
<1> QED  BY <1>1, <1>2, <1>3 DEF Quiet

\* An area of one colour.
LEMMA SolidSent ==
  ASSUME NEW scr \in Pictures, NEW o, IsOut(o), NEW r, NEW c, \A p \in Points(r) : scr[p] = c
  PROVE  Sends(scr, o, SendSolidRect(rfbSendTightHeader(o, r), c), r, 1)
<1> DEFINE h == rfbSendTightHeader(o, r)  room == Room(h, 4)  item == <<"tight", "fill", c>>  q == Put(room, item, 4)
<1>1. SendSolidRect(h, c) = q  BY DEF SendSolidRect, PIXEL24
<1>2. IsOut(h) /\ h.headers = o.headers + 1 /\ h.items = Append(o.items, <<"rect", r, "tight">>) /\ h.deflated = o.deflated
  BY TightHeaderIs
<1>6. item[1] = "tight" /\ item[2] = "fill" /\ item[3] = c  OBVIOUS
<1> HIDE DEF h, item
<1>3. IsOut(room) /\ Quiet(h, room) /\ room.ublen + 4 <= UPDATE_BUF_SIZE  BY <1>2, Sizes, RoomIs
<1> HIDE DEF room
<1>4. IsOut(q) /\ Adds(room, q, item)  BY <1>3, PutIs
<1> HIDE DEF q
<1>5. q.headers = o.headers + 1 /\ q.deflated = o.deflated /\ Ends2(q.items, o.items, <<"rect", r, "tight">>, item)
  BY <1>2, <1>3, <1>4 DEF Quiet, Adds, Ends2
<1>7. ASSUME NEW items, NEW pic, NEW at, IsSeq(items), pic \in Seen, at \in 1 .. Len(items), items[at] = item
      PROVE  Handle(View(items, pic, at, o.deflated), r, "tight") = View(items, Overlay(pic, Points(r), scr), at + 1, q.deflated)
  <2> DEFINE d == o.deflated  v == View(items, pic, at, d)  a == at + 1  w == View(items, pic, a, d)
  <2>1. Took(v) = w  BY ViewIs
  <2>2. Next1(v) = item  BY <1>7, NextIs
  <2> HIDE DEF v, d, a
  <2>3. DOMAIN pic = Screen  BY <1>7 DEF Seen
  <2>4. GotFillRect(View(items, pic, a, d), r, c) = View(items, Filled(pic, r, c), a, d)  BY <2>3, FillDrawn
  <2>5. Filled(pic, r, c) = Overlay(pic, Points(r), scr)  BY <1>7, FillOne
  <2> HIDE DEF w
  <2>6. HandleTight(v, r) = GotFillRect(w, r, c)  BY <1>6, <2>1, <2>2, TightHandled
  <2>7. Handle(v, r, "tight") = HandleTight(v, r)  BY Handled
  <2> QED  BY <1>5, <2>4, <2>5, <2>6, <2>7 DEF v, d, a, w
<1>8. Serve(scr, o, q, Points(r))
  <2>1. Reads2(scr, o, q, r, "tight", item, Points(r))  BY <1>7 DEF Reads2
  <2> QED  BY <1>4, <1>5, <2>1, ServeTwo
<1> QED  BY <1>1, <1>5, <1>8 DEF Sends, h

LEMMA FormPut ==
  ASSUME NEW o, NEW h, IsOut(h), NEW c, NEW k \in Nat, NEW n \in Nat, NEW m \in 0 .. UPDATE_BUF_SIZE, k + n <= m
  PROVE  TightPut(o, h, Put(Room(h, m), c, k), c, n)
<1> DEFINE room == Room(h, m)  p == Put(room, c, k)
<1>1. IsOut(room) /\ Quiet(h, room) /\ room.ublen + m <= UPDATE_BUF_SIZE  BY RoomIs
<1>2. room.ublen \in Nat /\ UPDATE_BUF_SIZE \in Nat  BY <1>1, Sizes DEF IsOut
<1> HIDE DEF room
<1>3. IsOut(p) /\ Adds(room, p, c) /\ p.ublen = room.ublen + k
  <2>1. room.ublen + k <= UPDATE_BUF_SIZE  BY <1>1, <1>2
  <2> QED  BY <1>1, <2>1, PutIs
<1> HIDE DEF p
<1>4. p.ublen + n <= UPDATE_BUF_SIZE  BY <1>1, <1>2, <1>3
<1>5. Adds(h, p, c)  BY <1>1, <1>3 DEF Adds, Quiet
<1> QED  BY <1>3, <1>4, <1>5 DEF TightPut, p, room

\* A part of a rectangle in any of the four forms is shown.
LEMMA TightFormSent ==
  ASSUME NEW scr \in Pictures, NEW o, IsOut(o), NEW r, On(r), NEW h, h = rfbSendTightHeader(o, r), NEW c, NEW k \in Nat,
         NEW m \in 0 .. UPDATE_BUF_SIZE, k + 11 <= m, NEW s \in Streams, NEW len \in Nat, TightForm(c, r, s, len),
         NEW data, data = Crop(scr, r)
  PROVE  Sends(scr, o, CompressData(Put(Room(h, m), c, k), s, data, len), r, 1)
<1> DEFINE p == Put(Room(h, m), c, k)  q == CompressData(p, s, data, len)  n == 11
<1>1. IsOut(h) /\ h.headers = o.headers + 1 /\ h.items = Append(o.items, <<"rect", r, "tight">>) /\ h.deflated = o.deflated
  BY TightHeaderIs
<1>2. n \in Nat /\ k + n <= m  OBVIOUS
<1> HIDE DEF n
<1>3. TightPut(o, h, p, c, n)  BY <1>1, <1>2, FormPut
<1> HIDE DEF p
<1>4. IsOut(p) /\ Adds(h, p, c) /\ p.ublen + 11 <= UPDATE_BUF_SIZE  BY <1>3 DEF TightPut, n
<1>5. p.ublen \in Nat /\ UPDATE_BUF_SIZE \in Nat  BY <1>4, Sizes DEF IsOut
<1>6. Compressed(p, q, s, data, len)
  <2>1. (len < TIGHT_MIN_TO_COMPRESS => p.ublen + len <= UPDATE_BUF_SIZE) /\ p.ublen + 3 <= UPDATE_BUF_SIZE
    BY <1>4, <1>5 DEF TIGHT_MIN_TO_COMPRESS
  <2> QED  BY <1>4, <2>1, CompressIs
<1> HIDE DEF q
<1>7. Cut(scr, r, data)  BY CropIs
<1>8. Sends(scr, o, q, r, 1)  BY <1>1, <1>4, <1>6, <1>7, TightDataSent
<1> QED  BY <1>8 DEF p, q

\* Hence SendSubrect, whatever the content.
LEMMA SubrectSent ==
  ASSUME NEW scr \in Pictures, NEW o, IsOut(o), NEW r, On(r), Area(r) <= MaxRectSize
  PROVE  Sends(scr, o, SendSubrect(o, scr, r), r, 1)
<1> DEFINE f == IF o.ublen > 128 THEN rfbSendUpdateBuf(o) ELSE o  data == Crop(scr, r)
           n == PaletteNumColors(data, r)  h == rfbSendTightHeader(f, r)  q == SendSubrect(o, scr, r)
<1>1. IsOut(f) /\ Quiet(o, f)  BY FlushIs DEF Quiet
<1>2. q = IF n = 0 THEN SendFullColorRect(h, data, r) ELSE IF n = 1 THEN SendSolidRect(h, data[<<0, 0>>])
          ELSE IF n = 2 THEN SendMonoRect(h, data, r) ELSE SendIndexedRect(h, data, r, n)  BY DEF SendSubrect
<1> HIDE DEF f, q
<1>3. IsRect(r) /\ data \in [Zone(r.w, r.h) -> Colours]  BY CropIs DEF On, Zone
<1>4. DOMAIN data = Zone(r.w, r.h)  BY <1>3
<1>5. data = Crop(scr, r) /\ Cut(scr, r, data)  BY CropIs
<1> HIDE DEF data
<1>6. PaletteFits(n, ColoursOf(data))  BY <1>3, <1>4, PaletteNumIs
<1> HIDE DEF n
<1>7. n \in Nat  BY <1>6 DEF PaletteFits
<1>8. UPDATE_BUF_SIZE \in Nat /\ 26 <= UPDATE_BUF_SIZE /\ "full" \in Streams /\ "mono" \in Streams /\ "indexed" \in Streams
  BY Sizes DEF Streams
<1>9. h = rfbSendTightHeader(f, r)  OBVIOUS
<1> HIDE DEF h
<1>10. ASSUME n = 0 PROVE Sends(scr, f, q, r, 1)
  <2> DEFINE c == <<"tight", "copy", 0, Method("full")>>  s == "full"  len == Area(r) * PIXEL24  k == 1  m == 13
  <2>1. TightForm(c, r, s, len) /\ len \in Nat  BY <1>3, FormsAre
  <2>2. k \in Nat /\ m \in 0 .. UPDATE_BUF_SIZE /\ k + 11 <= m  BY <1>8
  <2>3. q = CompressData(Put(Room(h, m), c, k), s, data, len)
    BY <1>2, <1>10 DEF SendFullColorRect, TIGHT_MIN_TO_COMPRESS
  <2>4. s \in Streams  BY <1>8
  <2> HIDE DEF c, s, len, k, m
  <2> QED  BY <1>1, <1>5, <1>9, <2>1, <2>2, <2>3, <2>4, TightFormSent
<1>11. ASSUME n = 1 PROVE Sends(scr, f, q, r, 1)
  <2> DEFINE c == data[<<0, 0>>]
  <2>1. IsFiniteSet(ColoursOf(data)) /\ Cardinality(ColoursOf(data)) = 1
    BY <1>3, <1>4, <1>6, <1>11, ColoursFinite DEF PaletteFits
  <2>2. c \in ColoursOf(data)
    <3>1. <<0, 0>> \in Zone(r.w, r.h)  BY <1>3 DEF IsRect, Zone, Points, Rect
    <3> QED  BY <1>4, <3>1 DEF ColoursOf
  <2>3. ASSUME NEW p \in Points(r) PROVE scr[p] = c
    <3> DEFINE z == <<p[1] - r.x, p[2] - r.y>>
    <3>1. z \in Zone(r.w, r.h)  BY CropIs DEF Zone
    <3>2. data[z] = scr[p]  BY <1>5 DEF Cut
    <3>3. data[z] \in ColoursOf(data)
      <4> HIDE DEF z
      <4> QED  BY <1>4, <3>1 DEF ColoursOf
    <3> HIDE DEF z, c
    <3> QED  BY <2>1, <2>2, <3>2, <3>3, OneColoured
  <2>4. q = SendSolidRect(h, c)  BY <1>2, <1>11
  <2> HIDE DEF c
  <2> QED  BY <1>1, <1>9, <2>3, <2>4, SolidSent
<1>12. ASSUME n = 2 PROVE Sends(scr, f, q, r, 1)
  <2> DEFINE c == <<"tight", "palette", 2, Method("mono")>>  s == "mono"  len == ((r.w + 7) \div 8) * r.h  k == 9  m == 26
  <2>1. TightForm(c, r, s, len) /\ len \in Nat  BY <1>3, FormsAre
  <2>2. k \in Nat /\ m \in 0 .. UPDATE_BUF_SIZE /\ k + 11 <= m  BY <1>8
  <2>3. q = CompressData(Put(Room(h, m), c, k), s, data, len)
    BY <1>2, <1>12 DEF SendMonoRect, TIGHT_MIN_TO_COMPRESS, PIXEL24, BPP
  <2>4. s \in Streams  BY <1>8
  <2> HIDE DEF c, s, len, k, m
  <2> QED  BY <1>1, <1>5, <1>9, <2>1, <2>2, <2>3, <2>4, TightFormSent
<1>13. ASSUME n > 2 PROVE Sends(scr, f, q, r, 1)
  <2> DEFINE c == <<"tight", "palette", n, Method("indexed")>>  s == "indexed"  len == Area(r)  k == 3 + n * 3  m == 18 + n * 4
  <2>1. TightForm(c, r, s, len) /\ len \in Nat  BY <1>3, <1>7, <1>13, FormsAre
  <2>2. k \in Nat /\ m \in 0 .. UPDATE_BUF_SIZE /\ k + 11 <= m  BY <1>6, <1>7, <1>8, <1>13 DEF PaletteFits
  <2>3. q = CompressData(Put(Room(h, m), c, k), s, data, len)
    BY <1>2, <1>7, <1>13 DEF SendIndexedRect, TIGHT_MIN_TO_COMPRESS, PIXEL24, BPP
  <2>4. s \in Streams  BY <1>8
  <2> HIDE DEF c, s, len, k, m
  <2> QED  BY <1>1, <1>5, <1>9, <2>1, <2>2, <2>3, <2>4, TightFormSent
<1>14. Sends(scr, f, q, r, 1)  BY <1>7, <1>10, <1>11, <1>12, <1>13
<1>15. Sends(scr, o, q, r, 1)  BY <1>1, <1>14, SendsQuiet
<1> QED  BY <1>15 DEF q

-----------------------------------------------------------------------------
(* Rectangles without areas of one colour. *)

\* The parts of a rectangle that is divided by its size only.
LEMMA SubrectHeightIs ==
  ASSUME NEW w \in Nat \ {0}
  PROVE  /\ SubrectMaxHeight(w) \in Nat \ {0}
         /\ \A u \in Nat, h \in Nat : u <= w /\ u <= MaxRectWidth /\ h <= SubrectMaxHeight(w) => u * h <= MaxRectSize
<1> DEFINE l == Lesser(w, MaxRectWidth)  m == SubrectMaxHeight(w)
<1>1. l \in Nat \ {0} /\ l <= w /\ l <= MaxRectWidth /\ l <= MaxRectSize /\ MaxRectSize \in Nat \ {0}
      /\ (l = w \/ l = MaxRectWidth)  BY Sizes DEF Lesser
<1>2. m = MaxRectSize \div l  BY DEF SubrectMaxHeight
<1> HIDE DEF l
<1>3. IsQuot(MaxRectSize \div l, MaxRectSize, l)  BY <1>1, QuotIs
<1>4. m \in Int /\ 1 <= m /\ m * l <= MaxRectSize  BY <1>1, <1>2, <1>3 DEF IsQuot
<1> HIDE DEF m
<1>5. ASSUME NEW u \in Nat, NEW h \in Nat, u <= w, u <= MaxRectWidth, h <= m PROVE u * h <= MaxRectSize
  <2>1. u <= l  BY <1>1, <1>5
  <2>2. u * h <= l * h  BY <1>1, <2>1, TimesMore
  <2>3. h * l <= m * l  BY <1>1, <1>4, <1>5, TimesMore
  <2>4. l * h = h * l /\ l * h \in Nat /\ u * h \in Nat /\ m * l \in Nat  BY <1>1, <1>4
  <2> DEFINE a == u * h  b == l * h  c == h * l  d == m * l
  <2>5. a <= b /\ c <= d /\ b = c /\ a \in Int /\ b \in Int /\ d \in Int /\ d <= MaxRectSize
    BY <1>4, <2>2, <2>3, <2>4
  <2> HIDE DEF a, b, c, d
  <2>6. a <= MaxRectSize  BY <1>1, <2>5
  <2> QED  BY <2>6 DEF a
<1> QED  BY <1>4, <1>5 DEF m

\* The parts that a rectangle is split into by its size divide it.
LEMMA SimplePartsAre ==
  ASSUME NEW r, On(r)
  PROVE  SimpleDivides(r, SimpleParts(r), SimpleCount(r))
<1> DEFINE w == r.w  m == SubrectMaxHeight(w)  T == Tiles(r, MaxRectWidth, m)
<1>1. IsRect(r) /\ w \in Nat \ {0} /\ r.h \in Nat \ {0} /\ Area(r) \in Nat /\ MaxRectWidth \in Nat \ {0} /\ MaxRectSize \in Nat
  BY Sizes DEF On, IsRect, Area
<1>2. CASE w <= MaxRectWidth /\ Area(r) <= MaxRectSize
  <2> DEFINE one == <<r>>
  <2>1. SimpleParts(r) = one /\ SimpleCount(r) = 1  BY <1>1, <1>2 DEF SimpleParts, SimpleCount
  <2>2. Len(one) = 1 /\ one[1] = r /\ 1 .. 1 = {1}  OBVIOUS
  <2> HIDE DEF one
  <2>3. Points(r) = UNION {Points(one[i]) : i \in 1 .. 1}  BY <2>2
  <2> QED  BY <1>2, <2>1, <2>2, <2>3 DEF SimpleDivides
<1>3. CASE ~(w <= MaxRectWidth /\ Area(r) <= MaxRectSize)
  <2> DEFINE n == ((r.w - 1) \div MaxRectWidth + 1) * ((r.h - 1) \div m + 1)
  <2>1. SimpleParts(r) = T  BY <1>3 DEF SimpleParts
  <2>2. SimpleCount(r) = n  BY <1>1, <1>3 DEF SimpleCount
  <2>3. m \in Nat \ {0}  BY <1>1, SubrectHeightIs
  <2> HIDE DEF m
  <2>4. Divides(r, MaxRectWidth, m, T, n)  BY <1>1, <2>3, TilesDivide
  <2> HIDE DEF T, n
  <2>5. /\ n \in Nat \ {0} /\ Len(T) = n /\ Points(r) = UNION {Points(T[i]) : i \in 1 .. n}
        /\ \A i \in 1 .. n : IsRect(T[i]) /\ Within(T[i], r) /\ T[i].w <= MaxRectWidth /\ T[i].h <= m
    BY <2>4 DEF Divides
  <2>6. ASSUME NEW i \in 1 .. n PROVE On(T[i]) /\ Area(T[i]) <= MaxRectSize
    <3> DEFINE t == T[i]
    <3>1. IsRect(t) /\ Within(t, r) /\ t.w <= MaxRectWidth /\ t.h <= m  BY <2>5
    <3> HIDE DEF t
    <3>2. On(t)  BY <3>1, OnWithin
    <3>3. t.w <= w /\ t.w \in Nat /\ t.h \in Nat  BY <1>1, <3>1 DEF Within, IsRect
    <3>4. t.w * t.h <= MaxRectSize  BY <1>1, <3>1, <3>3, SubrectHeightIs DEF m
    <3> QED  BY <3>2, <3>4 DEF Area, t
  <2> QED  BY <2>1, <2>2, <2>5, <2>6 DEF SimpleDivides
<1> QED  BY <1>2, <1>3

\* Hence SendRectSimple, in as many rectangles as are counted.
LEMMA SimpleSent ==
  ASSUME NEW scr \in Pictures, NEW o, IsOut(o), NEW r, On(r)
  PROVE  Sends(scr, o, SendRectSimple(o, scr, r), r, SimpleCount(r))
<1> DEFINE T == SimpleParts(r)  n == SimpleCount(r)  f == Subrecting!After(scr, 0, o, T)
<1>1. SimpleDivides(r, T, n)  BY SimplePartsAre
<1> HIDE DEF T, n
<1>2. /\ n \in Nat \ {0} /\ Len(T) = n /\ Points(r) = UNION {Points(T[i]) : i \in 1 .. n}
      /\ \A i \in 1 .. n : On(T[i]) /\ Area(T[i]) <= MaxRectSize  BY <1>1 DEF SimpleDivides
<1>3. f[0] = o /\ \A i \in 1 .. n : f[i] = SubrectStep(scr, 0, f[i - 1], T[i])
  BY <1>2, Subrecting!AfterExists, Reached DEF Subrecting!Upward
<1>4. SendRectSimple(o, scr, r) = f[n]
  <2>1. SendRectSimple(o, scr, r) = f[Len(T)]  BY DEF SendRectSimple, InTurn, Subrecting!After, SubrectStep, T
  <2> QED  BY <1>2, <2>1
<1> HIDE DEF f
<1>5. ASSUME NEW i \in 1 .. n, IsOut(f[i - 1]) PROVE Sends(scr, f[i - 1], f[i], T[i], 1)
  <2> DEFINE t == T[i]  p == f[i - 1]
  <2>1. On(t) /\ Area(t) <= MaxRectSize  BY <1>2
  <2>2. f[i] = SendSubrect(p, scr, t)  BY <1>3 DEF SubrectStep
  <2>3. IsOut(p)  BY <1>5
  <2> HIDE DEF p, t
  <2>4. Sends(scr, p, SendSubrect(p, scr, t), t, 1)  BY <2>1, <2>3, SubrectSent
  <2> QED  BY <2>2, <2>4 DEF p, t
<1>6. Sends(scr, f[0], f[n], r, n)  BY <1>2, <1>3, <1>5, PartsSent
<1> QED  BY <1>3, <1>4, <1>6 DEF n

-----------------------------------------------------------------------------
(* Tight: areas of one colour. *)

\* The search for an area of one colour starts with rows of tiles.
LEMMA SolidWidthIs ==
  ASSUME NEW same, NEW x \in Int, NEW y \in Int, NEW w \in Nat, NEW h \in Int, NEW v, v = SolidWidth(same, x, y, w, h)
  PROVE  v \in 0 .. w /\ CheckSolidTile(same, Rect(x, y, v, h))
<1> DEFINE widths == {k * MaxSplitTile : k \in 0 .. (w \div MaxSplitTile)} \cup {w}
           T == {u \in widths : CheckSolidTile(same, Rect(x, y, u, h))}
<1>1. MaxSplitTile \in Nat \ {0}  BY Sizes
<1>2. ASSUME NEW u \in widths PROVE u \in Int /\ 0 <= u /\ u <= w
  <2>1. CASE u = w  BY <2>1
  <2>2. ASSUME NEW k \in 0 .. (w \div MaxSplitTile), u = k * MaxSplitTile PROVE u \in Int /\ 0 <= u /\ u <= w
    <3> DEFINE q == w \div MaxSplitTile  a == w % MaxSplitTile  t == MaxSplitTile
    <3>1. q \in Nat /\ a \in 0 .. t - 1 /\ w = (t * q) + a  BY <1>1, Quotient
    <3>2. k \in Nat /\ k <= q  BY <3>1
    <3>3. t \in Nat  BY <1>1
    <3> HIDE DEF q, a, t
    <3>4. k * t <= q * t /\ k * t \in Nat /\ t * q = q * t  BY <3>1, <3>2, <3>3, TimesMore
    <3>5. u = k * t  BY <2>2 DEF t
    <3> QED  BY <3>1, <3>3, <3>4, <3>5
  <2> QED  BY <1>2, <2>1, <2>2
<1>3. 0 \in T
  <2>4. w \div MaxSplitTile \in Nat  BY <1>1, Quotient
  <2>1. 0 \in 0 .. (w \div MaxSplitTile) /\ 0 * MaxSplitTile = 0  BY <1>1, <2>4
  <2>2. 0 \in widths  BY <2>1
  <2>3. Points(Rect(x, y, 0, h)) = {}  BY DEF Points, Rect
  <2> QED  BY <2>2, <2>3 DEF CheckSolidTile
<1>4. v = Max(T)  BY DEF SolidWidth
<1>5. T \subseteq widths /\ \A u \in T : CheckSolidTile(same, Rect(x, y, u, h))  OBVIOUS
<1> HIDE DEF widths, T
<1>6. T \in SUBSET Int /\ T # {} /\ \A t \in T : 0 <= t /\ t <= w  BY <1>2, <1>3, <1>5
<1>7. 0 \in Int /\ w \in Int  OBVIOUS
<1>8. Max(T) \in T
  <2> DEFINE nil == 0
  <2>1. nil \in Int /\ \A t \in T : nil <= t /\ t <= w  BY <1>6
  <2> HIDE DEF nil
  <2> QED  BY <1>6, <1>7, <2>1, Extremes
<1> QED  BY <1>2, <1>4, <1>5, <1>8

LEMMA RowGrows ==
  ASSUME NEW same, NEW r, IsRect(r), NEW found, NEW i \in Nat \ {0}, NEW k \in 0 .. r.h - 1, k = (i - 1) * MaxSplitTile,
         Grown(same, r, found, k)
  PROVE  Grown(same, r, RowStep(same, r, found, i), Lesser(k + MaxSplitTile, r.h))
<1> DEFINE dy == r.y + (i - 1) * MaxSplitTile  dh == Lesser(MaxSplitTile, r.y + r.h - dy)
           wide == SolidWidth(same, r.x, dy, found.w, dh)  area == Rect(r.x, r.y, wide, dy + dh - r.y)
           next == RowStep(same, r, found, i)
           m == Lesser(k + MaxSplitTile, r.h)  old == Rect(r.x, r.y, found.w, k)  line == Rect(r.x, dy, wide, dh)
<1>1. MaxSplitTile \in Nat \ {0} /\ r.x \in Int /\ r.y \in Int /\ r.w \in Nat \ {0} /\ r.h \in Nat \ {0}
  BY Sizes DEF IsRect
<1>2. dy = r.y + k  OBVIOUS
<1>3. next.w = wide /\ next.best = IF Area(area) > Area(found.best) THEN area ELSE found.best  BY DEF RowStep
<1> HIDE DEF dy, next
<1>4. dy \in Int /\ r.y + r.h - dy = r.h - k /\ r.h - k \in Nat \ {0}  BY <1>1, <1>2
<1>5. dh \in Int /\ 0 < dh /\ k + dh = m /\ m \in 0 .. r.h /\ dy + dh - r.y = m  BY <1>1, <1>2, <1>4 DEF Lesser
<1> HIDE DEF dh, m
<1>6. found.w \in 0 .. r.w /\ CheckSolidTile(same, old) /\ Corner(same, r, found.best)
  BY RectFields DEF Grown, Corner
<1>7. found.w \in Nat  BY <1>1, <1>6
<1>8. wide \in 0 .. found.w /\ CheckSolidTile(same, line)  BY <1>1, <1>4, <1>5, <1>7, SolidWidthIs
<1> HIDE DEF wide
<1>9. wide \in 0 .. r.w  BY <1>1, <1>6, <1>8
<1>10. area = Rect(r.x, r.y, wide, m)  BY <1>5
<1>11. area.x = r.x /\ area.y = r.y /\ area.w = wide /\ area.h = m  BY <1>10, RectFields
<1>12. CheckSolidTile(same, area)
  <2>1. old.x = r.x /\ old.y = r.y /\ old.w = found.w /\ old.h = k  BY RectFields
  <2>2. line.x = r.x /\ line.y = dy /\ line.w = wide /\ line.h = dh  BY RectFields
  <2> HIDE DEF area, old, line
  <2>3. ASSUME NEW p \in Points(area) PROVE p \in same
    <3>1. /\ p = <<p[1], p[2]>> /\ p[1] \in Int /\ p[2] \in Int
          /\ r.x <= p[1] /\ p[1] < r.x + wide /\ r.y <= p[2] /\ p[2] < r.y + m  BY <1>1, <1>5, <1>9, <1>11, PointsOf
    <3>2. CASE p[2] < r.y + k
      <4>1. p \in Points(old)  BY <1>1, <1>6, <1>8, <2>1, <3>1, <3>2, PointsOf
      <4> QED  BY <1>6, <4>1 DEF CheckSolidTile
    <3>3. CASE ~(p[2] < r.y + k)
      <4>1. p \in Points(line)  BY <1>1, <1>2, <1>4, <1>5, <1>9, <2>2, <3>1, <3>3, PointsOf
      <4> QED  BY <1>8, <4>1 DEF CheckSolidTile
    <3> QED  BY <3>2, <3>3
  <2> QED  BY <2>3 DEF CheckSolidTile
<1>13. Corner(same, r, area)  BY <1>5, <1>9, <1>10, <1>11, <1>12 DEF Corner
<1>14. Corner(same, r, next.best)
  <2> HIDE DEF area
  <2> QED  BY <1>3, <1>6, <1>13
<1> QED  BY <1>3, <1>10, <1>13, <1>14 DEF Grown, m, next

\* FindBestSolidArea finds an area of one colour at the corner.
LEMMA FindBestIs ==
  ASSUME NEW same, NEW r, IsRect(r)
  PROVE  Corner(same, r, FindBestSolidArea(same, r))
<1> DEFINE none == [w |-> r.w, best |-> Rect(r.x, r.y, 0, 0)]  n == (r.h - 1) \div MaxSplitTile + 1
           f == Rowing!After(same, r, none, UpTo(n))  t == MaxSplitTile
           Q == {k \in 0 .. n : Grown(same, r, f[k], Lesser(k * t, r.h))}
<1>1. t \in Nat \ {0} /\ r.x \in Int /\ r.y \in Int /\ r.w \in Nat \ {0} /\ r.h \in Nat \ {0}  BY Sizes DEF IsRect
<1>20. r.h - 1 \in Nat  BY <1>1
<1>21. (r.h - 1) \div MaxSplitTile \in Nat  BY <1>1, <1>20, Quotient
<1>2. n \in Nat \ {0} /\ r.h - 1 \in Nat  BY <1>20, <1>21
<1>3. n - 1 \in Nat /\ (n - 1) * t <= r.h - 1
  <2> DEFINE q == (r.h - 1) \div t  a == (r.h - 1) % t
  <2>1. q \in Nat /\ a \in 0 .. t - 1 /\ r.h - 1 = (t * q) + a  BY <1>1, <1>2, Quotient
  <2>2. n - 1 = q  BY <2>1
  <2> HIDE DEF q, a, t, n
  <2> QED  BY <1>1, <2>1, <2>2
<1> HIDE DEF n, t
<1>4. DOMAIN UpTo(n) = 1 .. n /\ Len(UpTo(n)) = n /\ \A i \in 1 .. n : UpTo(n)[i] = i  BY <1>2 DEF UpTo
<1>5. f[0] = none /\ \A i \in 1 .. n : f[i] = RowStep(same, r, f[i - 1], UpTo(n)[i])
  BY <1>2, <1>4, Rowing!AfterExists, Reached DEF Rowing!Upward
<1>6. FindBestSolidArea(same, r) = f[n].best
  <2>1. FindBestSolidArea(same, r) = f[Len(UpTo(n))].best  BY DEF FindBestSolidArea, InTurn, Rowing!After, RowStep, n
  <2> QED  BY <1>4, <2>1
<1> HIDE DEF f
<1>7. 0 \in Q
  <2>1. 0 * t = 0 /\ Lesser(0, r.h) = 0  BY <1>1 DEF Lesser
  <2>2. Corner(same, r, Rect(r.x, r.y, r.w, 0)) /\ Corner(same, r, Rect(r.x, r.y, 0, 0))
    BY <1>1 DEF Corner, CheckSolidTile, Points, Rect
  <2>3. none.w = r.w /\ none.best = Rect(r.x, r.y, 0, 0)  OBVIOUS
  <2>4. Grown(same, r, none, 0)  BY <2>2, <2>3 DEF Grown
  <2> QED  BY <1>2, <1>5, <2>1, <2>4
<1>8. ASSUME NEW k \in 0 .. n - 1, k \in Q PROVE k + 1 \in Q
  <2> DEFINE i == k + 1  m == k * t
  <2>1. i \in 1 .. n /\ i \in 0 .. n /\ i - 1 = k /\ i \in Nat \ {0} /\ k \in Nat  BY <1>2
  <2>2. m \in 0 .. r.h - 1
    <3>1. k * t <= (n - 1) * t /\ k * t \in Nat  BY <1>1, <1>2, <1>3, <2>1, TimesMore
    <3>2. (n - 1) * t \in Nat  BY <1>1, <1>3
    <3> QED  BY <1>1, <1>3, <3>1, <3>2
  <2>3. i * t = m + t /\ m = (i - 1) * t  BY <1>1, <2>1
  <2>4. Lesser(m, r.h) = m  BY <1>1, <2>2 DEF Lesser
  <2>5. f[i] = RowStep(same, r, f[k], i)  BY <1>4, <1>5, <2>1
  <2> HIDE DEF i, m
  <2>6. Grown(same, r, f[k], m)  BY <1>8, <2>4 DEF m
  <2>7. Grown(same, r, f[i], Lesser(m + t, r.h))  BY <2>1, <2>2, <2>3, <2>5, <2>6, RowGrows DEF t
  <2>8. i \in Q  BY <2>1, <2>3, <2>7
  <2> QED  BY <2>8 DEF i
<1>9. n \in Q
  <2>1. \A k \in 0 .. n : k \in Q
    <3> HIDE DEF Q
    <3> QED  BY <1>2, <1>7, <1>8, Reached
  <2> QED  BY <1>2, <2>1
<1>10. Corner(same, r, f[n].best)
  <2>1. Grown(same, r, f[n], Lesser(n * t, r.h))  BY <1>9
  <2> QED  BY <2>1 DEF Grown
<1> DEFINE s == FindBestSolidArea(same, r)
<1>11. s = f[n].best  BY <1>6
<1> HIDE DEF s
<1>12. Corner(same, r, s)  BY <1>10, <1>11
<1> QED  BY <1>12 DEF s

LEMMA BetweenIs ==
  ASSUME NEW same, NEW a \in Int, NEW b \in Int, NEW c \in Int, NEW d \in Int
  PROVE  /\ Between(same, a, b, c, d) <=> \A p \in Int \X Int : a <= p[1] /\ p[1] < c /\ b <= p[2] /\ p[2] < d => p \in same
         /\ a >= c \/ b >= d => Between(same, a, b, c, d)
<1> DEFINE s == Rect(a, b, c - a, d - b)
<1>1. s.x = a /\ s.y = b /\ s.w = c - a /\ s.h = d - b  BY RectFields
<1>2. Between(same, a, b, c, d) <=> Points(s) \subseteq same  BY DEF Between, CheckSolidTile
<1> HIDE DEF s
<1>3. a + (c - a) = c /\ b + (d - b) = d /\ c - a \in Int /\ d - b \in Int  OBVIOUS
<1>4. \A p : p \in Points(s) <=> /\ p = <<p[1], p[2]>> /\ p[1] \in Int /\ p[2] \in Int
                                /\ a <= p[1] /\ p[1] < c /\ b <= p[2] /\ p[2] < d  BY <1>1, <1>3, PointsOf
<1>5. \A p : p = <<p[1], p[2]>> /\ p[1] \in Int /\ p[2] \in Int <=> p \in Int \X Int  OBVIOUS
<1>6. Points(s) \subseteq same <=> \A p \in Int \X Int : a <= p[1] /\ p[1] < c /\ b <= p[2] /\ p[2] < d => p \in same
  BY <1>4, <1>5
<1>7. a >= c \/ b >= d => \A p \in Int \X Int : ~(a <= p[1] /\ p[1] < c /\ b <= p[2] /\ p[2] < d)  OBVIOUS
<1> QED  BY <1>2, <1>6, <1>7

\* The first and the last line or column up to which all is of one colour.
LEMMA FirstLine ==
  ASSUME NEW a \in Int, NEW b \in Int, a <= b, NEW T, T \subseteq a .. b, NEW e \in T
  PROVE  Min(T) \in T /\ Max(T) \in T
<1>1. T \in SUBSET Int /\ T # {} /\ \A t \in T : a <= t /\ t <= b  OBVIOUS
<1> QED  BY <1>1, Extremes

\* ExtendSolidArea extends it within the rectangle.
LEMMA ExtendIs ==
  ASSUME NEW same, NEW r, IsRect(r), NEW s, Uniform(same, r, s)
  PROVE  Uniform(same, r, ExtendSolidArea(same, r, s))
<1> DEFINE right == s.x + s.w  low == s.y + s.h  edge == r.x + r.w  base == r.y + r.h
           T1 == {y \in r.y .. s.y : Between(same, s.x, y, right, s.y)}  top == Min(T1)
           T2 == {y \in low .. base : Between(same, s.x, low, right, y)}  bottom == Max(T2)
           T3 == {x \in r.x .. s.x : Between(same, x, top, s.x, bottom)}  x1 == Min(T3)
           T4 == {x \in right .. edge : Between(same, right, top, x, bottom)}  x2 == Max(T4)
           e == Rect(x1, top, x2 - x1, bottom - top)
<1>1. /\ r.x \in Int /\ r.y \in Int /\ r.w \in Nat \ {0} /\ r.h \in Nat \ {0}
      /\ s = Rect(s.x, s.y, s.w, s.h) /\ s.x \in Int /\ s.y \in Int /\ s.w \in Nat \ {0} /\ s.h \in Nat \ {0}
      /\ r.x <= s.x /\ r.y <= s.y /\ right <= edge /\ low <= base /\ CheckSolidTile(same, s)
  BY DEF Uniform, IsRect, Within
<1>2. right \in Int /\ low \in Int /\ edge \in Int /\ base \in Int /\ s.x < right /\ s.y < low
      /\ right - s.x = s.w /\ low - s.y = s.h  BY <1>1
<1>3. ExtendSolidArea(same, r, s) = e  BY DEF ExtendSolidArea, Between
<1> HIDE DEF right, low, edge, base
<1>4. Between(same, s.x, s.y, right, low)  BY <1>1, <1>2 DEF Between
<1>5. top \in r.y .. s.y /\ Between(same, s.x, top, right, s.y)
  <2>1. s.y \in T1  BY <1>1, <1>2, BetweenIs
  <2>2. T1 \subseteq r.y .. s.y /\ \A y \in T1 : Between(same, s.x, y, right, s.y)  OBVIOUS
  <2> HIDE DEF T1
  <2>3. top \in T1  BY <1>1, <2>1, <2>2, FirstLine
  <2> QED  BY <2>2, <2>3
<1>6. bottom \in low .. base /\ Between(same, s.x, low, right, bottom)
  <2>1. low \in T2  BY <1>1, <1>2, BetweenIs
  <2>2. T2 \subseteq low .. base /\ \A y \in T2 : Between(same, s.x, low, right, y)  OBVIOUS
  <2> HIDE DEF T2
  <2>3. bottom \in T2  BY <1>1, <1>2, <2>1, <2>2, FirstLine
  <2> QED  BY <2>2, <2>3
<1> HIDE DEF top, bottom
<1>7. top \in Int /\ bottom \in Int /\ r.y <= top /\ top <= s.y /\ low <= bottom /\ bottom <= base
  BY <1>1, <1>2, <1>5, <1>6
<1>8. x1 \in r.x .. s.x /\ Between(same, x1, top, s.x, bottom)
  <2>1. s.x \in T3  BY <1>1, <1>2, <1>7, BetweenIs
  <2>2. T3 \subseteq r.x .. s.x /\ \A x \in T3 : Between(same, x, top, s.x, bottom)  OBVIOUS
  <2> HIDE DEF T3
  <2>3. x1 \in T3  BY <1>1, <2>1, <2>2, FirstLine
  <2> QED  BY <2>2, <2>3
<1>9. x2 \in right .. edge /\ Between(same, right, top, x2, bottom)
  <2>1. right \in T4  BY <1>1, <1>2, <1>7, BetweenIs
  <2>2. T4 \subseteq right .. edge /\ \A x \in T4 : Between(same, right, top, x, bottom)  OBVIOUS
  <2> HIDE DEF T4
  <2>3. x2 \in T4  BY <1>1, <1>2, <2>1, <2>2, FirstLine
  <2> QED  BY <2>2, <2>3
<1> HIDE DEF x1, x2
<1>10. x1 \in Int /\ x2 \in Int /\ r.x <= x1 /\ x1 <= s.x /\ right <= x2 /\ x2 <= edge  BY <1>1, <1>2, <1>8, <1>9
<1>11. Between(same, x1, top, x2, bottom)
  <2> DEFINE In(p, a, b, c, d) == a <= p[1] /\ p[1] < c /\ b <= p[2] /\ p[2] < d
  <2>1. \A p \in Int \X Int : In(p, s.x, s.y, right, low) => p \in same  BY <1>1, <1>2, <1>4, BetweenIs
  <2>2. \A p \in Int \X Int : In(p, s.x, top, right, s.y) => p \in same  BY <1>1, <1>2, <1>5, <1>7, BetweenIs
  <2>3. \A p \in Int \X Int : In(p, s.x, low, right, bottom) => p \in same  BY <1>1, <1>2, <1>6, <1>7, BetweenIs
  <2>4. \A p \in Int \X Int : In(p, x1, top, s.x, bottom) => p \in same  BY <1>1, <1>7, <1>8, <1>10, BetweenIs
  <2>5. \A p \in Int \X Int : In(p, right, top, x2, bottom) => p \in same  BY <1>2, <1>7, <1>9, <1>10, BetweenIs
  <2>6. ASSUME NEW p \in Int \X Int, In(p, x1, top, x2, bottom) PROVE p \in same
    <3>1. p[1] \in Int /\ p[2] \in Int  OBVIOUS
    <3>2. \/ In(p, s.x, s.y, right, low) \/ In(p, s.x, top, right, s.y) \/ In(p, s.x, low, right, bottom)
          \/ In(p, x1, top, s.x, bottom) \/ In(p, right, top, x2, bottom)  BY <1>1, <1>2, <1>7, <1>10, <2>6, <3>1
    <3> HIDE DEF In
    <3> QED  BY <2>1, <2>2, <2>3, <2>4, <2>5, <3>2
  <2> QED  BY <1>7, <1>10, <2>6, BetweenIs
<1>12. IsRect(e)
  <2>1. x2 - x1 \in Nat \ {0} /\ bottom - top \in Nat \ {0}  BY <1>1, <1>2, <1>7, <1>10
  <2> QED  BY <1>7, <1>10, <2>1, RectIs
<1>13. e.x = x1 /\ e.y = top /\ e.w = x2 - x1 /\ e.h = bottom - top  BY RectFields
<1>14. CheckSolidTile(same, e)  BY <1>11 DEF Between
<1> HIDE DEF e
<1>15. Within(e, r)  BY <1>1, <1>2, <1>7, <1>10, <1>13 DEF Within, edge, base
<1> QED  BY <1>3, <1>12, <1>14, <1>15 DEF Uniform

\* A solid area has one colour and lies within the rectangle.
LEMMA SolidAreaIs ==
  ASSUME NEW pic, NEW r, IsRect(r), NEW t, IsRect(t), Within(t, r), Area(SolidArea(pic, r, t)) > 0
  PROVE  SolidIn(pic, r, SolidArea(pic, r, t))
<1> DEFINE c == pic[<<t.x, t.y>>]  same == OfColour(pic, c)
           rest == Rect(t.x, t.y, r.x + r.w - t.x, r.y + r.h - t.y)
           best == FindBestSolidArea(same, rest)
           nil == Rect(t.x, t.y, 0, 0)  s == ExtendSolidArea(same, r, best)
<1>1. /\ r.x \in Int /\ r.y \in Int /\ r.w \in Nat \ {0} /\ r.h \in Nat \ {0}
      /\ t.x \in Int /\ t.y \in Int /\ t.w \in Nat \ {0} /\ t.h \in Nat \ {0}
      /\ r.x <= t.x /\ r.y <= t.y /\ t.x + t.w <= r.x + r.w /\ t.y + t.h <= r.y + r.h  BY DEF IsRect, Within
<1>2. Area(nil) = 0  BY DEF Area, Rect
<1>3. SolidArea(pic, r, t) = IF CheckSolidTile(same, t) /\ (Area(best) = Area(r) \/ Area(best) >= MinSolidSubrect)
                             THEN s ELSE nil  BY DEF SolidArea
<1> HIDE DEF nil, s
<1>4. SolidArea(pic, r, t) = s /\ (Area(best) = Area(r) \/ Area(best) >= MinSolidSubrect)  BY <1>2, <1>3
<1>5. IsRect(rest) /\ rest.x = t.x /\ rest.y = t.y /\ rest.w = r.x + r.w - t.x /\ rest.h = r.y + r.h - t.y
  <2> DEFINE u == r.x + r.w - t.x  v == r.y + r.h - t.y
  <2>1. u \in Nat \ {0}  BY <1>1
  <2>2. v \in Nat \ {0}
    <3>1. r.y \in Int /\ r.h \in Int /\ t.y \in Int /\ t.h \in Int /\ t.h > 0 /\ t.y + t.h <= r.y + r.h  BY <1>1
    <3> QED  BY <3>1
  <2>3. rest = Rect(t.x, t.y, u, v)  OBVIOUS
  <2> HIDE DEF u, v, rest
  <2>4. rest.x = t.x /\ rest.y = t.y /\ rest.w = u /\ rest.h = v  BY <2>3, RectFields
  <2>5. IsRect(rest)  BY <1>1, <2>1, <2>2, <2>3, RectIs
  <2> QED  BY <2>4, <2>5 DEF u, v
<1> HIDE DEF rest
<1>6. Corner(same, rest, best)  BY <1>5, FindBestIs
<1> HIDE DEF best
<1>7. best = Rect(t.x, t.y, best.w, best.h) /\ best.w \in 0 .. rest.w /\ best.h \in 0 .. rest.h /\ CheckSolidTile(same, best)
  BY <1>5, <1>6 DEF Corner
<1>8. best.x = t.x /\ best.y = t.y
  <2> DEFINE bw == best.w  bh == best.h
  <2>1. best = Rect(t.x, t.y, bw, bh)  BY <1>7
  <2> HIDE DEF bw, bh
  <2> QED  BY <2>1, RectFields
<1>9. best.w \in Nat \ {0} /\ best.h \in Nat \ {0}
  <2>1. best.w \in Nat /\ best.h \in Nat  BY <1>1, <1>5, <1>7
  <2>2. Area(r) > 0 /\ MinSolidSubrect > 0
    <3>1. MinSolidSubrect \in Nat \ {0}  BY Sizes
    <3>2. r.w \in Nat \ {0} /\ r.h \in Nat \ {0}  BY <1>1
    <3> DEFINE a == r.w  b == r.h
    <3>3. a * b \in Nat \ {0}
      <4> HIDE DEF a, b
      <4>1. a \in Nat \ {0} /\ b \in Nat \ {0}  BY <3>2 DEF a, b
      <4> QED  BY <4>1, Cells
    <3> QED  BY <3>1, <3>3 DEF Area
  <2>3. Area(best) # 0
    <3>1. MinSolidSubrect \in Nat \ {0}  BY Sizes
    <3> HIDE DEF best
    <3> QED  BY <1>4, <2>2, <3>1
  <2>4. best.w # 0 /\ best.h # 0  BY <2>1, <2>3 DEF Area
  <2> QED  BY <2>1, <2>4
<1>10. Uniform(same, r, best)
  <2>1. IsRect(best)  BY <1>1, <1>7, <1>8, <1>9 DEF IsRect
  <2>2. Within(best, r)  BY <1>1, <1>5, <1>7, <1>8, <1>9 DEF Within
  <2> QED  BY <1>7, <2>1, <2>2 DEF Uniform
<1>11. Uniform(same, r, s)  BY <1>10, ExtendIs DEF s
<1>12. OneColour(pic, s)
  <2>1. s.x \in Int /\ s.y \in Int /\ s.w \in Nat \ {0} /\ s.h \in Nat \ {0} /\ Points(s) \subseteq same
    BY <1>11 DEF Uniform, IsRect, CheckSolidTile
  <2>2. <<s.x, s.y>> \in Points(s)
    <3> DEFINE p == <<s.x, s.y>>
    <3>1. p = <<p[1], p[2]>> /\ p[1] = s.x /\ p[2] = s.y  OBVIOUS
    <3> HIDE DEF p
    <3>2. p \in Points(s)  BY <2>1, <3>1, PointsOf
    <3> QED  BY <3>2 DEF p
  <2>3. \A p \in same : pic[p] = c  BY DEF OfColour
  <2> HIDE DEF same, c
  <2> QED  BY <2>1, <2>2, <2>3 DEF OneColour
<1> QED  BY <1>4, <1>11, <1>12 DEF Uniform, SolidIn

\* The first of the solid areas in a row of tiles.
LEMMA FoundIs ==
  ASSUME NEW pic, NEW r, IsRect(r), NEW dy \in Int, r.y <= dy, dy < r.y + r.h, FoundIn(pic, r, dy) # {}
  PROVE  SolidIn(pic, r, FirstFound(FoundIn(pic, r, dy)))
<1> DEFINE n == (r.w - 1) \div MaxSplitTile + 1  x(i) == r.x + MaxSplitTile * (i - 1)
           tile(i) == Rect(x(i), dy, Lesser(MaxSplitTile, r.x + r.w - x(i)), Lesser(MaxSplitTile, r.y + r.h - dy))
           area(i) == SolidArea(pic, r, tile(i))
           F == FoundIn(pic, r, dy)  one == {a[1] : a \in F}
<1>1. F = {a \in {<<i, area(i)>> : i \in 1 .. n} : Area(a[2]) > 0}  BY DEF FoundIn
<1>2. /\ MaxSplitTile \in Nat \ {0} /\ r.x \in Int /\ r.y \in Int /\ r.w \in Nat \ {0} /\ r.h \in Nat \ {0}
      /\ n \in Nat \ {0}
  <2>1. MaxSplitTile \in Nat \ {0} /\ r.x \in Int /\ r.y \in Int /\ r.w \in Nat \ {0} /\ r.h \in Nat \ {0}
    BY Sizes DEF IsRect
  <2>2. (r.w - 1) \div MaxSplitTile \in Nat  BY <2>1, Slot
  <2> QED  BY <2>1, <2>2
<1>3. ASSUME NEW a \in F PROVE a[1] \in 1 .. n /\ SolidIn(pic, r, a[2])
  <2> HIDE DEF F
  <2>1. PICK i \in 1 .. n : a = <<i, area(i)>>
    <3> HIDE DEF area, n
    <3> QED  BY <1>1
  <2>2. Area(area(i)) > 0
    <3> HIDE DEF area, n
    <3> QED  BY <1>1, <2>1
  <2>3. IsRect(tile(i)) /\ Within(tile(i), r)
    <3> DEFINE k == i - 1  u == x(i)  d == Lesser(MaxSplitTile, r.x + r.w - u)  m == r.y + r.h - dy
               e == Lesser(MaxSplitTile, m)
    <3>1. k \in 0 .. (r.w - 1) \div MaxSplitTile  BY <1>2
    <3>2. u = r.x + MaxSplitTile * k  OBVIOUS
    <3> HIDE DEF k, u
    <3>3. d = Lesser(MaxSplitTile, r.x + r.w - u)  OBVIOUS
    <3> HIDE DEF d
    <3>4. Spans(r.x, r.w, MaxSplitTile, k, u, d)  BY <1>2, <3>1, <3>2, <3>3, TileSpan
    <3>5. u \in Int /\ d \in Nat \ {0} /\ r.x <= u /\ u + d <= r.x + r.w  BY <3>4 DEF Spans
    <3>6. m \in Nat \ {0}  BY <1>2
    <3>7. e \in Nat \ {0} /\ e <= m
      <4> HIDE DEF m
      <4> QED  BY <1>2, <3>6, LesserIs DEF Lesser
    <3>8. tile(i) = Rect(u, dy, d, e)  BY <3>3 DEF u
    <3> DEFINE t == tile(i)
    <3>9. t.x = u /\ t.y = dy /\ t.w = d /\ t.h = e  BY <3>8, RectFields
    <3>10. IsRect(t)  BY <3>5, <3>7, <3>8, RectIs
    <3>11. dy + e <= r.y + r.h  BY <1>2, <3>7
    <3> HIDE DEF t, e
    <3>12. Within(t, r)  BY <3>5, <3>9, <3>11 DEF Within
    <3> QED  BY <3>10, <3>12 DEF t
  <2>4. SolidIn(pic, r, area(i))
    <3> DEFINE t == tile(i)
    <3>1. area(i) = SolidArea(pic, r, t)  OBVIOUS
    <3> HIDE DEF t, area
    <3> QED  BY <2>2, <2>3, <3>1, SolidAreaIs DEF t
  <2> HIDE DEF area, n
  <2> QED  BY <2>1, <2>4
<1> HIDE DEF F, n
<1>4. one \in SUBSET Int /\ one # {} /\ \A m \in one : 1 <= m /\ m <= n  BY <1>2, <1>3 DEF F
<1>5. \E a \in F : \A b \in F : a[1] <= b[1]
  <2> DEFINE low == 1
  <2>1. low \in Int /\ n \in Int /\ \A m \in one : low <= m /\ m <= n  BY <1>2, <1>4
  <2>2. \A b \in F : b[1] \in one  OBVIOUS
  <2>3. \A m \in one : \E a \in F : a[1] = m  OBVIOUS
  <2> HIDE DEF low, one
  <2>4. Min(one) \in one /\ \A m \in one : Min(one) <= m  BY <1>4, <2>1, Extremes
  <2>5. PICK a \in F : a[1] = Min(one)  BY <2>3, <2>4
  <2> QED  BY <2>2, <2>4, <2>5
<1>6. (CHOOSE a \in F : \A b \in F : a[1] <= b[1]) \in F  BY <1>5
<1>7. FirstFound(F) = (CHOOSE a \in F : \A b \in F : a[1] <= b[1])[2]  BY DEF FirstFound
<1> DEFINE a == CHOOSE a \in F : \A b \in F : a[1] <= b[1]
<1> HIDE DEF a
<1>8. a \in F /\ FirstFound(F) = a[2]  BY <1>6, <1>7 DEF a
<1>9. SolidIn(pic, r, FirstFound(F))  BY <1>3, <1>8
<1> QED  BY <1>9 DEF F

-----------------------------------------------------------------------------
(* Tight: the search. *)

LEMMA SearchedIs ==
  ASSUME NEW g, NEW pic, NEW all, NEW dy
  PROVE  Searched(g, pic, all, dy)
           = IF dy >= all.y + all.h THEN Simple(all)
             ELSE IF FoundIn(pic, RestOf(all, dy), dy) = {}
               THEN SentOf(all, dy) \o g[<<RestOf(all, dy), dy + MaxSplitTile>>]
             ELSE SentOf(all, dy) \o AboveOf(RestOf(all, dy), SolidOf(pic, RestOf(all, dy), dy))
                  \o Entered(g, LeftOf(RestOf(all, dy), SolidOf(pic, RestOf(all, dy), dy)))
                  \o SolidOne(SolidOf(pic, RestOf(all, dy), dy))
                  \o Entered(g, RightOf(RestOf(all, dy), SolidOf(pic, RestOf(all, dy), dy)))
                  \o Entered(g, Below(RestOf(all, dy), SolidOf(pic, RestOf(all, dy), dy)))
<1> QED  BY DEF Searched, RestOf, SentOf, AboveOf, LeftOf, RightOf, SolidOf

LEMMA RectsAre ==
  ASSUME NEW r
  PROVE  r \in Rects <=> IsRect(r)
<1>1. r \in Rects => IsRect(r)  BY DEF Rects, IsRect, Rect
<1>2. IsRect(r) => r \in Rects  BY DEF Rects, IsRect, Rect
<1> QED  BY <1>1, <1>2

LEMMA RestIs ==
  ASSUME NEW all, IsRect(all), NEW dy \in Int, all.y <= dy, dy < all.y + all.h
  PROVE  IsRest(all, dy, RestOf(all, dy))
<1> DEFINE k == SubrectMaxHeight(all.w)  y == all.y + k  h == all.h - k  r == Rect(all.x, y, all.w, h)
<1>1. all.x \in Int /\ all.y \in Int /\ all.w \in Nat \ {0} /\ all.h \in Nat \ {0}  BY DEF IsRect
<1>2. k \in Nat \ {0}  BY <1>1, SubrectHeightIs
<1>3. RestOf(all, dy) = IF dy - all.y >= k THEN r ELSE all  BY DEF RestOf
<1> HIDE DEF k
<1>4. ASSUME dy - all.y >= k PROVE IsRest(all, dy, r)
  <2>1. y \in Int /\ h \in Nat \ {0}  BY <1>1, <1>2, <1>4
  <2>2. y + h = all.y + all.h /\ h <= all.h /\ y <= dy /\ all.y <= y  BY <1>1, <1>2, <1>4
  <2> HIDE DEF y, h
  <2>4. IsRect(r)  BY <1>1, <2>1, RectIs
  <2>3. r.x = all.x /\ r.y = y /\ r.w = all.w /\ r.h = h  BY RectFields
  <2> HIDE DEF r
  <2> QED  BY <1>1, <2>1, <2>2, <2>3, <2>4 DEF IsRest, Within
<1>5. IsRest(all, dy, all)  BY <1>1 DEF IsRest, Within
<1> HIDE DEF r
<1> QED  BY <1>3, <1>4, <1>5

LEMMA SmallerIs ==
  ASSUME NEW r, IsRect(r), NEW x \in Int, NEW y \in Int, NEW w \in Nat, NEW h \in Nat,
         r.x <= x, r.y <= y, x + w <= r.x + r.w, y + h <= r.y + r.h, w + h < r.w + r.h
  PROVE  Smaller(r, Rect(x, y, w, h))
<1> DEFINE e == Rect(x, y, w, h)
<1>1. e.x = x /\ e.y = y /\ e.w = w /\ e.h = h  BY RectFields
<1>2. e = Rect(e.x, e.y, e.w, e.h)  BY <1>1
<1> HIDE DEF e
<1>3. Smaller(r, e)  BY <1>1, <1>2 DEF Smaller, Within
<1> QED  BY <1>3 DEF e

\* What is left around a solid area: above, left, right and below.
LEMMA RestsAre ==
  ASSUME NEW r, IsRect(r), NEW s, IsRect(s), Within(s, r)
  PROVE  Smaller(r, LeftOf(r, s)) /\ Smaller(r, RightOf(r, s)) /\ Smaller(r, Below(r, s))
<1>1. /\ r.x \in Int /\ r.y \in Int /\ r.w \in Nat \ {0} /\ r.h \in Nat \ {0}
      /\ s.x \in Int /\ s.y \in Int /\ s.w \in Nat \ {0} /\ s.h \in Nat \ {0}
      /\ r.x <= s.x /\ r.y <= s.y /\ s.x + s.w <= r.x + r.w /\ s.y + s.h <= r.y + r.h  BY DEF IsRect, Within
<1>2. Smaller(r, LeftOf(r, s))
  <2> DEFINE w == s.x - r.x
  <2>1. w \in Nat /\ r.x + w <= r.x + r.w /\ w + s.h < r.w + r.h  BY <1>1
  <2>2. LeftOf(r, s) = Rect(r.x, s.y, w, s.h)  BY DEF LeftOf
  <2> HIDE DEF w
  <2> QED  BY <1>1, <2>1, <2>2, SmallerIs
<1>3. Smaller(r, RightOf(r, s))
  <2> DEFINE x == s.x + s.w  w == r.x + r.w - s.x - s.w
  <2>1. w \in Nat /\ x \in Int  BY <1>1
  <2>2. r.x <= x /\ x + w <= r.x + r.w /\ w + s.h < r.w + r.h  BY <1>1
  <2>3. RightOf(r, s) = Rect(x, s.y, w, s.h)  BY DEF RightOf
  <2> HIDE DEF x, w
  <2> QED  BY <1>1, <2>1, <2>2, <2>3, SmallerIs
<1>4. Smaller(r, Below(r, s))
  <2> DEFINE y == s.y + s.h  h == r.h - (s.y - r.y) - s.h
  <2>1. h \in Nat /\ y \in Int  BY <1>1
  <2>2. r.y <= y /\ y + h <= r.y + r.h /\ r.w + h < r.w + r.h  BY <1>1
  <2>3. Below(r, s) = Rect(r.x, y, r.w, h)  BY DEF Below
  <2>4. r.w \in Nat /\ r.x <= r.x /\ r.x + r.w <= r.x + r.w  BY <1>1
  <2> HIDE DEF y, h
  <2> QED  BY <1>1, <2>1, <2>2, <2>3, <2>4, SmallerIs
<1> QED  BY <1>2, <1>3, <1>4

LEMMA QueryIs ==
  ASSUME NEW r, NEW dy
  PROVE  <<r, dy>> \in Queries <=> IsRect(r) /\ dy \in Int /\ r.y <= dy
<1>1. <<r, dy>> \in Queries <=> r \in Rects /\ dy \in Int /\ r.y <= dy  BY DEF Queries
<1> QED  BY <1>1, RectsAre

LEMMA RankIs ==
  ASSUME NEW r, IsRect(r), NEW dy \in Int, r.y <= dy
  PROVE  /\ Half(r) \in Nat /\ To(r, dy) \in 0 .. r.h /\ Rank(<<r, dy>>) = Half(r) * Half(r) + To(r, dy)
         /\ Half(r) * Half(r) \in Nat /\ Rank(<<r, dy>>) \in Nat
<1>1. r.y \in Int /\ r.w \in Nat \ {0} /\ r.h \in Nat \ {0}  BY DEF IsRect
<1>2. Half(r) \in Nat /\ To(r, dy) \in 0 .. r.h  BY <1>1 DEF Half, To
<1>3. Rank(<<r, dy>>) = Half(r) * Half(r) + To(r, dy)  BY DEF Rank
<1> DEFINE a == Half(r)
<1>4. a * a \in Nat
  <2> HIDE DEF a
  <2>1. a \in Nat  BY <1>2 DEF a
  <2> QED  BY <2>1
<1> QED  BY <1>1, <1>2, <1>3, <1>4

\* Each of these is a smaller search.
LEMMA RankSmaller ==
  ASSUME NEW r, IsRect(r), NEW dy \in Int, r.y <= dy, NEW e, IsRect(e), Half(e) < Half(r)
  PROVE  <<e, e.y>> \in Queries /\ Rank(<<e, e.y>>) < Rank(<<r, dy>>)
<1>1. e.y \in Int /\ e.h \in Nat /\ e.w \in Nat /\ e.y <= e.y  BY DEF IsRect
<1> DEFINE a == Half(e)  b == Half(r)  t == To(e, e.y)
<1>2. b \in Nat /\ b * b \in Nat /\ Rank(<<r, dy>>) >= b * b  BY RankIs
<1>3. a \in Nat /\ Rank(<<e, e.y>>) = a * a + t /\ t \in 0 .. e.h  BY <1>1, RankIs
<1>4. e.h <= a  BY <1>1 DEF Half
<1>5. a < b  OBVIOUS
<1> HIDE DEF a, b, t
<1>6. a * a + a < b * b
  <2>1. a + 1 \in Nat /\ a + 1 <= b  BY <1>2, <1>3, <1>5
  <2>2. (a + 1) * (a + 1) <= b * (a + 1) /\ b * (a + 1) <= b * b  BY <1>2, <2>1, TimesMore
  <2>3. (a + 1) * (a + 1) = a * a + a + a + 1 /\ a * a \in Nat  BY <1>3
  <2>4. b * (a + 1) \in Nat  BY <1>2, <2>1
  <2> QED  BY <1>2, <1>3, <2>2, <2>3, <2>4
<1>7. a * a \in Nat  BY <1>3
<1>8. Rank(<<e, e.y>>) < Rank(<<r, dy>>)
  <2> DEFINE m == a * a  n == b * b  k == Rank(<<r, dy>>)
  <2>1. k \in Nat  BY RankIs
  <2>2. m \in Nat /\ n \in Nat /\ k >= n /\ m + a < n /\ Rank(<<e, e.y>>) = m + t  BY <1>2, <1>3, <1>6, <1>7
  <2> HIDE DEF m, n, k
  <2>3. m + t < k  BY <1>1, <1>3, <1>4, <2>1, <2>2
  <2> QED  BY <2>2, <2>3 DEF k
<1> QED  BY <1>1, <1>8, QueryIs

\* The next row of tiles.
LEMMA RankNext ==
  ASSUME NEW all, IsRect(all), NEW dy \in Int, all.y <= dy, dy < all.y + all.h, NEW r, IsRest(all, dy, r)
  PROVE  /\ <<r, dy + MaxSplitTile>> \in Queries /\ Rank(<<r, dy + MaxSplitTile>>) < Rank(<<all, dy>>)
         /\ Half(r) <= Half(all)
<1> DEFINE ny == dy + MaxSplitTile  a == Half(r)  b == Half(all)
<1>1. /\ all.y \in Int /\ all.w \in Nat \ {0} /\ all.h \in Nat \ {0}
      /\ IsRect(r) /\ r.y \in Int /\ r.h \in Nat \ {0} /\ r.w = all.w /\ r.h <= all.h /\ r.y + r.h = all.y + all.h
      /\ r.y <= dy /\ MaxSplitTile \in Nat \ {0}  BY Sizes DEF IsRect, IsRest
<1>2. ny \in Int /\ r.y <= ny /\ dy < ny  BY <1>1
<1>3. a <= b  BY <1>1 DEF Half
<1>4. To(r, ny) < To(all, dy)  BY <1>1, <1>2 DEF To
<1> HIDE DEF ny
<1>5. b \in Nat /\ Rank(<<all, dy>>) = b * b + To(all, dy) /\ To(all, dy) \in Int  BY <1>1, RankIs
<1>6. a \in Nat /\ Rank(<<r, ny>>) = a * a + To(r, ny) /\ To(r, ny) \in Int  BY <1>1, <1>2, RankIs
<1>7. <<r, ny>> \in Queries  BY <1>1, <1>2, QueryIs
<1> HIDE DEF a, b
<1>8. a * a <= b * b /\ a * a \in Int /\ b * b \in Int
  <2>1. a * a <= b * a /\ b * a <= b * b  BY <1>3, <1>5, <1>6, TimesMore
  <2>2. b * a \in Int /\ a * a \in Int /\ b * b \in Int  BY <1>5, <1>6
  <2> QED  BY <2>1, <2>2
<1>9. Rank(<<r, ny>>) < Rank(<<all, dy>>)
  <2> DEFINE m == a * a  n == b * b  k == To(r, ny)  l == To(all, dy)
  <2>1. m \in Int /\ n \in Int /\ k \in Int /\ l \in Int /\ m <= n /\ k < l
        /\ Rank(<<r, ny>>) = m + k /\ Rank(<<all, dy>>) = n + l  BY <1>4, <1>5, <1>6, <1>8
  <2> HIDE DEF m, n, k, l
  <2>2. m + k < n + l  BY <2>1
  <2> QED  BY <2>1, <2>2
<1> QED  BY <1>3, <1>7, <1>9 DEF ny, a, b

\* The query that Entered makes, if it makes one.
LEMMA EnteredRank ==
  ASSUME NEW all, IsRect(all), NEW dy \in Int, all.y <= dy, NEW r, IsRect(r), Half(r) <= Half(all), NEW e, Smaller(r, e), Area(e) # 0
  PROVE  IsRect(e) /\ <<e, e.y>> \in Queries /\ Rank(<<e, e.y>>) < Rank(<<all, dy>>)
<1>1. e = Rect(e.x, e.y, e.w, e.h) /\ e.x \in Int /\ e.y \in Int /\ e.w \in Nat /\ e.h \in Nat /\ e.w + e.h < r.w + r.h
  BY DEF Smaller
<1>2. e.w # 0 /\ e.h # 0  BY <1>1 DEF Area
<1>3. IsRect(e)  BY <1>1, <1>2 DEF IsRect
<1>4. Half(e) < Half(all)
  <2>1. Half(r) \in Int /\ Half(all) \in Int /\ Half(e) \in Int
    <3>1. r.w \in Int /\ r.h \in Int /\ all.w \in Int /\ all.h \in Int  BY DEF IsRect
    <3> QED  BY <1>1, <3>1 DEF Half
  <2>2. Half(e) < Half(r)  BY <1>1 DEF Half
  <2> QED  BY <2>1, <2>2
<1> QED  BY <1>3, <1>4, RankSmaller

LEMMA EnteredAgree ==
  ASSUME NEW g, NEW h, NEW all, IsRect(all), NEW dy \in Int, all.y <= dy, Agree(g, h, Rank(<<all, dy>>)),
         NEW r, IsRect(r), Half(r) <= Half(all), NEW e, Smaller(r, e)
  PROVE  Entered(g, e) = Entered(h, e)
<1>1. CASE Area(e) = 0  BY <1>1 DEF Entered
<1>2. CASE Area(e) # 0
  <2> DEFINE q == <<e, e.y>>
  <2>1. q \in Queries /\ Rank(q) < Rank(<<all, dy>>)  BY <1>2, EnteredRank
  <2>2. Entered(g, e) = (IF Area(e) = 0 THEN <<>> ELSE IF Area(e) < MinSplitRect THEN Flush(e) \o Simple(e) ELSE Flush(e) \o g[q])
        /\ Entered(h, e) = (IF Area(e) = 0 THEN <<>> ELSE IF Area(e) < MinSplitRect THEN Flush(e) \o Simple(e) ELSE Flush(e) \o h[q])
    BY DEF Entered
  <2> HIDE DEF q
  <2>3. g[q] = h[q]  BY <2>1 DEF Agree
  <2> QED  BY <2>2, <2>3
<1> QED  BY <1>1, <1>2

\* What is searched depends on what ranks below it only.
LEMMA SearchedAgree ==
  ASSUME NEW g, NEW h, NEW pic, NEW q \in Queries, Agree(g, h, Rank(q))
  PROVE  Searched(g, pic, q[1], q[2]) = Searched(h, pic, q[1], q[2])
<1> DEFINE all == q[1]  dy == q[2]  r == RestOf(all, dy)  F == FoundIn(pic, r, dy)  s == SolidOf(pic, r, dy)
           ny == dy + MaxSplitTile
<1>1. q = <<all, dy>>  BY DEF Queries
<1> HIDE DEF all, dy
<1>2. IsRect(all) /\ dy \in Int /\ all.y <= dy  BY <1>1, QueryIs
<1>3. Agree(g, h, Rank(<<all, dy>>))  BY <1>1
<1>4. CASE dy >= all.y + all.h  BY <1>4, SearchedIs DEF all, dy
<1>5. ASSUME ~(dy >= all.y + all.h) PROVE Searched(g, pic, all, dy) = Searched(h, pic, all, dy)
  <2>1. dy < all.y + all.h
    <3>1. all.y \in Int /\ all.h \in Int  BY <1>2 DEF IsRect
    <3> QED  BY <1>2, <1>5, <3>1
  <2>2. IsRest(all, dy, r)  BY <1>2, <2>1, RestIs
  <2> HIDE DEF r
  <2>3. <<r, ny>> \in Queries /\ Rank(<<r, ny>>) < Rank(<<all, dy>>) /\ Half(r) <= Half(all)
    BY <1>2, <2>1, <2>2, RankNext
  <2>4. g[<<r, ny>>] = h[<<r, ny>>]  BY <1>3, <2>3 DEF Agree
  <2>5. IsRect(r) /\ r.y <= dy /\ dy < r.y + r.h  BY <2>2 DEF IsRest
  <2> DEFINE left == LeftOf(r, s)  right == RightOf(r, s)  below == Below(r, s)
  <2>6. ASSUME F # {}
        PROVE Entered(g, left) = Entered(h, left) /\ Entered(g, right) = Entered(h, right) /\ Entered(g, below) = Entered(h, below)
    <3>1. SolidIn(pic, r, s)  BY <1>2, <2>5, <2>6, FoundIs DEF SolidOf
    <3> HIDE DEF s
    <3>2. Smaller(r, left) /\ Smaller(r, right) /\ Smaller(r, below)  BY <2>5, <3>1, RestsAre DEF SolidIn
    <3> HIDE DEF left, right, below
    <3>3. Entered(g, left) = Entered(h, left)  BY <1>2, <1>3, <2>3, <2>5, <3>2, EnteredAgree
    <3>4. Entered(g, right) = Entered(h, right)  BY <1>2, <1>3, <2>3, <2>5, <3>2, EnteredAgree
    <3>5. Entered(g, below) = Entered(h, below)  BY <1>2, <1>3, <2>3, <2>5, <3>2, EnteredAgree
    <3> QED  BY <3>3, <3>4, <3>5
  <2>7. Searched(g, pic, all, dy)
          = IF dy >= all.y + all.h THEN Simple(all) ELSE IF F = {} THEN SentOf(all, dy) \o g[<<r, ny>>]
            ELSE SentOf(all, dy) \o AboveOf(r, s) \o Entered(g, left) \o SolidOne(s) \o Entered(g, right) \o Entered(g, below)
    BY SearchedIs DEF r
  <2>8. Searched(h, pic, all, dy)
          = IF dy >= all.y + all.h THEN Simple(all) ELSE IF F = {} THEN SentOf(all, dy) \o h[<<r, ny>>]
            ELSE SentOf(all, dy) \o AboveOf(r, s) \o Entered(h, left) \o SolidOne(s) \o Entered(h, right) \o Entered(h, below)
    BY SearchedIs DEF r
  <2> HIDE DEF left, right, below, s, F, ny
  <2>9. CASE F = {}  BY <2>4, <2>7, <2>8, <2>9
  <2>10. CASE F # {}  BY <2>6, <2>7, <2>8, <2>10
  <2> QED  BY <2>9, <2>10
<1> QED  BY <1>4, <1>5 DEF all, dy

LEMMA RankNat ==
  ASSUME NEW q \in Queries
  PROVE  Rank(q) \in Nat
<1> DEFINE r == q[1]  dy == q[2]
<1>1. q = <<r, dy>>  BY DEF Queries
<1> HIDE DEF r, dy
<1>2. IsRect(r) /\ dy \in Int /\ r.y <= dy  BY <1>1, QueryIs
<1> QED  BY <1>1, <1>2, RankIs

LEMMA RightAgree ==
  ASSUME NEW pic, NEW g, NEW h, NEW n \in Nat, Right(pic, g, n), Right(pic, h, n)
  PROVE  Agree(g, h, n)
<1> DEFINE Q == {k \in 0 .. n : Agree(g, h, k)}
<1>1. 0 \in Q
  <2>1. \A q \in Queries : ~(Rank(q) < 0)  BY RankNat
  <2> QED  BY <2>1 DEF Agree
<1>2. ASSUME NEW k \in 0 .. n - 1, k \in Q PROVE k + 1 \in Q
  <2>1. ASSUME NEW q \in Queries, Rank(q) < k + 1 PROVE g[q] = h[q]
    <3>1. Rank(q) \in Nat /\ Rank(q) <= k /\ Rank(q) < n  BY <2>1, RankNat
    <3>2. g[q] = Searched(g, pic, q[1], q[2]) /\ h[q] = Searched(h, pic, q[1], q[2])  BY <3>1 DEF Right
    <3>3. Agree(g, h, Rank(q))
      <4>1. Agree(g, h, k)  BY <1>2
      <4>2. ASSUME NEW p \in Queries, Rank(p) < Rank(q) PROVE Rank(p) < k  BY <3>1, <4>2, RankNat
      <4> QED  BY <4>1, <4>2 DEF Agree
    <3> QED  BY <3>2, <3>3, SearchedAgree
  <2>2. Agree(g, h, k + 1)  BY <2>1 DEF Agree
  <2> QED  BY <2>2
<1>3. \A k \in 0 .. n : k \in Q
  <2> HIDE DEF Q
  <2> QED  BY <1>1, <1>2, Reached
<1> QED  BY <1>3

\* So the search ends, and Search is what its definition says.
LEMMA RightExists ==
  ASSUME NEW pic, NEW n \in Nat
  PROVE  \E g : Right(pic, g, n)
<1> DEFINE Q == {k \in 0 .. n : \E g : Right(pic, g, k)}
<1>1. 0 \in Q
  <2>1. \A q \in Queries : ~(Rank(q) < 0)  BY RankNat
  <2>2. Right(pic, 0, 0)  BY <2>1 DEF Right
  <2> QED  BY <2>2
<1>2. ASSUME NEW k \in 0 .. n - 1, k \in Q PROVE k + 1 \in Q
  <2>1. PICK f : Right(pic, f, k)  BY <1>2
  <2> DEFINE g == [q \in Queries |-> IF Rank(q) < k THEN f[q] ELSE Searched(f, pic, q[1], q[2])]
  <2>2. \A q \in Queries : g[q] = IF Rank(q) < k THEN f[q] ELSE Searched(f, pic, q[1], q[2])  OBVIOUS
  <2> HIDE DEF g
  <2>3. ASSUME NEW q \in Queries, Rank(q) < k + 1 PROVE g[q] = Searched(g, pic, q[1], q[2])
    <3>1. Rank(q) \in Nat /\ Rank(q) <= k  BY <2>3, RankNat
    <3>2. Agree(f, g, Rank(q))
      <4>1. ASSUME NEW p \in Queries, Rank(p) < Rank(q) PROVE f[p] = g[p]
        <5>1. Rank(p) < k  BY <3>1, <4>1, RankNat
        <5> QED  BY <2>2, <5>1
      <4> QED  BY <4>1 DEF Agree
    <3>3. Searched(f, pic, q[1], q[2]) = Searched(g, pic, q[1], q[2])  BY <3>2, SearchedAgree
    <3>4. g[q] = Searched(f, pic, q[1], q[2])
      <4>1. CASE Rank(q) < k  BY <2>1, <2>2, <4>1 DEF Right
      <4>2. CASE ~(Rank(q) < k)  BY <2>2, <4>2
      <4> QED  BY <4>1, <4>2
    <3> QED  BY <3>3, <3>4
  <2>4. Right(pic, g, k + 1)  BY <2>3 DEF Right
  <2>5. k + 1 \in 0 .. n  OBVIOUS
  <2> QED  BY <2>4, <2>5
<1>3. \A k \in 0 .. n : k \in Q
  <2> HIDE DEF Q
  <2> QED  BY <1>1, <1>2, Reached
<1> QED  BY <1>3

\* The search ends: there is a function as Search defines it.
LEMMA SearchIs ==
  ASSUME NEW pic, NEW q \in Queries
  PROVE  Search(pic)[q] = Searched(Search(pic), pic, q[1], q[2])
<1> DEFINE F(n) == CHOOSE g : Right(pic, g, n)
           G == [p \in Queries |-> F(Rank(p) + 1)[p]]
           Is(g) == g = [p \in Queries |-> Searched(g, pic, p[1], p[2])]
<1>1. \A n \in Nat : Right(pic, F(n), n)  BY RightExists
<1>2. \A p \in Queries : G[p] = F(Rank(p) + 1)[p]  OBVIOUS
<1>3. G = [p \in Queries |-> G[p]]  OBVIOUS
<1> HIDE DEF F, G
<1>4. ASSUME NEW p \in Queries PROVE G[p] = Searched(G, pic, p[1], p[2])
  <2> DEFINE n == Rank(p) + 1  f == F(n)
  <2>1. Rank(p) \in Nat /\ n \in Nat /\ Rank(p) < n  BY RankNat
  <2>2. Right(pic, f, n)  BY <1>1, <2>1
  <2>3. G[p] = f[p]  BY <1>2
  <2> HIDE DEF f
  <2>4. f[p] = Searched(f, pic, p[1], p[2])  BY <2>1, <2>2 DEF Right
  <2>5. Agree(f, G, Rank(p))
    <3>1. ASSUME NEW o \in Queries, Rank(o) < Rank(p) PROVE f[o] = G[o]
      <4> DEFINE m == Rank(o) + 1  h == F(m)
      <4>1. Rank(o) \in Nat /\ m \in Nat /\ Rank(o) < m /\ m <= n  BY <2>1, <3>1, RankNat
      <4>2. Right(pic, h, m)  BY <1>1, <4>1
      <4>3. G[o] = h[o]  BY <1>2
      <4>4. ASSUME NEW i \in Queries, Rank(i) < m PROVE Rank(i) < n  BY <2>1, <4>1, <4>4, RankNat
      <4> HIDE DEF h, m, n
      <4>5. Right(pic, f, m)  BY <2>2, <4>4 DEF Right
      <4>6. Agree(f, h, m)  BY <4>1, <4>2, <4>5, RightAgree
      <4> QED  BY <4>1, <4>3, <4>6 DEF Agree
    <3> QED  BY <3>1 DEF Agree
  <2>6. Searched(f, pic, p[1], p[2]) = Searched(G, pic, p[1], p[2])  BY <2>5, SearchedAgree
  <2> QED  BY <2>3, <2>4, <2>6
<1>5. Is(G)  BY <1>3, <1>4
<1>6. Search(pic) = CHOOSE g : Is(g)  BY DEF Search, Queries
<1> HIDE DEF Is
<1>7. Is(Search(pic))  BY <1>5, <1>6
<1> QED  BY <1>7 DEF Is

-----------------------------------------------------------------------------
(* Tight: what the search makes of a rectangle covers it. *)

LEMMA CatIs ==
  ASSUME NEW s, IsSeq(s), NEW t, IsSeq(t)
  PROVE  /\ IsSeq(s \o t) /\ Len(s) \in Nat /\ Len(t) \in Nat /\ Len(s \o t) = Len(s) + Len(t)
         /\ \A i \in 1 .. Len(s) : (s \o t)[i] = s[i]
         /\ \A i \in 1 .. Len(t) : (s \o t)[Len(s) + i] = t[i]
<1>1. PICK A : s \in Seq(A)  BY DEF IsSeq
<1>2. PICK B : t \in Seq(B)  BY DEF IsSeq
<1> DEFINE S == A \cup B
<1>3. s \in Seq(S) /\ t \in Seq(S)  BY <1>1, <1>2
<1> HIDE DEF S
<1>4. s \o t \in Seq(S) /\ Len(s) \in Nat /\ Len(t) \in Nat /\ Len(s \o t) = Len(s) + Len(t)  BY <1>3
<1>5. \A i \in 1 .. Len(s) : (s \o t)[i] = s[i]  BY <1>3, <1>4
<1>6. ASSUME NEW i \in 1 .. Len(t) PROVE (s \o t)[Len(s) + i] = t[i]
  <2> DEFINE j == Len(s) + i
  <2>1. j \in 1 .. Len(s) + Len(t) /\ j > Len(s) /\ j - Len(s) = i  BY <1>4
  <2> HIDE DEF j
  <2>2. (s \o t)[j] = t[j - Len(s)]  BY <1>3, <1>4, <2>1
  <2> QED  BY <2>1, <2>2 DEF j
<1> QED  BY <1>4, <1>5, <1>6 DEF IsSeq

\* Parts that cut D, and then E, cut both.
LEMMA CutsBoth ==
  ASSUME NEW scr, NEW T, NEW U, NEW C, NEW D, Cuts(scr, T, C), Cuts(scr, U, D)
  PROVE  Cuts(scr, T \o U, C \cup D)
<1> DEFINE m == Len(T)  n == Len(U)  V == T \o U
<1>1. IsSeq(T) /\ IsSeq(U)  BY DEF Cuts
<1>2. /\ IsSeq(V) /\ m \in Nat /\ n \in Nat /\ Len(V) = m + n
      /\ \A i \in 1 .. m : V[i] = T[i]
      /\ \A i \in 1 .. n : V[m + i] = U[i]  BY <1>1, CatIs
<1>3. /\ \A i \in 1 .. m : GoodPart(scr, T[i])
      /\ \A i \in 1 .. n : GoodPart(scr, U[i])
      /\ \A p : p \in C <=> \E i \in 1 .. m : p \in DrawnBy(T[i])
      /\ \A p : p \in D <=> \E i \in 1 .. n : p \in DrawnBy(U[i])  BY DEF Cuts
<1> HIDE DEF m, n, V
<1>4. ASSUME NEW i \in 1 .. m + n
      PROVE  (i \in 1 .. m /\ V[i] = T[i]) \/ (\E j \in 1 .. n : i = m + j /\ V[i] = U[j])
  <2>1. CASE i <= m  BY <1>2, <2>1
  <2>2. CASE i > m
    <3> DEFINE j == i - m
    <3>1. j \in 1 .. n /\ i = m + j  BY <1>2, <2>2
    <3> HIDE DEF j
    <3> QED  BY <1>2, <3>1
  <2> QED  BY <1>2, <2>1, <2>2
<1>5. \A i \in 1 .. m + n : GoodPart(scr, V[i])  BY <1>3, <1>4
<1>6. ASSUME NEW p PROVE p \in C \cup D <=> \E i \in 1 .. m + n : p \in DrawnBy(V[i])
  <2>1. ASSUME p \in C PROVE \E i \in 1 .. m + n : p \in DrawnBy(V[i])
    <3>1. PICK i \in 1 .. m : p \in DrawnBy(T[i])  BY <1>3, <2>1
    <3>2. i \in 1 .. m + n /\ V[i] = T[i]  BY <1>2
    <3> QED  BY <3>1, <3>2
  <2>2. ASSUME p \in D PROVE \E i \in 1 .. m + n : p \in DrawnBy(V[i])
    <3>1. PICK i \in 1 .. n : p \in DrawnBy(U[i])  BY <1>3, <2>2
    <3>2. m + i \in 1 .. m + n /\ V[m + i] = U[i]  BY <1>2
    <3> QED  BY <3>1, <3>2
  <2>3. ASSUME NEW i \in 1 .. m + n, p \in DrawnBy(V[i]) PROVE p \in C \cup D  BY <1>3, <1>4, <2>3
  <2> QED  BY <2>1, <2>2, <2>3
<1> QED  BY <1>2, <1>5, <1>6 DEF Cuts, V, m, n

LEMMA CutsOne ==
  ASSUME NEW scr, NEW r
  PROVE  /\ Cuts(scr, <<>>, {}) /\ Cuts(scr, Flush(r), {})
         /\ On(r) => Cuts(scr, Simple(r), Points(r))
         /\ On(r) /\ OneColour(scr, r) => Cuts(scr, SolidOne(r), Points(r))
<1>1. ASSUME NEW k \in {"flush", "simple", "solid"}, GoodPart(scr, <<k, r>>)
      PROVE Cuts(scr, <<<<k, r>>>>, IF k = "flush" THEN {} ELSE Points(r))
  <2> DEFINE e == <<k, r>>  T == <<e>>
  <2>1. e[1] = k /\ e[2] = r  OBVIOUS
  <2>2. DrawnBy(e) = IF k = "flush" THEN {} ELSE Points(r)  BY <2>1 DEF DrawnBy
  <2> HIDE DEF e
  <2>3. T \in Seq({e}) /\ Len(T) = 1 /\ T[1] = e  OBVIOUS
  <2>4. IsSeq(T)  BY <2>3 DEF IsSeq
  <2>5. GoodPart(scr, e)  BY <1>1 DEF e
  <2> HIDE DEF T
  <2>6. \A i \in 1 .. Len(T) : i = 1  BY <2>3
  <2>7. 1 \in 1 .. Len(T)  BY <2>3
  <2>8. Cuts(scr, T, DrawnBy(e))  BY <2>3, <2>4, <2>5, <2>6, <2>7 DEF Cuts
  <2> QED  BY <2>2, <2>8 DEF T, e
<1>2. GoodPart(scr, <<"flush", r>>)  BY DEF GoodPart
<1>3. On(r) => GoodPart(scr, <<"simple", r>>)  BY DEF GoodPart
<1>4. On(r) /\ OneColour(scr, r) => GoodPart(scr, <<"solid", r>>)  BY DEF GoodPart
<1>5. Cuts(scr, <<>>, {})
  <2> DEFINE T == <<>>
  <2>1. T \in Seq({}) /\ Len(T) = 0  OBVIOUS
  <2>2. IsSeq(T)  BY <2>1 DEF IsSeq
  <2>3. \A i \in 1 .. Len(T) : FALSE  BY <2>1
  <2> HIDE DEF T
  <2>4. Cuts(scr, T, {})  BY <2>2, <2>3 DEF Cuts
  <2> QED  BY <2>4 DEF T
<1>6. Cuts(scr, Flush(r), {})  BY <1>1, <1>2 DEF Flush
<1>7. On(r) => Cuts(scr, Simple(r), Points(r))  BY <1>1, <1>3 DEF Simple
<1>8. On(r) /\ OneColour(scr, r) => Cuts(scr, SolidOne(r), Points(r))  BY <1>1, <1>4 DEF SolidOne
<1> QED  BY <1>5, <1>6, <1>7, <1>8

LEMMA EnteredCuts ==
  ASSUME NEW scr, NEW g, NEW e, e.x \in Int, e.y \in Int, e.w \in Nat, e.h \in Nat,
         Area(e) # 0 => On(e) /\ Cuts(scr, g[<<e, e.y>>], Points(e))
  PROVE  Cuts(scr, Entered(g, e), Points(e))
<1> DEFINE P == Points(e)  f == Flush(e)  s == Simple(e)  t == g[<<e, e.y>>]
<1>1. CASE Area(e) = 0
  <2>1. e.w = 0 \/ e.h = 0  BY <1>1 DEF Area
  <2>2. P = {}
    <3>1. \A p : p \notin P  BY <2>1, PointsOf
    <3> HIDE DEF P
    <3> QED  BY <3>1
  <2>3. Entered(g, e) = <<>>  BY <1>1 DEF Entered
  <2> HIDE DEF P
  <2>4. Cuts(scr, Entered(g, e), P)  BY <2>2, <2>3, CutsOne
  <2> QED  BY <2>4 DEF P
<1>2. CASE Area(e) # 0
  <2>1. On(e) /\ Cuts(scr, t, P)  BY <1>2
  <2>2. Cuts(scr, f, {}) /\ Cuts(scr, s, P)  BY <2>1, CutsOne
  <2>3. Entered(g, e) = IF Area(e) < MinSplitRect THEN f \o s ELSE f \o t  BY <1>2 DEF Entered
  <2>4. {} \cup P = P  OBVIOUS
  <2> HIDE DEF P, f, s, t
  <2>5. Cuts(scr, f \o s, {} \cup P) /\ Cuts(scr, f \o t, {} \cup P)  BY <2>1, <2>2, CutsBoth
  <2>6. Cuts(scr, Entered(g, e), P)  BY <2>3, <2>4, <2>5
  <2> QED  BY <2>6 DEF P
<1> QED  BY <1>1, <1>2

\* The points of a rectangle around one within it.
LEMMA AroundPoints ==
  ASSUME NEW r, IsRect(r), NEW s, IsRect(s), Within(s, r)
  PROVE  Points(r) = (IF s.y = r.y THEN {} ELSE Points(Rect(r.x, r.y, r.w, s.y - r.y)))
                       \cup Points(LeftOf(r, s)) \cup Points(s) \cup Points(RightOf(r, s)) \cup Points(Below(r, s))
<1> DEFINE a == Rect(r.x, r.y, r.w, s.y - r.y)  b == LeftOf(r, s)  c == RightOf(r, s)  d == Below(r, s)
           A == IF s.y = r.y THEN {} ELSE Points(a)
<1>1. /\ r.x \in Int /\ r.y \in Int /\ r.w \in Nat \ {0} /\ r.h \in Nat \ {0}
      /\ s.x \in Int /\ s.y \in Int /\ s.w \in Nat \ {0} /\ s.h \in Nat \ {0}
      /\ r.x <= s.x /\ r.y <= s.y /\ s.x + s.w <= r.x + r.w /\ s.y + s.h <= r.y + r.h  BY DEF IsRect, Within
<1>2. a.x = r.x /\ a.y = r.y /\ a.w = r.w /\ a.h = s.y - r.y  BY RectFields
<1>3. b.x = r.x /\ b.y = s.y /\ b.w = s.x - r.x /\ b.h = s.h  BY RectFields DEF LeftOf
<1>4. c.x = s.x + s.w /\ c.y = s.y /\ c.w = r.x + r.w - s.x - s.w /\ c.h = s.h  BY RectFields DEF RightOf
<1>5. d.x = r.x /\ d.y = s.y + s.h /\ d.w = r.w /\ d.h = r.h - (s.y - r.y) - s.h  BY RectFields DEF Below
<1> DEFINE Is(p) == p = <<p[1], p[2]>> /\ p[1] \in Int /\ p[2] \in Int
           In(p, x1, x2, y1, y2) == x1 <= p[1] /\ p[1] < x2 /\ y1 <= p[2] /\ p[2] < y2
<1> HIDE DEF a, b, c, d
<1>6. \A p : p \in Points(r) <=> Is(p) /\ In(p, r.x, r.x + r.w, r.y, r.y + r.h)  BY <1>1, PointsOf
<1>7. \A p : p \in Points(s) <=> Is(p) /\ In(p, s.x, s.x + s.w, s.y, s.y + s.h)  BY <1>1, PointsOf
<1>8. \A p : p \in Points(a) <=> Is(p) /\ In(p, r.x, r.x + r.w, r.y, s.y)
  <2>1. a.x \in Int /\ a.y \in Int /\ a.w \in Int /\ a.h \in Int /\ a.x + a.w = r.x + r.w /\ a.y + a.h = s.y
    BY <1>1, <1>2
  <2>2. \A p : p \in Points(a) <=> Is(p) /\ In(p, a.x, a.x + a.w, a.y, a.y + a.h)  BY <2>1, PointsOf
  <2> QED  BY <1>2, <2>1, <2>2
<1>9. \A p : p \in Points(b) <=> Is(p) /\ In(p, r.x, s.x, s.y, s.y + s.h)
  <2>1. b.x \in Int /\ b.y \in Int /\ b.w \in Int /\ b.h \in Int /\ b.x + b.w = s.x /\ b.y + b.h = s.y + s.h
    BY <1>1, <1>3
  <2>2. \A p : p \in Points(b) <=> Is(p) /\ In(p, b.x, b.x + b.w, b.y, b.y + b.h)  BY <2>1, PointsOf
  <2> QED  BY <1>3, <2>1, <2>2
<1>10. \A p : p \in Points(c) <=> Is(p) /\ In(p, s.x + s.w, r.x + r.w, s.y, s.y + s.h)
  <2>1. c.x \in Int /\ c.y \in Int /\ c.w \in Int /\ c.h \in Int  BY <1>1, <1>4
  <2>3. c.x + c.w = r.x + r.w /\ c.y + c.h = s.y + s.h  BY <1>1, <1>4
  <2>2. \A p : p \in Points(c) <=> Is(p) /\ In(p, c.x, c.x + c.w, c.y, c.y + c.h)  BY <2>1, PointsOf
  <2> QED  BY <1>4, <2>3, <2>2
<1>11. \A p : p \in Points(d) <=> Is(p) /\ In(p, r.x, r.x + r.w, s.y + s.h, r.y + r.h)
  <2>1. d.x \in Int /\ d.y \in Int /\ d.w \in Int /\ d.h \in Int  BY <1>1, <1>5
  <2>3. d.x + d.w = r.x + r.w /\ d.y + d.h = r.y + r.h  BY <1>1, <1>5
  <2>2. \A p : p \in Points(d) <=> Is(p) /\ In(p, d.x, d.x + d.w, d.y, d.y + d.h)  BY <2>1, PointsOf
  <2> QED  BY <1>5, <2>3, <2>2
<1>12. ASSUME NEW p PROVE p \in Points(r) <=> p \in A \/ p \in Points(b) \/ p \in Points(s) \/ p \in Points(c) \/ p \in Points(d)
  <2>1. p \in A <=> Is(p) /\ In(p, r.x, r.x + r.w, r.y, s.y)
    <3>1. CASE s.y = r.y  BY <1>1, <3>1
    <3>2. CASE s.y # r.y  BY <1>8, <3>2
    <3> QED  BY <3>1, <3>2
  <2> HIDE DEF A
  <2>2. Is(p) => (In(p, r.x, r.x + r.w, r.y, r.y + r.h)
          <=> \/ In(p, r.x, r.x + r.w, r.y, s.y) \/ In(p, r.x, s.x, s.y, s.y + s.h) \/ In(p, s.x, s.x + s.w, s.y, s.y + s.h)
              \/ In(p, s.x + s.w, r.x + r.w, s.y, s.y + s.h) \/ In(p, r.x, r.x + r.w, s.y + s.h, r.y + r.h))  BY <1>1
  <2> HIDE DEF Is, In
  <2> QED  BY <1>6, <1>7, <1>9, <1>10, <1>11, <2>1, <2>2
<1> HIDE DEF A
<1>13. Points(r) = A \cup Points(b) \cup Points(s) \cup Points(c) \cup Points(d)  BY <1>12
<1> QED  BY <1>13 DEF A, a, b, c, d

LEMMA AboveCuts ==
  ASSUME NEW scr, NEW r, On(r), NEW s, IsRect(s), Within(s, r)
  PROVE  Cuts(scr, AboveOf(r, s), IF s.y = r.y THEN {} ELSE Points(Rect(r.x, r.y, r.w, s.y - r.y)))
<1> DEFINE h == s.y - r.y  a == Rect(r.x, r.y, r.w, h)
<1>1. /\ IsRect(r) /\ r.x \in Int /\ r.y \in Int /\ r.w \in Nat \ {0} /\ r.h \in Nat \ {0}
      /\ s.y \in Int /\ s.h \in Nat \ {0} /\ r.y <= s.y /\ s.y + s.h <= r.y + r.h  BY DEF On, IsRect, Within
<1>2. CASE s.y = r.y  BY <1>2, CutsOne DEF AboveOf
<1>3. CASE s.y # r.y
  <2>1. h \in Nat \ {0} /\ r.y + h <= r.y + r.h  BY <1>1, <1>3
  <2>2. AboveOf(r, s) = Simple(a)  BY <1>3 DEF AboveOf
  <2> HIDE DEF h
  <2>3. IsRect(a)  BY <1>1, <2>1, RectIs
  <2>4. a.x = r.x /\ a.y = r.y /\ a.w = r.w /\ a.h = h  BY RectFields
  <2> HIDE DEF a
  <2>5. Within(a, r)  BY <1>1, <2>1, <2>4 DEF Within
  <2>6. On(a)  BY <2>3, <2>5, OnWithin
  <2>7. Cuts(scr, AboveOf(r, s), Points(a))  BY <2>2, <2>6, CutsOne
  <2> QED  BY <1>3, <2>7 DEF a, h
<1> QED  BY <1>2, <1>3

\* What the search makes of a part covers that part.
LEMMA PartCuts ==
  ASSUME NEW scr, NEW g, NEW all, IsRect(all), NEW dy \in Int, all.y <= dy, CutsBelow(scr, g, all, dy),
         NEW r, On(r), Half(r) <= Half(all), NEW e, Smaller(r, e)
  PROVE  Cuts(scr, Entered(g, e), Points(e))
<1>1. IsRect(r)  BY DEF On
<1>2. ASSUME Area(e) # 0 PROVE On(e) /\ Cuts(scr, g[<<e, e.y>>], Points(e))
  <2> DEFINE q == <<e, e.y>>
  <2>1. IsRect(e) /\ q \in Queries /\ Rank(q) < Rank(<<all, dy>>)  BY <1>1, <1>2, EnteredRank
  <2>2. On(e)  BY <2>1, OnWithin DEF Smaller
  <2>3. q[1] = e  OBVIOUS
  <2> HIDE DEF q
  <2>4. Cuts(scr, g[q], Points(e))  BY <2>1, <2>2, <2>3 DEF CutsBelow
  <2> QED  BY <2>2, <2>4 DEF q
<1>3. e.x \in Int /\ e.y \in Int /\ e.w \in Nat /\ e.h \in Nat  BY DEF Smaller
<1> QED  BY <1>2, <1>3, EnteredCuts

LEMMA SearchedCuts ==
  ASSUME NEW scr, NEW g, NEW all, On(all), NEW dy \in Int, all.y <= dy, CutsBelow(scr, g, all, dy)
  PROVE  Cuts(scr, Searched(g, scr, all, dy), Points(all))
<1> DEFINE r == RestOf(all, dy)  F == FoundIn(scr, r, dy)  s == SolidOf(scr, r, dy)  ny == dy + MaxSplitTile
           k == SubrectMaxHeight(all.w)  up == Rect(all.x, all.y, all.w, k)
           S == IF dy - all.y >= k THEN Points(up) ELSE {}
           sent == SentOf(all, dy)  P == Points(r)
<1>1. IsRect(all) /\ all.x \in Int /\ all.y \in Int /\ all.w \in Nat \ {0} /\ all.h \in Nat \ {0}  BY DEF On, IsRect
<1>2. CASE dy >= all.y + all.h  BY <1>2, SearchedIs, CutsOne
<1>3. ASSUME ~(dy >= all.y + all.h) PROVE Cuts(scr, Searched(g, scr, all, dy), Points(all))
  <2>1. dy < all.y + all.h  BY <1>1, <1>3
  <2>2. k \in Nat \ {0}  BY <1>1, SubrectHeightIs
  <2>3. IsRest(all, dy, r)  BY <1>1, <2>1, RestIs
  <2>4. r = IF dy - all.y >= k THEN Rect(all.x, all.y + k, all.w, all.h - k) ELSE all  BY DEF RestOf
  <2>5. sent = IF dy - all.y >= k THEN Simple(up) ELSE <<>>  BY DEF SentOf
  <2> HIDE DEF k
  <2>6. Cuts(scr, sent, S) /\ Points(all) = S \cup P
    <3>1. ASSUME dy - all.y >= k PROVE Cuts(scr, sent, S) /\ Points(all) = S \cup P
      <4>1. up.x = all.x /\ up.y = all.y /\ up.w = all.w /\ up.h = k  BY RectFields
      <4>2. IsRect(up)  BY <1>1, <2>2, RectIs
      <4>3. k <= all.h /\ all.y + k \in Int /\ all.h - k \in Int  BY <1>1, <2>1, <2>2, <3>1
      <4>4. r.x = all.x /\ r.y = all.y + k /\ r.w = all.w /\ r.h = all.h - k
        <5> DEFINE y == all.y + k  h == all.h - k
        <5>1. r = Rect(all.x, y, all.w, h)  BY <2>4, <3>1
        <5> HIDE DEF y, h, r
        <5>2. r.x = all.x /\ r.y = y /\ r.w = all.w /\ r.h = h  BY <5>1, RectFields
        <5> QED  BY <5>2 DEF y, h
      <4> HIDE DEF up, r, sent
      <4>5. Within(up, all)  BY <1>1, <2>2, <4>1, <4>3 DEF Within
      <4>6. On(up)  BY <4>2, <4>5, OnWithin
      <4>7. sent = Simple(up) /\ S = Points(up)  BY <2>5, <3>1
      <4>8. Cuts(scr, sent, S)  BY <4>6, <4>7, CutsOne
      <4>9. \A p : p \in Points(up) <=> /\ p = <<p[1], p[2]>> /\ p[1] \in Int /\ p[2] \in Int
                     /\ all.x <= p[1] /\ p[1] < all.x + all.w /\ all.y <= p[2] /\ p[2] < all.y + k
        <5>1. up.x \in Int /\ up.y \in Int /\ up.w \in Int /\ up.h \in Int  BY <1>1, <2>2, <4>1
        <5> QED  BY <4>1, <5>1, PointsOf
      <4>10. \A p : p \in P <=> /\ p = <<p[1], p[2]>> /\ p[1] \in Int /\ p[2] \in Int
                     /\ all.x <= p[1] /\ p[1] < all.x + all.w /\ all.y + k <= p[2] /\ p[2] < all.y + all.h
        <5>1. r.x \in Int /\ r.y \in Int /\ r.w \in Int /\ r.h \in Int /\ r.y + r.h = all.y + all.h
          BY <1>1, <2>2, <4>3, <4>4
        <5>2. \A p : p \in P <=> /\ p = <<p[1], p[2]>> /\ p[1] \in Int /\ p[2] \in Int
                     /\ r.x <= p[1] /\ p[1] < r.x + r.w /\ r.y <= p[2] /\ p[2] < r.y + r.h  BY <5>1, PointsOf
        <5> QED  BY <4>4, <5>1, <5>2
      <4>11. \A p : p \in Points(all) <=> /\ p = <<p[1], p[2]>> /\ p[1] \in Int /\ p[2] \in Int
                     /\ all.x <= p[1] /\ p[1] < all.x + all.w /\ all.y <= p[2] /\ p[2] < all.y + all.h
        BY <1>1, PointsOf
      <4> HIDE DEF P, S
      <4>12. ASSUME NEW p PROVE p \in Points(all) <=> p \in Points(up) \/ p \in P
        <5>1. p[1] \in Int /\ p[2] \in Int => (all.y <= p[2] /\ p[2] < all.y + all.h
                <=> (all.y <= p[2] /\ p[2] < all.y + k) \/ (all.y + k <= p[2] /\ p[2] < all.y + all.h))
          BY <1>1, <2>2, <4>3
        <5> QED  BY <4>9, <4>10, <4>11, <5>1
      <4> QED  BY <4>7, <4>8, <4>12
    <3>2. ASSUME ~(dy - all.y >= k) PROVE Cuts(scr, sent, S) /\ Points(all) = S \cup P
      <4>1. r = all /\ sent = <<>> /\ S = {}  BY <2>4, <2>5, <3>2
      <4> HIDE DEF r, sent, S
      <4> QED  BY <4>1, CutsOne
    <3> QED  BY <3>1, <3>2
  <2> HIDE DEF r
  <2>7. <<r, ny>> \in Queries /\ Rank(<<r, ny>>) < Rank(<<all, dy>>) /\ Half(r) <= Half(all)
    BY <1>1, <2>1, <2>3, RankNext
  <2>8. IsRect(r) /\ r.y <= dy /\ dy < r.y + r.h /\ Within(r, all)  BY <2>3 DEF IsRest
  <2>9. On(r)  BY <2>8, OnWithin
  <2> DEFINE left == LeftOf(r, s)  right == RightOf(r, s)  below == Below(r, s)  a == AboveOf(r, s)
             A == IF s.y = r.y THEN {} ELSE Points(Rect(r.x, r.y, r.w, s.y - r.y))  one == SolidOne(s)
             el == Entered(g, left)  er == Entered(g, right)  eb == Entered(g, below)
             PL == Points(left)  PR == Points(right)  PB == Points(below)  PS == Points(s)
  <2>10. Searched(g, scr, all, dy)
          = IF dy >= all.y + all.h THEN Simple(all) ELSE IF F = {} THEN sent \o g[<<r, ny>>]
            ELSE sent \o a \o el \o one \o er \o eb  BY SearchedIs DEF r
  <2>11. ASSUME F = {} PROVE Cuts(scr, Searched(g, scr, all, dy), Points(all))
    <3> DEFINE q == <<r, ny>>
    <3>1. q[1] = r  OBVIOUS
    <3>2. Searched(g, scr, all, dy) = sent \o g[q]  BY <1>3, <2>10, <2>11
    <3>3. q \in Queries /\ Rank(q) < Rank(<<all, dy>>)  BY <2>7
    <3> HIDE DEF q
    <3>4. Cuts(scr, g[q], P)  BY <2>9, <3>1, <3>3 DEF CutsBelow
    <3> HIDE DEF P, S, sent
    <3>5. Cuts(scr, sent \o g[q], S \cup P)  BY <2>6, <3>4, CutsBoth
    <3> QED  BY <2>6, <3>2, <3>5
  <2>12. ASSUME F # {} PROVE Cuts(scr, Searched(g, scr, all, dy), Points(all))
    <3>1. SolidIn(scr, r, s)  BY <2>8, <2>12, FoundIs DEF SolidOf
    <3> HIDE DEF s
    <3>2. IsRect(s) /\ Within(s, r) /\ OneColour(scr, s)  BY <3>1 DEF SolidIn
    <3>3. Smaller(r, left) /\ Smaller(r, right) /\ Smaller(r, below)  BY <2>8, <3>2, RestsAre
    <3>4. P = A \cup PL \cup PS \cup PR \cup PB  BY <2>8, <3>2, AroundPoints
    <3>5. Cuts(scr, a, A)  BY <2>9, <3>2, AboveCuts
    <3> HIDE DEF left, right, below, a, A
    <3>6. Cuts(scr, el, PL)  BY <1>1, <2>7, <2>9, <3>3, PartCuts
    <3>7. Cuts(scr, er, PR)  BY <1>1, <2>7, <2>9, <3>3, PartCuts
    <3>8. Cuts(scr, eb, PB)  BY <1>1, <2>7, <2>9, <3>3, PartCuts
    <3>9. Cuts(scr, one, PS)
      <4>1. On(s)  BY <2>9, <3>2, OnWithin
      <4> QED  BY <3>2, <4>1, CutsOne
    <3>10. Searched(g, scr, all, dy) = sent \o a \o el \o one \o er \o eb  BY <1>3, <2>10, <2>12
    <3> HIDE DEF P, S, sent, PL, PR, PB, PS, el, er, eb, one
    <3>11. Cuts(scr, sent \o a, S \cup A)  BY <2>6, <3>5, CutsBoth
    <3>12. Cuts(scr, sent \o a \o el, S \cup A \cup PL)  BY <3>6, <3>11, CutsBoth
    <3>13. Cuts(scr, sent \o a \o el \o one, S \cup A \cup PL \cup PS)  BY <3>9, <3>12, CutsBoth
    <3>14. Cuts(scr, sent \o a \o el \o one \o er, S \cup A \cup PL \cup PS \cup PR)  BY <3>7, <3>13, CutsBoth
    <3>15. Cuts(scr, sent \o a \o el \o one \o er \o eb, S \cup A \cup PL \cup PS \cup PR \cup PB)
      BY <3>8, <3>14, CutsBoth
    <3>16. S \cup A \cup PL \cup PS \cup PR \cup PB = S \cup (A \cup PL \cup PS \cup PR \cup PB)  OBVIOUS
    <3> QED  BY <2>6, <3>4, <3>10, <3>15, <3>16
  <2> QED  BY <2>11, <2>12
<1> QED  BY <1>2, <1>3

\* What the search makes of a rectangle covers it.
LEMMA SearchCuts ==
  ASSUME NEW scr, NEW n \in Nat
  PROVE  \A q \in Queries : Rank(q) <= n /\ On(q[1]) => Cuts(scr, Search(scr)[q], Points(q[1]))
<1> DEFINE g == Search(scr)
           Q == {k \in 0 .. n + 1 : \A q \in Queries : Rank(q) < k /\ On(q[1]) => Cuts(scr, g[q], Points(q[1]))}
<1>1. \A q \in Queries : g[q] = Searched(g, scr, q[1], q[2])  BY SearchIs
<1> HIDE DEF g
<1>2. 0 \in Q
  <2>1. \A q \in Queries : ~(Rank(q) < 0)  BY RankNat
  <2> QED  BY <2>1
<1>3. ASSUME NEW k \in 0 .. n + 1 - 1, k \in Q PROVE k + 1 \in Q
  <2>1. ASSUME NEW q \in Queries, Rank(q) < k + 1, On(q[1]) PROVE Cuts(scr, g[q], Points(q[1]))
    <3> DEFINE all == q[1]  dy == q[2]
    <3>1. q = <<all, dy>>  BY DEF Queries
    <3>2. Rank(q) \in Nat /\ Rank(q) <= k  BY <2>1, RankNat
    <3>3. g[q] = Searched(g, scr, all, dy)  BY <1>1
    <3>4. On(all)  BY <2>1
    <3> HIDE DEF all, dy
    <3>5. IsRect(all) /\ dy \in Int /\ all.y <= dy  BY <3>1, QueryIs
    <3>6. CutsBelow(scr, g, all, dy)
      <4>1. ASSUME NEW p \in Queries, Rank(p) < Rank(<<all, dy>>), On(p[1]) PROVE Cuts(scr, g[p], Points(p[1]))
        <5>1. Rank(p) < k  BY <3>1, <3>2, <4>1, RankNat
        <5> QED  BY <1>3, <4>1, <5>1
      <4> QED  BY <4>1 DEF CutsBelow
    <3>7. Cuts(scr, Searched(g, scr, all, dy), Points(all))  BY <3>4, <3>5, <3>6, SearchedCuts
    <3> QED  BY <3>3, <3>7 DEF all
  <2>2. k + 1 \in 0 .. n + 1  OBVIOUS
  <2> QED  BY <2>1, <2>2
<1>4. n + 1 \in Nat  OBVIOUS
<1> DEFINE m == n + 1
<1>5. \A k \in 0 .. m : k \in Q
  <2>1. \A k \in 0 .. m - 1 : k \in Q => k + 1 \in Q  BY <1>3
  <2>2. m \in Nat  BY <1>4
  <2> HIDE DEF Q, m
  <2> QED  BY <1>2, <2>1, <2>2, Reached
<1>6. n + 1 \in Q  BY <1>5
<1>7. ASSUME NEW q \in Queries, Rank(q) <= n, On(q[1]) PROVE Cuts(scr, g[q], Points(q[1]))
  <2>1. Rank(q) < n + 1  BY <1>7, RankNat
  <2> QED  BY <1>6, <1>7, <2>1
<1> QED  BY <1>7 DEF g

LEMMA TightPartsCut ==
  ASSUME NEW scr, NEW r, On(r), NEW lastRect \in BOOLEAN
  PROVE  Cuts(scr, TightParts(scr, r, lastRect), Points(r))
<1> DEFINE P == Points(r)  f == Flush(r)  s == Simple(r)  q == <<r, r.y>>  g == Search(scr)
<1>1. IsRect(r) /\ r.x \in Int /\ r.y \in Int /\ r.w \in Nat /\ r.h \in Nat /\ r.y <= r.y  BY DEF On, IsRect
<1>2. q \in Queries /\ q[1] = r  BY <1>1, QueryIs
<1> HIDE DEF q
<1>3. Cuts(scr, g[q], P)
  <2> DEFINE n == Rank(q)
  <2>1. n \in Nat /\ n <= n  BY <1>2, RankNat
  <2>2. \A p \in Queries : Rank(p) <= n /\ On(p[1]) => Cuts(scr, g[p], Points(p[1]))
    <3> HIDE DEF n
    <3> QED  BY <2>1, SearchCuts
  <2> QED  BY <1>2, <2>1, <2>2
<1> HIDE DEF g
<1>4. Cuts(scr, Entered(g, r), P)  BY <1>1, <1>3, EnteredCuts DEF q
<1>5. Cuts(scr, f, {}) /\ Cuts(scr, s, P)  BY CutsOne
<1>6. {} \cup P = P  OBVIOUS
<1>7. TightParts(scr, r, lastRect) = IF lastRect THEN Entered(g, r) ELSE f \o s  BY DEF TightParts, g
<1> HIDE DEF P, f, s
<1>8. Cuts(scr, f \o s, {} \cup P)  BY <1>5, CutsBoth
<1>9. Cuts(scr, TightParts(scr, r, lastRect), P)  BY <1>4, <1>6, <1>7, <1>8
<1> QED  BY <1>9 DEF P

\* Each part is sent as it should be.
LEMMA PartServed ==
  ASSUME NEW scr \in Pictures, NEW o, IsOut(o), NEW p, GoodPart(scr, p)
  PROVE  Serve(scr, o, SendPart(o, scr, p), DrawnBy(p))
<1> DEFINE r == p[2]  q == SendPart(o, scr, p)  c == scr[<<r.x, r.y>>]  h == rfbSendTightHeader(o, r)
<1>1. q = IF p[1] = "flush" THEN rfbSendUpdateBuf(o) ELSE IF p[1] = "simple" THEN SendRectSimple(o, scr, r) ELSE SendSolidRect(h, c)
  BY DEF SendPart
<1>2. p[1] \in {"flush", "simple", "solid"} /\ (p[1] # "flush" => On(r)) /\ (p[1] = "solid" => OneColour(scr, r))
  BY DEF GoodPart
<1>3. DrawnBy(p) = IF p[1] = "flush" THEN {} ELSE Points(r)  BY DEF DrawnBy
<1>4. CASE p[1] = "flush"
  <2>1. IsOut(rfbSendUpdateBuf(o)) /\ Quiet(o, rfbSendUpdateBuf(o))  BY FlushIs
  <2>2. Serve(scr, o, rfbSendUpdateBuf(o), {})  BY <2>1, ServeNothing
  <2> QED  BY <1>1, <1>3, <1>4, <2>2
<1>5. CASE p[1] = "simple"
  <2>1. Sends(scr, o, SendRectSimple(o, scr, r), r, SimpleCount(r))  BY <1>2, <1>5, SimpleSent
  <2>2. Serve(scr, o, SendRectSimple(o, scr, r), Points(r))  BY <2>1 DEF Sends
  <2> QED  BY <1>1, <1>3, <1>5, <2>2
<1>6. CASE p[1] = "solid"
  <2>1. \A x \in Points(r) : scr[x] = c  BY <1>2, <1>6 DEF OneColour
  <2> HIDE DEF c, r
  <2>2. Sends(scr, o, SendSolidRect(h, c), r, 1)  BY <2>1, SolidSent
  <2>3. Serve(scr, o, SendSolidRect(h, c), Points(r))  BY <2>2 DEF Sends
  <2> QED  BY <1>1, <1>3, <1>6, <2>3
<1> QED  BY <1>2, <1>4, <1>5, <1>6

\* A rectangle sent with Tight is shown, with the search or without.
LEMMA TightServed ==
  ASSUME NEW scr \in Pictures, NEW o, IsOut(o), NEW r, On(r), NEW lastRect \in BOOLEAN
  PROVE  Serve(scr, o, rfbSendRectEncodingTight(o, scr, r, lastRect), Points(r))
<1> DEFINE T == TightParts(scr, r, lastRect)  n == Len(T)  f == Parting!After(scr, 0, o, T)
           D == [i \in 1 .. n |-> DrawnBy(T[i])]
<1>1. Cuts(scr, T, Points(r))  BY TightPartsCut
<1>2. rfbSendRectEncodingTight(o, scr, r, lastRect) = f[Len(T)]
  BY DEF rfbSendRectEncodingTight, InTurn, Parting!After, PartStep, TightParts
<1> HIDE DEF T
<1>3. IsSeq(T) /\ (\A i \in 1 .. n : GoodPart(scr, T[i])) /\ (\A p : p \in Points(r) <=> \E i \in 1 .. n : p \in DrawnBy(T[i]))
  BY <1>1 DEF Cuts
<1>4. n \in Nat  BY <1>3, Appended
<1>5. f[0] = o /\ \A i \in 1 .. n : f[i] = PartStep(scr, 0, f[i - 1], T[i])
  BY <1>4, Parting!AfterExists, Reached DEF Parting!Upward
<1>6. rfbSendRectEncodingTight(o, scr, r, lastRect) = f[n]  BY <1>2
<1>7. \A i \in 1 .. n : D[i] = DrawnBy(T[i])  OBVIOUS
<1> HIDE DEF f, D, n
<1>8. ASSUME NEW i \in 1 .. n, IsOut(f[i - 1]) PROVE Serve(scr, f[i - 1], f[i], D[i])
  <2>1. f[i] = SendPart(f[i - 1], scr, T[i])  BY <1>5 DEF PartStep
  <2>2. GoodPart(scr, T[i])  BY <1>3
  <2>3. Serve(scr, f[i - 1], SendPart(f[i - 1], scr, T[i]), DrawnBy(T[i]))  BY <1>8, <2>2, PartServed
  <2> QED  BY <1>7, <2>1, <2>3
<1>9. Serve(scr, f[0], f[n], UnionOf(D, n))  BY <1>4, <1>5, <1>8, ServeAll
<1>10. UnionOf(D, n) = Points(r)
  <2> DEFINE P == Points(r)
  <2>1. \A p : p \in P <=> \E i \in 1 .. n : p \in D[i]  BY <1>3, <1>7
  <2> HIDE DEF P
  <2>2. UnionOf(D, n) = P  BY <2>1 DEF UnionOf
  <2> QED  BY <2>2 DEF P
<1> QED  BY <1>5, <1>6, <1>9, <1>10

\* Without the marker of the last rectangle, and for what is too small to be split,
\* the number of rectangles is known.
LEMMA TightSent ==
  ASSUME NEW scr \in Pictures, NEW o, IsOut(o), NEW r, On(r), NEW lastRect \in BOOLEAN,
         ~(lastRect /\ Area(r) >= MinSplitRect)
  PROVE  Sends(scr, o, rfbSendRectEncodingTight(o, scr, r, lastRect), r, SimpleCount(r))
<1> DEFINE T == TightParts(scr, r, lastRect)  f == Parting!After(scr, 0, o, T)  e1 == <<"flush", r>>  e2 == <<"simple", r>>
           p == rfbSendUpdateBuf(o)  q == SendRectSimple(p, scr, r)
<1>1. rfbSendRectEncodingTight(o, scr, r, lastRect) = f[Len(T)]
  BY DEF rfbSendRectEncodingTight, InTurn, Parting!After, PartStep, TightParts
<1>2. T = Flush(r) \o Simple(r)
  <2>1. Area(r) # 0
    <3> DEFINE w == r.w  h == r.h
    <3>1. w \in Nat \ {0} /\ h \in Nat \ {0}  BY DEF On, IsRect
    <3> HIDE DEF w, h
    <3>2. w * h \in Nat \ {0}  BY <3>1, Cells
    <3>3. w * h # 0  BY <3>2
    <3> QED  BY <3>3 DEF Area, w, h
  <2>2. lastRect => Area(r) < MinSplitRect
    <3>1. Area(r) \in Int /\ MinSplitRect \in Int
      <4>1. r.w \in Int /\ r.h \in Int  BY DEF On, IsRect
      <4> QED  BY <4>1, Sizes DEF Area
    <3> QED  BY <3>1
  <2> QED  BY <2>1, <2>2 DEF TightParts, Entered
<1>3. T = <<e1>> \o <<e2>>  BY <1>2 DEF Flush, Simple
<1> HIDE DEF T, e1, e2
<1>4. Len(T) = 2 /\ T[1] = e1 /\ T[2] = e2
  <2> DEFINE a == <<e1>>  b == <<e2>>
  <2>1. a \in Seq({e1}) /\ Len(a) = 1 /\ a[1] = e1 /\ b \in Seq({e2}) /\ Len(b) = 1 /\ b[1] = e2  OBVIOUS
  <2>2. IsSeq(a) /\ IsSeq(b) /\ T = a \o b  BY <1>3, <2>1 DEF IsSeq
  <2> HIDE DEF a, b
  <2>3. /\ Len(T) = Len(a) + Len(b)
        /\ \A i \in 1 .. Len(a) : T[i] = a[i]
        /\ \A i \in 1 .. Len(b) : T[Len(a) + i] = b[i]  BY <2>2, CatIs
  <2>4. 1 \in 1 .. Len(a) /\ 1 \in 1 .. Len(b) /\ Len(a) + 1 = 2  BY <2>1
  <2>5. T[1] = a[1] /\ T[Len(a) + 1] = b[1]  BY <2>3, <2>4
  <2> QED  BY <2>1, <2>3, <2>4, <2>5
<1>5. f[0] = o /\ \A i \in 1 .. Len(T) : f[i] = PartStep(scr, 0, f[i - 1], T[i])
  <2>1. Len(T) \in Nat  BY <1>4
  <2> QED  BY <2>1, Parting!AfterExists, Reached DEF Parting!Upward
<1> HIDE DEF f
<1>6. f[1] = SendPart(o, scr, e1) /\ f[2] = SendPart(f[1], scr, e2)
  <2>1. 1 \in 1 .. Len(T) /\ 2 \in 1 .. Len(T) /\ 1 - 1 = 0 /\ 2 - 1 = 1  BY <1>4
  <2>2. f[1] = PartStep(scr, 0, f[1 - 1], T[1])  BY <1>5, <2>1
  <2>3. f[2] = PartStep(scr, 0, f[2 - 1], T[2])  BY <1>5, <2>1
  <2> QED  BY <1>4, <1>5, <2>1, <2>2, <2>3 DEF PartStep
<1>7. f[1] = p  BY <1>6 DEF SendPart, e1
<1>8. f[2] = q
  <2>1. e2[1] = "simple" /\ e2[2] = r /\ "simple" # "flush"  BY DEF e2
  <2> QED  BY <1>6, <1>7, <2>1 DEF SendPart
<1>9. IsOut(p) /\ Quiet(o, p)  BY FlushIs
<1> HIDE DEF p
<1>10. Sends(scr, p, q, r, SimpleCount(r))  BY <1>9, SimpleSent
<1> DEFINE k == SimpleCount(r)
<1> HIDE DEF q, k
<1>11. Sends(scr, p, q, r, k)  BY <1>10 DEF k
<1>12. Sends(scr, o, q, r, k)  BY <1>9, <1>11, SendsQuiet
<1>13. rfbSendRectEncodingTight(o, scr, r, lastRect) = q  BY <1>1, <1>4, <1>8
<1> QED  BY <1>12, <1>13 DEF k

-----------------------------------------------------------------------------
(* The rectangles of an update. *)

\* The number announced, by encoding.
LEMMA NumberIs ==
  ASSUME NEW r, NEW lastRect
  PROVE  /\ Number("raw", r, lastRect) = 1 /\ Number("rre", r, lastRect) = 1 /\ Number("hextile", r, lastRect) = 1
         /\ Number("zrle", r, lastRect) = 1
         /\ Number("corre", r, lastRect) = ((r.w - 1) \div CorreMax + 1) * ((r.h - 1) \div CorreMax + 1)
         /\ Number("zlib", r, lastRect) = (r.h - 1) \div StripLines(r.w) + 1
         /\ Number("ultra", r, lastRect) = (r.h - 1) \div StripLines(r.w) + 1
         /\ Number("tight", r, lastRect) = IF lastRect /\ Area(r) >= MinSplitRect THEN 0 ELSE SimpleCount(r)
<1>1. rfbNumCodedRectsTight(r, lastRect) = IF lastRect /\ Area(r) >= MinSplitRect THEN 0 ELSE SimpleCount(r)
  BY DEF rfbNumCodedRectsTight, SimpleCount
<1> DEFINE a == ((r.w - 1) \div CorreMax + 1) * ((r.h - 1) \div CorreMax + 1)  b == (r.h - 1) \div StripLines(r.w) + 1
           c == rfbNumCodedRectsTight(r, lastRect)
<1>2. \A enc : Number(enc, r, lastRect) = CASE enc = "corre" -> a [] enc \in {"zlib", "ultra"} -> b [] enc = "tight" -> c [] OTHER -> 1
  BY DEF Number
<1> HIDE DEF a, b, c
<1>3. Number("raw", r, lastRect) = 1 /\ Number("rre", r, lastRect) = 1 /\ Number("hextile", r, lastRect) = 1
         /\ Number("zrle", r, lastRect) = 1  BY <1>2
<1>4. Number("corre", r, lastRect) = a /\ Number("zlib", r, lastRect) = b /\ Number("ultra", r, lastRect) = b  BY <1>2
<1>5. Number("tight", r, lastRect) = c  BY <1>2
<1>6. c = IF lastRect /\ Area(r) >= MinSplitRect THEN 0 ELSE SimpleCount(r)  BY <1>1 DEF c
<1> QED  BY <1>3, <1>4, <1>5, <1>6 DEF a, b

\* Whatever the encoding, the picture and the rectangle of the screen (Sent, the switch
\* of rfbSendFramebufferUpdate): what is written of it is read as that rectangle
\* of the framebuffer, in as many rectangles as are announced for it.
THEOREM SentServed ==
  ASSUME screen \in Pictures, NEW o, IsOut(o), NEW r, On(r), update.enc \in EncodingNames, update.lastRect \in BOOLEAN
  PROVE  SentAs(screen, o, Sent(o, r), r, Number(update.enc, r, update.lastRect))
<1> DEFINE k == Number(update.enc, r, update.lastRect)  q == Sent(o, r)
<1>0. \A p, n : Sends(screen, o, p, r, n) => SentAs(screen, o, p, r, n)  BY DEF Sends, SentAs
<1>1. CASE update.enc = "raw"
  <2>1. q = rfbSendRectEncodingRaw(o, screen, r)  BY <1>1 DEF Sent
  <2>2. k = 1  BY <1>1, NumberIs
  <2> HIDE DEF k, q
  <2>3. SentAs(screen, o, q, r, k)  BY <1>0, <2>1, <2>2, RawSent
  <2> QED  BY <2>3 DEF k, q
<1>2. CASE update.enc = "rre"
  <2>1. q = Rre(o, screen, r, "rre", 8)  BY <1>2 DEF Sent, rfbSendRectEncodingRRE
  <2>2. k = 1  BY <1>2, NumberIs
  <2>3. 8 \in Nat /\ "rre" \in {"rre", "corre"}  OBVIOUS
  <2>4. Sends(screen, o, Rre(o, screen, r, "rre", 8), r, 1)  BY <2>3, RreSent
  <2> HIDE DEF k, q
  <2>5. SentAs(screen, o, q, r, k)  BY <1>0, <2>1, <2>2, <2>4
  <2> QED  BY <2>5 DEF k, q
<1>3. CASE update.enc = "corre"
  <2>1. q = rfbSendRectEncodingCoRRE(o, screen, r)  BY <1>3 DEF Sent
  <2>2. k = ((r.w - 1) \div CorreMax + 1) * ((r.h - 1) \div CorreMax + 1)  BY <1>3, NumberIs
  <2>3. Sends(screen, o, rfbSendRectEncodingCoRRE(o, screen, r), r, ((r.w - 1) \div CorreMax + 1) * ((r.h - 1) \div CorreMax + 1))
    BY CorreSent
  <2> HIDE DEF k, q
  <2>4. Sends(screen, o, q, r, k)  BY <2>1, <2>2, <2>3
  <2>5. SentAs(screen, o, q, r, k)  BY <1>0, <2>4
  <2> QED  BY <2>5 DEF k, q
<1>4. CASE update.enc = "hextile"
  <2>1. q = rfbSendRectEncodingHextile(o, screen, r)  BY <1>4 DEF Sent
  <2>2. k = 1  BY <1>4, NumberIs
  <2> HIDE DEF k, q
  <2>3. SentAs(screen, o, q, r, k)  BY <1>0, <2>1, <2>2, HextileSent
  <2> QED  BY <2>3 DEF k, q
<1>5. CASE update.enc = "zlib"
  <2>1. q = rfbSendRectEncodingZlib(o, screen, r)  BY <1>5 DEF Sent
  <2>2. k = (r.h - 1) \div StripLines(r.w) + 1  BY <1>5, NumberIs
  <2>3. Sends(screen, o, rfbSendRectEncodingZlib(o, screen, r), r, (r.h - 1) \div StripLines(r.w) + 1)  BY ZlibSent
  <2> HIDE DEF k, q
  <2>4. Sends(screen, o, q, r, k)  BY <2>1, <2>2, <2>3
  <2>5. SentAs(screen, o, q, r, k)  BY <1>0, <2>4
  <2> QED  BY <2>5 DEF k, q
<1>6. CASE update.enc = "ultra"
  <2>1. q = rfbSendRectEncodingUltra(o, screen, r)  BY <1>6 DEF Sent
  <2>2. k = (r.h - 1) \div StripLines(r.w) + 1  BY <1>6, NumberIs
  <2>3. Sends(screen, o, rfbSendRectEncodingUltra(o, screen, r), r, (r.h - 1) \div StripLines(r.w) + 1)  BY UltraSent
  <2> HIDE DEF k, q
  <2>4. Sends(screen, o, q, r, k)  BY <2>1, <2>2, <2>3
  <2>5. SentAs(screen, o, q, r, k)  BY <1>0, <2>4
  <2> QED  BY <2>5 DEF k, q
<1>7. CASE update.enc = "zrle"
  <2>1. q = rfbSendRectEncodingZRLE(o, screen, r)  BY <1>7 DEF Sent
  <2>2. k = 1  BY <1>7, NumberIs
  <2> HIDE DEF k, q
  <2>3. SentAs(screen, o, q, r, k)  BY <1>0, <2>1, <2>2, ZrleSent
  <2> QED  BY <2>3 DEF k, q
<1>8. CASE update.enc = "tight"
  <2> DEFINE l == update.lastRect  p == rfbSendRectEncodingTight(o, screen, r, l)
  <2>1. q = p  BY <1>8 DEF Sent
  <2>2. k = IF l /\ Area(r) >= MinSplitRect THEN 0 ELSE SimpleCount(r)  BY <1>8, NumberIs
  <2>3. l \in BOOLEAN  OBVIOUS
  <2> HIDE DEF k, q, l
  <2>4. Serve(screen, o, p, Points(r))  BY <2>3, TightServed
  <2>5. ASSUME ~(l /\ Area(r) >= MinSplitRect) PROVE Sends(screen, o, p, r, SimpleCount(r))  BY <2>3, <2>5, TightSent
  <2> HIDE DEF p
  <2>6. CASE l /\ Area(r) >= MinSplitRect
    <3>1. k = 0  BY <2>2, <2>6
    <3>2. SentAs(screen, o, q, r, k)  BY <2>1, <2>4, <3>1 DEF SentAs
    <3> QED  BY <3>2 DEF k, q
  <2>7. CASE ~(l /\ Area(r) >= MinSplitRect)
    <3>1. k = SimpleCount(r)  BY <2>2, <2>7
    <3>2. SentAs(screen, o, q, r, k)  BY <1>0, <2>1, <2>5, <2>7, <3>1
    <3> QED  BY <3>2 DEF k, q
  <2> QED  BY <2>6, <2>7
<1> QED  BY <1>1, <1>2, <1>3, <1>4, <1>5, <1>6, <1>7, <1>8 DEF EncodingNames

\* A strip has a line at least.
LEMMA StripLinesIs ==
  ASSUME NEW w \in Nat \ {0}
  PROVE  StripLines(w) \in Nat \ {0}
<1> DEFINE a == IF 2 * w > MaxStripSize THEN 2 * w ELSE MaxStripSize
<1>1. a \in Nat /\ 2 * w <= a  BY Sizes
<1>2. StripLines(w) = a \div w  BY DEF StripLines
<1> HIDE DEF a
<1>0. a \in Int  BY <1>1
<1>3. IsQuot(a \div w, a, w)  BY <1>0, QuotIs
<1> QED  BY <1>1, <1>2, <1>3 DEF IsQuot

\* It is a number.
LEMMA NumberNat ==
  ASSUME NEW enc \in EncodingNames, NEW r, On(r), NEW lastRect \in BOOLEAN
  PROVE  Number(enc, r, lastRect) \in Nat
<1> DEFINE w == r.w  h == r.h
<1>1. w \in Nat \ {0} /\ h \in Nat \ {0}  BY DEF On, IsRect
<1>2. CASE enc = "corre"
  <2> DEFINE a == (w - 1) \div CorreMax  b == (h - 1) \div CorreMax
  <2>1. CorreMax \in Nat \ {0}  BY Sizes
  <2>2. a \in Nat /\ b \in Nat
    <3> HIDE DEF w, h
    <3>1. a \in Nat  BY <1>1, <2>1, Slot
    <3>2. b \in Nat  BY <1>1, <2>1, Slot
    <3> QED  BY <3>1, <3>2
  <2>3. Number(enc, r, lastRect) = (a + 1) * (b + 1)  BY <1>2, NumberIs
  <2> HIDE DEF a, b
  <2>4. (a + 1) * (b + 1) \in Nat  BY <2>2
  <2> QED  BY <2>3, <2>4
<1>3. CASE enc \in {"zlib", "ultra"}
  <2> DEFINE a == (h - 1) \div StripLines(w)
  <2>1. StripLines(w) \in Nat \ {0}  BY <1>1, StripLinesIs
  <2>2. a \in Nat
    <3> HIDE DEF w, h
    <3> QED  BY <1>1, <2>1, Slot
  <2>3. Number(enc, r, lastRect) = a + 1  BY <1>3, NumberIs
  <2> HIDE DEF a
  <2> QED  BY <2>2, <2>3
<1>4. CASE enc = "tight"
  <2>1. SimpleDivides(r, SimpleParts(r), SimpleCount(r))  BY SimplePartsAre
  <2>2. SimpleCount(r) \in Nat  BY <2>1 DEF SimpleDivides
  <2>3. Number(enc, r, lastRect) = IF lastRect /\ Area(r) >= MinSplitRect THEN 0 ELSE SimpleCount(r)
    BY <1>4, NumberIs
  <2> QED  BY <2>2, <2>3
<1>5. CASE enc \in {"raw", "rre", "hextile", "zrle"}
  <2>1. Number(enc, r, lastRect) = 1  BY <1>5, NumberIs
  <2> QED  BY <2>1
<1> QED  BY <1>2, <1>3, <1>4, <1>5 DEF EncodingNames

-----------------------------------------------------------------------------
(* How many rectangles are announced. *)

LEMMA SumNat ==
  ASSUME NEW enc \in EncodingNames, NEW lastRect \in BOOLEAN, NEW rs, Rectangles(rs)
  PROVE  /\ Sum(enc, lastRect, rs) \in Nat /\ (Len(rs) = 0 => Sum(enc, lastRect, rs) = 0)
         /\ \A i \in 0 .. Len(rs) : Counting!After(enc, lastRect, 0, rs)[i] \in Nat
<1> DEFINE zero == 0  n == Len(rs)  f == Counting!After(enc, lastRect, zero, rs)  Q == {i \in 0 .. n : f[i] \in Nat}
<1>1. IsSeq(rs) /\ (\A i \in 1 .. n : On(rs[i])) /\ n \in Nat  BY Appended DEF Rectangles
<1>3. Sum(enc, lastRect, rs) = f[n]  BY DEF Sum
<1> HIDE DEF zero
<1>2. f[0] = zero /\ \A i \in 1 .. n : f[i] = CountStep(enc, lastRect, f[i - 1], rs[i])
  BY <1>1, Counting!AfterExists, Reached DEF Counting!Upward
<1> USE DEF zero
<1> HIDE DEF f, n
<1>4. 0 \in Q  BY <1>1, <1>2
<1>5. ASSUME NEW k \in 0 .. n - 1, k \in Q PROVE k + 1 \in Q
  <2>1. k + 1 \in 1 .. n /\ k + 1 \in 0 .. n /\ (k + 1) - 1 = k  BY <1>1
  <2>2. f[k + 1] = f[k] + Number(enc, rs[k + 1], lastRect)  BY <1>2, <2>1 DEF CountStep
  <2>3. Number(enc, rs[k + 1], lastRect) \in Nat  BY <1>1, <2>1, NumberNat
  <2> QED  BY <1>5, <2>1, <2>2, <2>3
<1>6. \A k \in 0 .. n : k \in Q
  <2> HIDE DEF Q
  <2> QED  BY <1>1, <1>4, <1>5, Reached
<1>7. f[n] \in Nat  BY <1>1, <1>6
<1> QED  BY <1>2, <1>3, <1>6, <1>7 DEF n, f

LEMMA TailOf ==
  ASSUME NEW rs, IsSeq(rs), rs # <<>>
  PROVE  TailIs(rs, Tail(rs)) /\ Head(rs) = rs[1] /\ 1 \in 1 .. Len(rs)
<1>1. PICK S : rs \in Seq(S)  BY DEF IsSeq
<1>2. Tail(rs) \in Seq(S) /\ Len(Tail(rs)) = Len(rs) - 1 /\ Len(rs) \in Nat /\ Len(rs) # 0 /\ Head(rs) = rs[1]
  BY <1>1
<1>3. \A i \in 1 .. Len(Tail(rs)) : Tail(rs)[i] = rs[i + 1]  BY <1>1, <1>2
<1> QED  BY <1>2, <1>3 DEF IsSeq, TailIs

\* The first one, and the others.
LEMMA SumTail ==
  ASSUME NEW enc \in EncodingNames, NEW lastRect \in BOOLEAN, NEW rs, Rectangles(rs), rs # <<>>
  PROVE  /\ Rectangles(Tail(rs)) /\ On(Head(rs))
         /\ Sum(enc, lastRect, rs) = Number(enc, Head(rs), lastRect) + Sum(enc, lastRect, Tail(rs))
<1> DEFINE zero == 0  t == Tail(rs)  n == Len(t)  f == Counting!After(enc, lastRect, zero, rs)  g == Counting!After(enc, lastRect, zero, t)
           first == Number(enc, Head(rs), lastRect)
           Q == {i \in 0 .. n : f[i + 1] = first + g[i]}
<1>1. IsSeq(rs) /\ (\A i \in 1 .. Len(rs) : On(rs[i])) /\ Len(rs) \in Nat  BY Appended DEF Rectangles
<1>2. IsSeq(t) /\ n + 1 = Len(rs) /\ (\A i \in 1 .. n : t[i] = rs[i + 1]) /\ Head(rs) = rs[1] /\ 1 \in 1 .. Len(rs)
  BY <1>1, TailOf DEF TailIs
<1> HIDE DEF t
<1>3. n \in Nat  BY <1>2, Appended
<1>4. Rectangles(t)
  <2>1. \A i \in 1 .. n : i + 1 \in 1 .. Len(rs)  BY <1>1, <1>2, <1>3
  <2> QED  BY <1>1, <1>2, <2>1 DEF Rectangles
<1>5. On(Head(rs))  BY <1>1, <1>2
<1>8. \A i \in 0 .. n : g[i] \in Nat  BY <1>4, SumNat
<1>10. Sum(enc, lastRect, rs) = f[n + 1] /\ Sum(enc, lastRect, t) = g[n]  BY <1>2 DEF Sum
<1> HIDE DEF zero
<1>6. f[0] = zero /\ \A i \in 1 .. Len(rs) : f[i] = CountStep(enc, lastRect, f[i - 1], rs[i])
  BY <1>1, Counting!AfterExists, Reached DEF Counting!Upward
<1>7. g[0] = zero /\ \A i \in 1 .. n : g[i] = CountStep(enc, lastRect, g[i - 1], t[i])
  BY <1>3, Counting!AfterExists, Reached DEF Counting!Upward
<1>9. first \in Nat  BY <1>5, NumberNat
<1> USE DEF zero
<1> HIDE DEF f, g, n, first
<1>11. 0 \in Q
  <2>1. f[1] = f[1 - 1] + Number(enc, rs[1], lastRect) /\ 1 - 1 = 0 /\ 0 + 1 = 1  BY <1>2, <1>6 DEF CountStep
  <2>2. f[0 + 1] = first  BY <1>2, <1>6, <1>9, <2>1 DEF first
  <2> QED  BY <1>3, <1>7, <1>9, <2>2
<1>12. ASSUME NEW k \in 0 .. n - 1, k \in Q PROVE k + 1 \in Q
  <2> DEFINE j == k + 1  m == Number(enc, t[j], lastRect)
  <2>1. j \in 1 .. n /\ j \in 0 .. n /\ j + 1 \in 1 .. Len(rs) /\ (j + 1) - 1 = j /\ j - 1 = k /\ k \in 0 .. n
    BY <1>2, <1>3
  <2>2. On(t[j])  BY <1>4, <2>1 DEF Rectangles, n
  <2>3. m \in Nat  BY <2>2, NumberNat
  <2>4. f[j + 1] = f[j] + m  BY <1>2, <1>6, <2>1 DEF CountStep
  <2>5. g[j] = g[k] + m  BY <1>7, <2>1 DEF CountStep
  <2>6. f[j] = first + g[k]  BY <1>12
  <2> HIDE DEF j, m
  <2>7. g[k] \in Nat  BY <1>8, <2>1
  <2>8. f[j + 1] = first + g[j]  BY <1>9, <2>3, <2>4, <2>5, <2>6, <2>7
  <2>9. j \in Q  BY <2>1, <2>8
  <2> QED  BY <2>9 DEF j
<1>13. n \in Q
  <2>1. \A k \in 0 .. n : k \in Q
    <3> HIDE DEF Q
    <3> QED  BY <1>3, <1>11, <1>12, Reached
  <2> QED  BY <1>3, <2>1
<1> QED  BY <1>4, <1>5, <1>10, <1>13 DEF t, first

\* The sum that is announced is the sum of the numbers, if all are known.
LEMMA CountedIs ==
  ASSUME NEW enc \in EncodingNames, NEW lastRect \in BOOLEAN, NEW rs, Rectangles(rs), Counted(enc, rs, lastRect) # LastRectUnknown
  PROVE  Counted(enc, rs, lastRect) = Sum(enc, lastRect, rs) /\ \A i \in 1 .. Len(rs) : Number(enc, rs[i], lastRect) # 0
<1> DEFINE number(r) == Number(enc, r, lastRect)
<1>1. IsSeq(rs) /\ DOMAIN rs = 1 .. Len(rs) /\ \A i \in 1 .. Len(rs) : On(rs[i])  BY Appended DEF Rectangles
<1>2. Counted(enc, rs, lastRect) = IF enc = "tight" /\ \E i \in DOMAIN rs : number(rs[i]) = 0 THEN LastRectUnknown
                                   ELSE Sum(enc, lastRect, rs)
  BY DEF Counted, InTurn, Number, Sum, Counting!After, CountStep
<1>3. \A i \in 1 .. Len(rs) : enc = "tight" => number(rs[i]) # 0  BY <1>1, <1>2
<1>4. Counted(enc, rs, lastRect) = Sum(enc, lastRect, rs)  BY <1>2
<1>5. ASSUME NEW i \in 1 .. Len(rs), enc # "tight" PROVE number(rs[i]) # 0
  <2> DEFINE r == rs[i]  w == r.w  h == r.h
  <2>1. On(r)  BY <1>1
  <2> HIDE DEF r
  <2>2. w \in Nat \ {0} /\ h \in Nat \ {0}  BY <2>1 DEF On, IsRect
  <2>3. CASE enc \in {"raw", "rre", "hextile", "zrle"}
    <3>1. number(r) = 1  BY <2>3, NumberIs
    <3> QED  BY <3>1 DEF r
  <2>4. CASE enc \in {"zlib", "ultra"}
    <3> DEFINE a == (h - 1) \div StripLines(w)
    <3>1. StripLines(w) \in Nat \ {0}  BY <2>2, StripLinesIs
    <3>2. a \in Nat
      <4> HIDE DEF w, h
      <4> QED  BY <2>2, <3>1, Slot
    <3>3. number(r) = a + 1  BY <2>4, NumberIs
    <3> HIDE DEF a
    <3> QED  BY <3>2, <3>3 DEF r
  <2>5. CASE enc = "corre"
    <3> DEFINE a == (w - 1) \div CorreMax + 1  b == (h - 1) \div CorreMax + 1
    <3>1. CorreMax \in Nat \ {0}  BY Sizes
    <3>2. a \in Nat \ {0} /\ b \in Nat \ {0}
      <4> HIDE DEF w, h
      <4>1. (w - 1) \div CorreMax \in Nat  BY <2>2, <3>1, Slot
      <4>2. (h - 1) \div CorreMax \in Nat  BY <2>2, <3>1, Slot
      <4> QED  BY <4>1, <4>2
    <3>3. number(r) = a * b  BY <2>5, NumberIs
    <3> HIDE DEF a, b
    <3>4. a * b \in Nat \ {0}  BY <3>2, Cells
    <3>5. a * b # 0  BY <3>4
    <3> QED  BY <3>3, <3>5 DEF r
  <2> QED  BY <1>5, <2>3, <2>4, <2>5 DEF EncodingNames
<1> QED  BY <1>3, <1>4, <1>5

-----------------------------------------------------------------------------
(* Rectangles without pixels. *)

LEMMA NoticesAre ==
  /\ Len(Notices) = 6 /\ DOMAIN Notices = 1 .. 6 /\ ToSet(Notices) = NoticeNames
  /\ \A i \in 1 .. 6 : Notices[i] \in NoticeNames
<1>1. Len(Notices) = 6 /\ DOMAIN Notices = 1 .. 6  BY DEF Notices
<1>2. \A i \in 1 .. 6 : i = 1 \/ i = 2 \/ i = 3 \/ i = 4 \/ i = 5 \/ i = 6  OBVIOUS
<1>3. /\ Notices[1] = "xcursor" /\ Notices[2] = "pos" /\ Notices[3] = "led"
      /\ Notices[4] = "messages" /\ Notices[5] = "encodings" /\ Notices[6] = "identity"  BY DEF Notices
<1>4. \A i \in 1 .. 6 : Notices[i] \in NoticeNames  BY <1>2, <1>3 DEF NoticeNames
<1>5. ToSet(Notices) = {Notices[i] : i \in 1 .. 6}  BY <1>1 DEF ToSet
<1>6. \A e \in NoticeNames : \E i \in 1 .. 6 : e = Notices[i]  BY <1>3 DEF NoticeNames
<1> QED  BY <1>1, <1>4, <1>5, <1>6

\* A rectangle without pixels is read past.
LEMMA NoticeRead ==
  ASSUME NEW items, NEW pic, NEW at, NEW inf, NEW r, NEW enc, NEW N, NoticeItems(r, enc) = N,
         IsSeq(items), at \in Nat, Len(N) \in Nat, NoticeFollows(items, at, N)
  PROVE  HandleNotice(View(items, pic, at, inf), r, enc) = View(items, pic, at + Len(N), inf)
<1> DEFINE v == View(items, pic, at, inf)  n == Len(N)  m == at + n
<1>1. Len(items) \in Nat  BY Appended
<1>2. v.items = items /\ v.at = at  BY ViewFields
<1>3. Left(v) = Len(items) - at + 1  BY ViewIs
<1>4. n <= Left(v) /\ \A i \in 1 .. n : v.items[v.at + i - 1] = N[i]  BY <1>1, <1>2, <1>3 DEF NoticeFollows
<1>5. HandleNotice(v, r, enc) = [v EXCEPT !.at = v.at + n]  BY <1>4 DEF HandleNotice
<1> HIDE DEF n
<1>6. [v EXCEPT !.at = m] = View(items, pic, m, inf)
  <2> HIDE DEF m
  <2> QED  BY DEF View, Viewing
<1> QED  BY <1>2, <1>5, <1>6 DEF n

LEMMA ToldTells ==
  ASSUME NEW scr \in Pictures, NEW o, IsOut(o), NEW q, NEW r, NEW enc \in NoticeNames, NEW N, Len(N) \in Nat,
         NoticeItems(r, enc) = N, IsTold(o, q, r, enc, N)
  PROVE  Tells(scr, o, q)
<1> DEFINE a == Len(o.items)  b == a + 1  c == b + 1  l == Len(N)  d == o.deflated
<1>1. IsSeq(o.items) /\ IsSeq(q.items) /\ IsOut(q)  BY DEF IsTold, IsOut
<1>2. a \in Nat /\ Len(q.items) \in Nat  BY <1>1, Appended
<1>3. /\ q.headers = o.headers + 1 /\ q.deflated = d /\ q.ublen = 0 /\ Len(q.items) = b + l /\ Extends(q.items, o.items)
      /\ q.items[b] = <<"rect", r, enc>> /\ \A i \in 1 .. l : q.items[b + i] = N[i]  BY DEF IsTold
<1> HIDE DEF a, l, d
<1>4. l \in Nat  BY DEF l
<1>5. ASSUME NEW items, NEW pic, IsSeq(items), Extends(items, q.items), pic \in Seen
      PROVE  HandleRect(View(items, pic, b, d)) = View(items, Overlay(pic, {}, scr), Len(q.items) + 1, q.deflated)
  <2>1. Len(items) \in Nat /\ b + l <= Len(items) /\ \A i \in 1 .. b + l : items[i] = q.items[i]
    BY <1>3, <1>5, Appended DEF Extends
  <2>2. b \in 1 .. Len(items) /\ items[b] = <<"rect", r, enc>> /\ c \in Nat /\ b \in 1 .. b + l
    BY <1>2, <1>3, <1>4, <2>1
  <2>3. enc # "last"  BY DEF NoticeNames
  <2>4. HandleRect(View(items, pic, b, d)) = Handle(View(items, pic, c, d), r, enc)
    <3> HIDE DEF b
    <3> QED  BY <1>5, <2>2, <2>3, HeaderRead DEF c
  <2>5. Handle(View(items, pic, c, d), r, enc) = HandleNotice(View(items, pic, c, d), r, enc)
    <3> HIDE DEF c
    <3> QED  BY Handled, NoticesAre
  <2>6. NoticeFollows(items, c, N)
    <3>1. ASSUME NEW i \in 1 .. l PROVE items[c + i - 1] = N[i]
      <4>1. b + i \in 1 .. b + l /\ c + i - 1 = b + i  BY <1>2, <1>4
      <4> QED  BY <1>3, <2>1, <4>1
    <3>2. c + l <= Len(items) + 1  BY <1>2, <1>4, <2>1
    <3> QED  BY <3>1, <3>2 DEF NoticeFollows, l
  <2>7. HandleNotice(View(items, pic, c, d), r, enc) = View(items, pic, c + l, d)
    <3> HIDE DEF c
    <3> QED  BY <1>4, <1>5, <2>2, <2>6, NoticeRead DEF l
  <2>8. Len(q.items) + 1 = c + l  BY <1>2, <1>3, <1>4
  <2>9. Overlay(pic, {}, scr) = pic  BY <1>5, OverlayIs
  <2> QED  BY <1>3, <2>4, <2>5, <2>7, <2>8, <2>9
<1>6. Serve(scr, o, q, {})
  <2>1. \A items, pic : IsSeq(items) /\ Extends(items, q.items) /\ pic \in Seen =>
          HandleRect(View(items, pic, Len(o.items) + 1, o.deflated))
            = View(items, Overlay(pic, {}, scr), Len(q.items) + 1, q.deflated)  BY <1>5 DEF a, d
  <2> QED  BY <1>1, <1>3, <2>1, ServeOne
<1> QED  BY <1>3, <1>6 DEF Tells

\* A rectangle that is all header.
LEMMA HeaderTold ==
  ASSUME NEW o, IsOut(o), NEW r, NEW enc
  PROVE  IsTold(o, rfbSendUpdateBuf(Header(Room(o, 12), r, enc)), r, enc, <<>>)
<1> DEFINE p == Room(o, 12)  h == Header(p, r, enc)  q == rfbSendUpdateBuf(h)  e == <<"rect", r, enc>>
<1>1. 12 \in 0 .. UPDATE_BUF_SIZE  BY Sizes
<1>2. IsOut(p) /\ Quiet(o, p) /\ p.ublen + 12 <= UPDATE_BUF_SIZE  BY <1>1, RoomIs
<1> HIDE DEF p
<1>3. IsOut(h) /\ h.headers = p.headers + 1 /\ h.items = Append(p.items, e) /\ h.deflated = p.deflated
  BY <1>2, HeaderIs
<1> HIDE DEF h
<1>4. IsOut(q) /\ Quiet(h, q) /\ q.ublen = 0  BY <1>3, FlushIs
<1> HIDE DEF q
<1>5. q.headers = o.headers + 1 /\ q.deflated = o.deflated /\ q.items = Append(o.items, e) /\ IsSeq(o.items)
  BY <1>2, <1>3, <1>4 DEF Quiet, IsOut
<1> HIDE DEF e
<1>6. Len(q.items) = Len(o.items) + 1 /\ Extends(q.items, o.items) /\ q.items[Len(o.items) + 1] = e /\ Len(o.items) \in Nat
  BY <1>5, Appended
<1> QED  BY <1>4, <1>5, <1>6 DEF IsTold, q, h, p, e

\* A rectangle and what it says follows.
LEMMA BytesTold ==
  ASSUME NEW o, IsOut(o), NEW r, NEW enc, NEW n \in Nat, 12 + n <= UPDATE_BUF_SIZE, NEW item
  PROVE  IsTold(o, rfbSendUpdateBuf(Put(Header(Room(o, 12 + n), r, enc), item, n)), r, enc, <<item>>)
<1> DEFINE m == 12 + n  p == Room(o, m)  h == Header(p, r, enc)  b == Put(h, item, n)  q == rfbSendUpdateBuf(b)  e == <<"rect", r, enc>>
<1>1. m \in 0 .. UPDATE_BUF_SIZE  BY Sizes
<1>2. IsOut(p) /\ Quiet(o, p) /\ p.ublen + m <= UPDATE_BUF_SIZE
  <2> HIDE DEF m
  <2> QED  BY <1>1, RoomIs
<1> HIDE DEF p
<1>3. p.ublen + 12 <= UPDATE_BUF_SIZE /\ p.ublen + 12 + n <= UPDATE_BUF_SIZE  BY <1>2, Sizes DEF IsOut
<1>4. IsOut(h) /\ h.headers = p.headers + 1 /\ h.items = Append(p.items, e) /\ h.deflated = p.deflated /\ h.ublen = p.ublen + 12
  BY <1>2, <1>3, HeaderIs
<1> HIDE DEF h
<1>5. h.ublen + n <= UPDATE_BUF_SIZE  BY <1>3, <1>4
<1>6. IsOut(b) /\ Adds(h, b, item)  BY <1>4, <1>5, PutIs
<1> HIDE DEF b
<1>7. IsOut(q) /\ Quiet(b, q) /\ q.ublen = 0  BY <1>6, FlushIs
<1> HIDE DEF q
<1>8. q.headers = o.headers + 1 /\ q.deflated = o.deflated /\ Ends2(q.items, o.items, e, item) /\ IsSeq(o.items)
  BY <1>2, <1>4, <1>6, <1>7 DEF Quiet, Adds, IsOut, Ends2
<1> HIDE DEF e
<1>9. IsSeq(q.items) /\ Extends(q.items, o.items) /\ Len(q.items) = Len(o.items) + 2 /\ Follows2(q.items, o.items, e, item)
  <2>1. IsSeq(q.items) /\ Extends(q.items, o.items) /\ Len(q.items) = Len(o.items) + 2  BY <1>8, Follow2
  <2>2. \A items : IsSeq(items) /\ Extends(items, q.items) => Follows2(items, o.items, e, item)  BY <1>8, Follow2
  <2>3. Extends(q.items, q.items)
    <3>1. Len(q.items) \in Nat  BY <2>1, Appended
    <3> QED  BY <3>1 DEF Extends
  <2> QED  BY <2>1, <2>2, <2>3
<1>10. q.items[Len(o.items) + 1] = e /\ q.items[Len(o.items) + 2] = item  BY <1>9 DEF Follows1, Follows2
<1>11. Len(o.items) \in Nat /\ Len(<<item>>) = 1 /\ <<item>>[1] = item  BY <1>8, Appended
<1>12. /\ Len(q.items) = Len(o.items) + 1 + Len(<<item>>)
       /\ \A i \in 1 .. Len(<<item>>) : q.items[Len(o.items) + 1 + i] = <<item>>[i]  BY <1>9, <1>10, <1>11
<1> QED  BY <1>7, <1>8, <1>9, <1>10, <1>12 DEF IsTold, q, b, h, p, e

LEMMA ShapeTold ==
  ASSUME NEW o, IsOut(o), NEW r, NEW m \in Nat, 18 + 2 * m <= UPDATE_BUF_SIZE
  PROVE  IsTold(o, ShapeOut(o, r, m), r, "xcursor", Shape(m))
<1> DEFINE n == 18 + 2 * m  p == Room(o, n)  h == Header(p, r, "xcursor")  c == <<"colours">>  t == <<"bits", m>>
           b1 == Put(h, c, 6)  b2 == Put(b1, t, m)  b3 == Put(b2, t, m)  q == rfbSendUpdateBuf(b3)  e == <<"rect", r, "xcursor">>
<1>0. ShapeOut(o, r, m) = q /\ Shape(m) = <<c, t, t>>  BY DEF ShapeOut, Shape
<1>1. n \in 0 .. UPDATE_BUF_SIZE  BY Sizes
<1>2. IsOut(p) /\ Quiet(o, p) /\ p.ublen + n <= UPDATE_BUF_SIZE
  <2> HIDE DEF n
  <2> QED  BY <1>1, RoomIs
<1> HIDE DEF p, c, t
<1>3. p.ublen \in Nat /\ p.ublen + 18 + m + m <= UPDATE_BUF_SIZE /\ p.ublen + 12 <= UPDATE_BUF_SIZE
  BY <1>2, Sizes DEF IsOut
<1>4. IsOut(h) /\ h.headers = p.headers + 1 /\ h.items = Append(p.items, e) /\ h.deflated = p.deflated /\ h.ublen = p.ublen + 12
  BY <1>2, <1>3, HeaderIs
<1> HIDE DEF h
<1>5. h.ublen + 6 <= UPDATE_BUF_SIZE  BY <1>3, <1>4, Sizes
<1>6. IsOut(b1) /\ Adds(h, b1, c) /\ b1.ublen = h.ublen + 6
  <2> DEFINE six == 6
  <2>1. six \in Nat /\ h.ublen + six <= UPDATE_BUF_SIZE  BY <1>5
  <2>2. b1 = Put(h, c, six)  OBVIOUS
  <2> HIDE DEF six, b1
  <2>3. IsOut(b1) /\ Adds(h, b1, c) /\ b1.ublen = h.ublen + six  BY <1>4, <2>1, <2>2, PutIs
  <2> QED  BY <2>3 DEF six
<1> HIDE DEF b1
<1>7. b1.ublen + m <= UPDATE_BUF_SIZE  BY <1>3, <1>4, <1>6, Sizes
<1>8. IsOut(b2) /\ Adds(b1, b2, t) /\ b2.ublen = b1.ublen + m  BY <1>6, <1>7, PutIs
<1> HIDE DEF b2
<1>9. b2.ublen + m <= UPDATE_BUF_SIZE  BY <1>3, <1>4, <1>6, <1>8, Sizes
<1>10. IsOut(b3) /\ Adds(b2, b3, t)  BY <1>8, <1>9, PutIs
<1> HIDE DEF b3
<1>11. IsOut(q) /\ Quiet(b3, q) /\ q.ublen = 0  BY <1>10, FlushIs
<1> HIDE DEF q
<1>12. q.headers = o.headers + 1 /\ q.deflated = o.deflated /\ Ends4(q.items, o.items, e, c, t, t) /\ IsSeq(o.items)
  BY <1>2, <1>4, <1>6, <1>8, <1>10, <1>11 DEF Quiet, Adds, IsOut, Ends4
<1> HIDE DEF e
<1>13. IsSeq(q.items) /\ Extends(q.items, o.items) /\ Len(q.items) = Len(o.items) + 4 /\ Follows4(q.items, o.items, e, c, t, t)
  <2>1. IsSeq(q.items) /\ Extends(q.items, o.items) /\ Len(q.items) = Len(o.items) + 4  BY <1>12, Follow4
  <2>2. \A items : IsSeq(items) /\ Extends(items, q.items) => Follows4(items, o.items, e, c, t, t)  BY <1>12, Follow4
  <2>3. Extends(q.items, q.items)
    <3>1. Len(q.items) \in Nat  BY <2>1, Appended
    <3> QED  BY <3>1 DEF Extends
  <2> QED  BY <2>1, <2>2, <2>3
<1>14. /\ q.items[Len(o.items) + 1] = e /\ q.items[Len(o.items) + 2] = c
       /\ q.items[Len(o.items) + 3] = t /\ q.items[Len(o.items) + 4] = t
  BY <1>13 DEF Follows1, Follows2, Follows3, Follows4
<1> DEFINE N == <<c, t, t>>
<1>15. Len(o.items) \in Nat /\ Len(N) = 3 /\ N[1] = c /\ N[2] = t /\ N[3] = t  BY <1>12, Appended
<1> HIDE DEF N
<1>16. \A i \in 1 .. 3 : i = 1 \/ i = 2 \/ i = 3  OBVIOUS
<1>17. /\ Len(q.items) = Len(o.items) + 1 + Len(N)
       /\ \A i \in 1 .. Len(N) : q.items[Len(o.items) + 1 + i] = N[i]  BY <1>13, <1>14, <1>15, <1>16
<1>18. IsTold(o, q, r, "xcursor", N)  BY <1>11, <1>12, <1>13, <1>14, <1>17 DEF IsTold, e
<1> QED  BY <1>0, <1>18 DEF N

LEMMA MaskNat ==
  ASSUME NEW w \in Nat, NEW h \in Nat
  PROVE  MaskBytes(w, h) \in Nat
<1> DEFINE a == w + 7  b == 8  k == a \div b
<1>1. a \in Nat /\ b \in Nat \ {0}  OBVIOUS
<1>2. MaskBytes(w, h) = k * h  BY DEF MaskBytes
<1> HIDE DEF a, b
<1>3. k \in Nat  BY <1>1, Quotient
<1> HIDE DEF k
<1> QED  BY <1>2, <1>3, TimesMore

\* The shape of the cursor, or that there is none.
LEMMA CursorTold ==
  ASSUME NEW scr \in Pictures, NEW o, IsOut(o), NEW w \in Nat, NEW h \in Nat, w = 0 <=> h = 0,
         18 + 2 * MaskBytes(w, h) <= UPDATE_BUF_SIZE
  PROVE  Tells(scr, o, rfbSendCursorShape(o, w, h))
<1> DEFINE m == MaskBytes(w, h)  q == rfbSendCursorShape(o, w, h)  z == Rect(0, 0, 0, 0)  r == Rect(0, 0, w, h)
<1>1. "xcursor" \in NoticeNames  BY DEF NoticeNames
<1>2. CASE w = 0
  <2> DEFINE u == rfbSendUpdateBuf(Header(Room(o, 12), z, "xcursor"))
  <2>1. q = u  BY <1>2 DEF rfbSendCursorShape, sz_rfbFramebufferUpdateRectHeader
  <2>2. NoticeItems(z, "xcursor") = <<>>
    <3>1. Area(z) = 0  BY RectFields DEF Area
    <3> QED  BY <3>1 DEF NoticeItems
  <2>3. IsTold(o, u, z, "xcursor", <<>>)
    <3> HIDE DEF z
    <3> QED  BY HeaderTold
  <2> DEFINE N == <<>>
  <2>4. Len(N) \in Nat  OBVIOUS
  <2> HIDE DEF N, u, z
  <2>5. Tells(scr, o, u)  BY <1>1, <2>2, <2>3, <2>4, ToldTells DEF N
  <2> QED  BY <2>1, <2>5
<1>3. CASE w # 0
  <2>1. m \in Nat  BY MaskNat
  <2>2. q = ShapeOut(o, r, m)
    <3>1. q = rfbSendUpdateBuf(Put(Put(Put(Header(Room(o, 12 + 6 + 2 * m), r, "xcursor"), <<"colours">>, 6), <<"bits", m>>, m), <<"bits", m>>, m))
      BY <1>3 DEF rfbSendCursorShape, sz_rfbFramebufferUpdateRectHeader, sz_rfbXCursorColors
    <3>2. 12 + 6 + 2 * m = 18 + 2 * m  BY <2>1
    <3> QED  BY <3>1, <3>2 DEF ShapeOut
  <2>3. NoticeItems(r, "xcursor") = Shape(m)
    <3>1. Area(r) = w * h /\ r.w = w /\ r.h = h  BY RectFields DEF Area
    <3>2. w \in Nat \ {0} /\ h \in Nat \ {0}  BY <1>3
    <3>3. w * h # 0
      <4>1. w * h \in Nat \ {0}  BY <3>2, Cells
      <4> QED  BY <4>1
    <3> HIDE DEF r
    <3> QED  BY <3>1, <3>3 DEF NoticeItems, Shape
  <2> HIDE DEF r, q, m
  <2>4. IsTold(o, q, r, "xcursor", Shape(m))  BY <2>1, <2>2, ShapeTold DEF m
  <2> DEFINE N == Shape(m)
  <2>5. Len(N) \in Nat  BY DEF Shape
  <2> HIDE DEF N
  <2>6. Tells(scr, o, q)  BY <1>1, <2>3, <2>4, <2>5, ToldTells DEF N
  <2> QED  BY <2>6 DEF q
<1> QED  BY <1>2, <1>3

\* Each of the notices.
LEMMA NoticeTold ==
  ASSUME NEW scr \in Pictures, NEW o, IsOut(o), NEW e \in NoticeNames, NEW c \in Nat \X Nat, CursorFits(c)
  PROVE  Tells(scr, o, SendNotice(o, e, c))
<1>1. CASE e = "xcursor"
  <2> DEFINE w == c[1]  h == c[2]
  <2>1. SendNotice(o, e, c) = rfbSendCursorShape(o, w, h)  BY <1>1 DEF SendNotice
  <2>2. w \in Nat /\ h \in Nat /\ (w = 0 <=> h = 0) /\ 18 + 2 * MaskBytes(w, h) <= UPDATE_BUF_SIZE  BY DEF CursorFits
  <2> HIDE DEF w, h
  <2> QED  BY <2>1, <2>2, CursorTold
<1>2. CASE e \in {"pos", "led"}
  <2> DEFINE z == Rect(0, 0, 0, 0)  u == rfbSendUpdateBuf(Header(Room(o, 12), z, e))  N == <<>>
  <2>1. SendNotice(o, e, c) = u
    <3>1. SendNotice(o, e, c) = HeaderOnly(o, e)  BY <1>2 DEF SendNotice
    <3> QED  BY <3>1 DEF HeaderOnly, sz_rfbFramebufferUpdateRectHeader
  <2>2. NoticeItems(z, e) = N /\ Len(N) \in Nat
    <3> HIDE DEF z
    <3> QED  BY <1>2 DEF NoticeItems
  <2> HIDE DEF z
  <2>3. IsTold(o, u, z, e, N)  BY HeaderTold
  <2> HIDE DEF N, u
  <2> QED  BY <2>1, <2>2, <2>3, ToldTells
<1>3. CASE e \in {"messages", "encodings", "identity"}
  <2> DEFINE n == NoticeBytes[e]  r == Rect(0, 0, n, 0)  i == <<"bytes", n>>  N == <<i>>
             u == rfbSendUpdateBuf(Put(Header(Room(o, 12 + n), r, e), i, n))
  <2>1. SendNotice(o, e, c) = u
    <3>1. SendNotice(o, e, c) = WithBytes(o, e)  BY <1>3 DEF SendNotice
    <3> QED  BY <3>1 DEF WithBytes, sz_rfbFramebufferUpdateRectHeader
  <2>2. n \in Nat /\ 12 + n <= UPDATE_BUF_SIZE
    <3>1. NoticeBytes \in [{"messages", "encodings", "identity"} -> Nat]  BY NoticeAssumption
    <3>2. \A k \in DOMAIN NoticeBytes : 12 + NoticeBytes[k] <= UPDATE_BUF_SIZE
      BY FitAssumption DEF sz_rfbFramebufferUpdateRectHeader
    <3> QED  BY <1>3, <3>1, <3>2
  <2>3. NoticeItems(r, e) = N
    <3>1. r.w = n  BY RectFields
    <3>2. e = "messages" => n = NoticeBytes["messages"]  OBVIOUS
    <3> HIDE DEF r, n
    <3> QED  BY <1>3, <3>1, <3>2 DEF NoticeItems
  <2>4. Len(N) \in Nat  OBVIOUS
  <2> HIDE DEF r, n, i
  <2>5. IsTold(o, u, r, e, N)  BY <2>2, BytesTold
  <2> HIDE DEF N, u
  <2> QED  BY <2>1, <2>3, <2>4, <2>5, ToldTells
<1> QED  BY <1>1, <1>2, <1>3 DEF NoticeNames

LEMMA DueNext ==
  ASSUME NEW due, NEW k \in Nat
  PROVE  /\ Cardinality(DueUpTo(due, k)) \in Nat
         /\ Cardinality(DueUpTo(due, k + 1)) = Cardinality(DueUpTo(due, k)) + (IF Notices[k + 1] \in due THEN 1 ELSE 0)
<1> DEFINE A == DueUpTo(due, k)  B == DueUpTo(due, k + 1)  j == k + 1
<1>1. IsFiniteSet(1 .. k)
  <2> DEFINE one == 1
  <2>1. one \in Int /\ k \in Int  OBVIOUS
  <2> HIDE DEF one
  <2>2. IsFiniteSet(one .. k)  BY <2>1, FS_Interval
  <2> QED  BY <2>2 DEF one
<1>2. A \subseteq 1 .. k  BY DEF DueUpTo
<1>3. IsFiniteSet(A) /\ Cardinality(A) \in Nat
  <2>1. IsFiniteSet(A)  BY <1>1, <1>2, FS_Subset
  <2> QED  BY <2>1, FS_CardinalityType
<1>4. CASE Notices[j] \in due
  <2>1. B = A \cup {j} /\ j \notin A  BY <1>4 DEF DueUpTo
  <2> HIDE DEF A, B, j
  <2>2. Cardinality(A \cup {j}) = Cardinality(A) + 1  BY <1>3, <2>1, FS_AddElement
  <2> QED  BY <1>3, <1>4, <2>1, <2>2 DEF A, B, j
<1>5. CASE Notices[j] \notin due
  <2>1. B = A  BY <1>5 DEF DueUpTo
  <2> HIDE DEF A, B
  <2> QED  BY <1>3, <1>5, <2>1 DEF A, B, j
<1> QED  BY <1>3, <1>4, <1>5

\* All the notices that are due, in as many rectangles as were counted.
LEMMA NoticedTold ==
  ASSUME NEW scr \in Pictures, NEW o, IsOut(o), NEW due, NEW c \in Nat \X Nat, due # {} => CursorFits(c)
  PROVE  NoticesTold(scr, o, Noticed(due, c, o), due)
<1> DEFINE n == Len(Notices)  f == Noticing!After(due, c, o, Notices)
           Q == {i \in 0 .. n : /\ Serve(scr, o, f[i], {}) /\ f[i].headers = o.headers + Cardinality(DueUpTo(due, i))
                                /\ f[i].ublen <= o.ublen}
<1>1. n = 6 /\ n \in Nat /\ \A i \in 1 .. n : Notices[i] \in NoticeNames  BY NoticesAre
<1>2. f[0] = o /\ \A i \in 1 .. n : f[i] = NoticeStep(due, c, f[i - 1], Notices[i])
  <2>1. n \in Nat  BY <1>1
  <2> QED  BY <2>1, Noticing!AfterExists, Reached DEF Noticing!Upward
<1>3. Noticed(due, c, o) = f[n]  BY DEF Noticed
<1>4. o.headers \in Nat /\ o.ublen \in Nat  BY Sizes DEF IsOut
<1> HIDE DEF n, f
<1>5. 0 \in Q
  <2>1. Serve(scr, o, f[0], {})
    <3>1. Quiet(o, f[0])  BY <1>2 DEF Quiet
    <3> QED  BY <1>2, <3>1, ServeNothing
  <2>2. Cardinality(DueUpTo(due, 0)) = 0
    <3>1. DueUpTo(due, 0) = {}  BY DEF DueUpTo
    <3> QED  BY <3>1, FS_EmptySet
  <2>3. f[0].ublen <= o.ublen /\ f[0].headers = o.headers + 0  BY <1>2, <1>4
  <2> QED  BY <1>1, <2>1, <2>2, <2>3
<1>6. ASSUME NEW k \in 0 .. n - 1, k \in Q PROVE k + 1 \in Q
  <2> DEFINE j == k + 1  p == f[k]  q == f[j]  e == Notices[j]  a == Cardinality(DueUpTo(due, k))
             b == Cardinality(DueUpTo(due, j))
  <2>1. j \in 1 .. n /\ j \in 0 .. n /\ j - 1 = k /\ k \in Nat  BY <1>1
  <2>2. Serve(scr, o, p, {}) /\ p.headers = o.headers + a /\ p.ublen <= o.ublen  BY <1>6
  <2>3. a \in Nat /\ b = a + (IF e \in due THEN 1 ELSE 0)  BY <2>1, DueNext
  <2>4. q = NoticeStep(due, c, p, e) /\ e \in NoticeNames  BY <1>1, <1>2, <2>1
  <2> HIDE DEF j, p, q, e, a, b
  <2>5. IsOut(p)  BY <2>2 DEF Serve
  <2>6. CASE e \in due
    <3>1. q = SendNotice(p, e, c)  BY <2>4, <2>6 DEF NoticeStep
    <3>2. CursorFits(c)  BY <2>6
    <3>3. Tells(scr, p, q)  BY <2>4, <2>5, <3>1, <3>2, NoticeTold
    <3>4. Serve(scr, p, q, {}) /\ q.headers = p.headers + 1 /\ q.ublen = 0  BY <3>3 DEF Tells
    <3>5. Serve(scr, o, q, {} \cup {})  BY <2>2, <3>4, ServeBoth
    <3>6. q.headers = o.headers + b /\ q.ublen <= o.ublen  BY <1>4, <2>2, <2>3, <2>6, <3>4
    <3> QED  BY <2>1, <3>5, <3>6 DEF q, b, j
  <2>7. CASE e \notin due
    <3>1. q = p  BY <2>4, <2>7 DEF NoticeStep
    <3>2. q.headers = o.headers + b  BY <2>2, <2>3, <2>7, <3>1
    <3> QED  BY <2>1, <2>2, <3>1, <3>2 DEF q, b, j
  <2> QED  BY <2>6, <2>7
<1>7. n \in Q
  <2>1. \A k \in 0 .. n : k \in Q
    <3> HIDE DEF Q
    <3> QED  BY <1>1, <1>5, <1>6, Reached
  <2> QED  BY <1>1, <2>1
<1>8. Cardinality(DueUpTo(due, n)) = Number0(due)  BY <1>1, NoticesAre DEF DueUpTo, Number0
<1> QED  BY <1>3, <1>7, <1>8 DEF NoticesTold

-----------------------------------------------------------------------------
(* The order of the copies. *)

\* Each has its place: as many are ahead of it.
LEMMA SortExists ==
  ASSUME NEW n \in Nat, NEW R, IsOrder(R, n)
  PROVE  \E t : Sorts(t, R, n)
<1> DEFINE N == 1 .. n  Ahead(i) == {j \in N : <<j, i>> \in R}  rank == [i \in N |-> Cardinality(Ahead(i)) + 1]
<1>1. IsFiniteSet(N) /\ Cardinality(N) = n
  <2> DEFINE one == 1
  <2>1. one \in Int /\ n \in Int /\ one = 1  OBVIOUS
  <2> HIDE DEF one
  <2>2. IsFiniteSet(one .. n) /\ Cardinality(one .. n) = IF one > n THEN 0 ELSE n - one + 1  BY <2>1, FS_Interval
  <2>3. (IF one > n THEN 0 ELSE n - one + 1) = n  BY <2>1
  <2> QED  BY <2>1, <2>2, <2>3 DEF one
<1> HIDE DEF N
<1>2. \A i \in N : Ahead(i) \in SUBSET N  OBVIOUS
<1>3. ASSUME NEW i \in N PROVE IsFiniteSet(Ahead(i)) /\ Cardinality(Ahead(i)) \in Nat /\ rank[i] \in N
  <2> DEFINE A == Ahead(i)
  <2>1. A \in SUBSET N /\ A # N
    <3>1. i \notin A  BY DEF IsOrder, N
    <3> QED  BY <1>2, <3>1
  <2>2. rank[i] = Cardinality(A) + 1  OBVIOUS
  <2> HIDE DEF A, rank
  <2>3. IsFiniteSet(A) /\ Cardinality(A) <= Cardinality(N) /\ (Cardinality(N) = Cardinality(A) => N = A)
    BY <1>1, <2>1, FS_Subset
  <2>4. Cardinality(A) \in Nat  BY <2>3, FS_CardinalityType
  <2>5. Cardinality(A) < n  BY <1>1, <2>1, <2>3, <2>4
  <2> QED  BY <2>2, <2>3, <2>4, <2>5 DEF A, N
<1>4. ASSUME NEW i \in N, NEW j \in N, <<i, j>> \in R PROVE rank[i] < rank[j]
  <2> DEFINE A == Ahead(i)  B == Ahead(j)
  <2>1. A \in SUBSET B /\ i \in B /\ i \notin A  BY <1>4 DEF IsOrder, N
  <2>2. rank[i] = Cardinality(A) + 1 /\ rank[j] = Cardinality(B) + 1  OBVIOUS
  <2>3. IsFiniteSet(A) /\ IsFiniteSet(B) /\ Cardinality(A) \in Nat /\ Cardinality(B) \in Nat  BY <1>3
  <2> HIDE DEF A, B, rank
  <2>4. Cardinality(A) <= Cardinality(B) /\ (Cardinality(B) = Cardinality(A) => B = A)  BY <2>1, <2>3, FS_Subset
  <2> QED  BY <2>1, <2>2, <2>3, <2>4
<1>5. rank \in Injection(N, N)
  <2>1. rank \in [N -> N]
    <3>1. \A i \in N : rank[i] \in N  BY <1>3
    <3> QED  BY <3>1
  <2>2. \A i \in N : rank[i] \in Int  BY <2>1 DEF N
  <2>3. \A i, j \in N : i # j => <<i, j>> \in R \/ <<j, i>> \in R  BY DEF IsOrder, N
  <2> HIDE DEF rank
  <2>4. ASSUME NEW i \in N, NEW j \in N, i # j PROVE rank[i] # rank[j]
    <3>1. CASE <<i, j>> \in R  BY <1>4, <2>2, <3>1
    <3>2. CASE <<j, i>> \in R  BY <1>4, <2>2, <3>2
    <3> QED  BY <2>3, <2>4, <3>1, <3>2
  <2> QED  BY <2>1, <2>4 DEF Injection, IsInjective
<1>6. rank \in Surjection(N, N)
  <2> HIDE DEF rank
  <2> QED  BY <1>1, <1>5, FS_Injection
<1>7. \A k \in N : \E i \in N : rank[i] = k
  <2> HIDE DEF rank
  <2> QED  BY <1>6 DEF Surjection
<1> HIDE DEF rank
<1>8. rank \in [N -> N]  BY <1>5 DEF Injection
<1> DEFINE t == [k \in N |-> CHOOSE i \in N : rank[i] = k]
<1>9. \A k \in N : t[k] \in N /\ rank[t[k]] = k  BY <1>7
<1>10. t \in [N -> N]  BY <1>9
<1> HIDE DEF t
<1>11. ASSUME NEW i \in N PROVE \E k \in N : t[k] = i
  <2>1. rank[i] \in N /\ rank[t[rank[i]]] = rank[i]  BY <1>8, <1>9
  <2>2. t[rank[i]] = i  BY <1>5, <1>9, <2>1 DEF Injection, IsInjective
  <2> QED  BY <2>1, <2>2
<1>12. ASSUME NEW k \in N, NEW l \in N, k < l PROVE <<t[k], t[l]>> \in R
  <2>1. t[k] \in N /\ t[l] \in N /\ rank[t[k]] = k /\ rank[t[l]] = l  BY <1>9
  <2>2. k \in Int /\ l \in Int  BY DEF N
  <2>3. t[k] # t[l]  BY <1>12, <2>1, <2>2
  <2> DEFINE a == t[l]  b == t[k]
  <2> HIDE DEF a, b
  <2>4. ~ <<a, b>> \in R
    <3>1. a \in N /\ b \in N /\ ~ (rank[a] < rank[b])  BY <1>12, <2>1, <2>2 DEF a, b
    <3> QED  BY <1>4, <3>1
  <2> USE DEF a, b
  <2> QED  BY <2>1, <2>3, <2>4 DEF IsOrder, N
<1> QED  BY <1>10, <1>11, <1>12 DEF Sorts, N

LEMMA AreasOn ==
  ASSUME NEW r \in Areas
  PROVE  On(r)
<1>1. /\ r = [x |-> r.x, y |-> r.y, w |-> r.w, h |-> r.h] /\ r.x \in 0 .. Width /\ r.y \in 0 .. Height
      /\ r.w \in 1 .. Width /\ r.h \in 1 .. Height /\ r.x + r.w <= Width /\ r.y + r.h <= Height  BY DEF Areas
<1>2. Width \in Nat /\ Height \in Nat  BY ScreenIs
<1> QED  BY <1>1, <1>2 DEF On, IsRect, Rect

\* What RegionAssumption says of a copy.
LEMMA CopyIs ==
  ASSUME NEW c \in Copies
  PROVE  IsCopy(c, Len(c[1]))
<1> DEFINE rs == c[1]  dx == c[2]  dy == c[3]  n == Len(rs)
<1>1. /\ c = <<c[1], c[2], c[3]>> /\ rs \in Seq(Areas) /\ rs # <<>> /\ Banded(rs)
      /\ dx \in Int /\ dy \in Int
      /\ \A i \in DOMAIN rs : [rs[i] EXCEPT !.x = @ - dx, !.y = @ - dy] \in Areas  BY RegionAssumption
<1>2. 4 + 16 * n <= UPDATE_BUF_SIZE  BY FitAssumption
<1>3. c # <<>>
  <2> DEFINE a == c[1]  b == c[2]  d == c[3]
  <2>1. c = <<a, b, d>>  BY <1>1
  <2> HIDE DEF a, b, d
  <2>2. Len(<<a, b, d>>) = 3 /\ Len(<<>>) = 0  OBVIOUS
  <2> QED  BY <2>1, <2>2
<1> HIDE DEF rs, dx, dy
<1>4. n \in Nat \ {0} /\ DOMAIN rs = 1 .. n /\ IsSeq(rs) /\ \A i \in 1 .. n : rs[i] \in Areas
  <2>0. rs \in Seq(Areas)  BY <1>1
  <2>1. n \in Nat /\ DOMAIN rs = 1 .. n  BY <2>0, LenProperties
  <2>2. \A i \in 1 .. n : rs[i] \in Areas  BY <2>0, ElementOfSeq
  <2> HIDE DEF n
  <2>3. n # 0  BY <1>1, EmptySeq DEF n
  <2> QED  BY <1>1, <2>1, <2>2, <2>3 DEF IsSeq
<1>5. ASSUME NEW i \in 1 .. n PROVE On(rs[i]) /\ Sourced(rs[i], dx, dy)
  <2> DEFINE r == rs[i]  e == [r EXCEPT !.x = r.x - dx, !.y = r.y - dy]
  <2>1. r \in Areas /\ e \in Areas  BY <1>1, <1>4, <1>5
  <2> HIDE DEF r
  <2>2. On(r)  BY <2>1, AreasOn
  <2>3. r = [x |-> r.x, y |-> r.y, w |-> r.w, h |-> r.h]  BY <2>1 DEF Areas
  <2>4. e.x = r.x - dx /\ e.y = r.y - dy /\ e.w = r.w /\ e.h = r.h  BY <2>3
  <2> HIDE DEF e
  <2>5. On(e)  BY <2>1, AreasOn
  <2>6. Sourced(r, dx, dy)  BY <1>1, <2>2, <2>4, <2>5 DEF On, IsRect, Sourced
  <2> QED  BY <2>2, <2>6 DEF r
<1>6. Banding(rs, n)  BY <1>1, <1>4 DEF Banded, Banding
<1> QED  BY <1>1, <1>2, <1>3, <1>4, <1>5, <1>6 DEF IsCopy, rs, dx, dy

\* The order of the reverse iterator is one.
LEMMA EarlierOrders ==
  ASSUME NEW c, NEW n, IsCopy(c, n)
  PROVE  IsOrder({p \in (1 .. n) \X (1 .. n) : Earlier(c, c[1][p[1]], c[1][p[2]])}, n)
<1> DEFINE rs == c[1]  R == {p \in (1 .. n) \X (1 .. n) : Earlier(c, rs[p[1]], rs[p[2]])}
<1>1. \A i, j \in 1 .. n : <<i, j>> \in R <=> Earlier(c, rs[i], rs[j])  OBVIOUS
<1>2. \A i \in 1 .. n : rs[i].x \in Int /\ rs[i].y \in Int /\ rs[i].w \in Nat \ {0} /\ rs[i].h \in Nat \ {0}
  BY DEF IsCopy, On, IsRect
<1>3. c[2] \in Int /\ c[3] \in Int /\ n \in Nat /\ Banding(rs, n)  BY DEF IsCopy
<1> HIDE DEF R, rs
<1>4. \A i, j, k \in 1 .. n : <<i, j>> \in R /\ <<j, k>> \in R => <<i, k>> \in R  BY <1>1, <1>2, <1>3 DEF Earlier
<1>5. \A i \in 1 .. n : <<i, i>> \notin R  BY <1>1, <1>2, <1>3 DEF Earlier
<1>6. ASSUME NEW i \in 1 .. n, NEW j \in 1 .. n, i # j PROVE <<i, j>> \in R \/ <<j, i>> \in R
  <2> DEFINE a == rs[i]  b == rs[j]
  <2>1. a.y # b.y \/ a.x # b.x  BY <1>2, <1>3, <1>6 DEF Banding
  <2>2. Earlier(c, a, b) \/ Earlier(c, b, a)  BY <1>2, <1>3, <2>1 DEF Earlier
  <2> QED  BY <1>1, <2>2
<1>7. IsOrder(R, n)  BY <1>4, <1>5, <1>6 DEF IsOrder
<1> QED  BY <1>7 DEF R, rs

\* A later copy does not read what an earlier one has written.
LEMMA EarlierApart ==
  ASSUME NEW c, NEW n, IsCopy(c, n), NEW i \in 1 .. n, NEW j \in 1 .. n, Earlier(c, c[1][i], c[1][j]), NEW p \in Points(c[1][j])
  PROVE  <<p[1] - c[2], p[2] - c[3]>> \notin Points(c[1][i])
<1> DEFINE a == c[1][i]  b == c[1][j]  dx == c[2]  dy == c[3]  u == p[1] - dx  v == p[2] - dy  s == <<u, v>>
<1>1. a.x \in Int /\ a.y \in Int /\ a.w \in Nat \ {0} /\ a.h \in Nat \ {0}  BY DEF IsCopy, On, IsRect
<1>2. b.x \in Int /\ b.y \in Int /\ b.w \in Nat \ {0} /\ b.h \in Nat \ {0}  BY DEF IsCopy, On, IsRect
<1>3. dx \in Int /\ dy \in Int /\ Banding(c[1], n) /\ n \in Nat  BY DEF IsCopy
<1>4. i # j  BY <1>1, <1>3 DEF Earlier
<1>5. \/ a.y + a.h <= b.y \/ (a.y = b.y /\ a.x + a.w <= b.x)
      \/ b.y + b.h <= a.y \/ (a.y = b.y /\ b.x + b.w <= a.x)  BY <1>3, <1>4 DEF Banding
<1>6. IF a.y = b.y THEN (IF dx > 0 THEN a.x > b.x ELSE a.x < b.x)
                   ELSE (IF dy > 0 THEN a.y > b.y ELSE a.y < b.y)  BY DEF Earlier
<1>7. p[1] \in Int /\ p[2] \in Int /\ b.x <= p[1] /\ p[1] < b.x + b.w /\ b.y <= p[2] /\ p[2] < b.y + b.h
  <2> DEFINE r == b
  <2>1. r.x \in Int /\ r.y \in Int /\ r.w \in Int /\ r.h \in Int  BY <1>2
  <2>2. p \in Points(r)  OBVIOUS
  <2> HIDE DEF r
  <2>3. p[1] \in Int /\ p[2] \in Int /\ r.x <= p[1] /\ p[1] < r.x + r.w /\ r.y <= p[2] /\ p[2] < r.y + r.h
    BY <2>1, <2>2, PointsOf
  <2> QED  BY <2>3 DEF r
<1>8. SUFFICES ASSUME s \in Points(a) PROVE FALSE  OBVIOUS
<1>9. a.x <= u /\ u < a.x + a.w /\ a.y <= v /\ v < a.y + a.h
  <2> DEFINE r == a
  <2>1. r.x \in Int /\ r.y \in Int /\ r.w \in Int /\ r.h \in Int /\ s \in Points(r)  BY <1>1, <1>8
  <2> HIDE DEF r, u, v
  <2>2. r.x <= s[1] /\ s[1] < r.x + r.w /\ r.y <= s[2] /\ s[2] < r.y + r.h  BY <2>1, PointsOf
  <2> QED  BY <2>2 DEF r
<1> DEFINE ax == a.x ay == a.y aw == a.w ah == a.h bx == b.x by == b.y bw == b.w bh == b.h px == p[1] py == p[2]
<1>10. ax \in Int /\ ay \in Int /\ aw \in Nat \ {0} /\ ah \in Nat \ {0} /\ bx \in Int /\ by \in Int
       /\ bw \in Nat \ {0} /\ bh \in Nat \ {0} /\ px \in Int /\ py \in Int /\ dx \in Int /\ dy \in Int
  BY <1>1, <1>2, <1>3, <1>7
<1>11. /\ bx <= px /\ px < bx + bw /\ by <= py /\ py < by + bh
       /\ ax <= px - dx /\ px - dx < ax + aw /\ ay <= py - dy /\ py - dy < ay + ah  BY <1>7, <1>9
<1>12. \/ ay + ah <= by \/ (ay = by /\ ax + aw <= bx)
       \/ by + bh <= ay \/ (ay = by /\ bx + bw <= ax)  BY <1>5
<1>13. IF ay = by THEN (IF dx > 0 THEN ax > bx ELSE ax < bx)
                  ELSE (IF dy > 0 THEN ay > by ELSE ay < by)  BY <1>6
<1> HIDE DEF ax, ay, aw, ah, bx, by, bw, bh, px, py, dx, dy
<1> QED  BY <1>10, <1>11, <1>12, <1>13

LEMMA CopyOrderIs ==
  ASSUME NEW c, NEW n, IsCopy(c, n)
  PROVE  IsCopyOrder(c, CopyOrder(c))
<1> DEFINE rs == c[1]  N == 1 .. n  R == {p \in N \X N : Earlier(c, rs[p[1]], rs[p[2]])}
<1>1. n \in Nat /\ DOMAIN rs = N  BY DEF IsCopy
<1>2. CopyOrder(c) = CHOOSE s \in [DOMAIN c[1] -> ToSet(c[1])] :
                       ToSet(s) = ToSet(c[1]) /\ \A i, j \in DOMAIN s : i < j => Earlier(c, s[i], s[j])
  BY DEF CopyOrder, Earlier
<1>3. IsOrder(R, n)  BY EarlierOrders
<1>4. \A i, j \in N : <<i, j>> \in R => Earlier(c, rs[i], rs[j])  OBVIOUS
<1> HIDE DEF R, rs
<1>5. PICK t : Sorts(t, R, n)  BY <1>1, <1>3, SortExists
<1>6. /\ t \in [N -> N] /\ (\A i \in N : \E k \in N : t[k] = i) /\ \A k, l \in N : k < l => <<t[k], t[l]>> \in R
  BY <1>5 DEF Sorts
<1> HIDE DEF N
<1> DEFINE s == [k \in N |-> rs[t[k]]]
<1>7. ToSet(rs) = {rs[i] : i \in N} /\ DOMAIN s = N  BY <1>1 DEF ToSet
<1>8. \A k \in N : t[k] \in N /\ s[k] = rs[t[k]]  BY <1>6
<1>9. s \in [N -> ToSet(rs)]  BY <1>7, <1>8
<1>10. ToSet(s) = {s[k] : k \in N}  BY <1>7 DEF ToSet
<1> HIDE DEF s
<1>11. ToSet(s) = ToSet(rs)
  <2>1. {s[k] : k \in N} \subseteq {rs[i] : i \in N}  BY <1>8
  <2>2. ASSUME NEW i \in N PROVE rs[i] \in {s[k] : k \in N}  BY <1>6, <1>8
  <2> QED  BY <1>7, <1>10, <2>1, <2>2
<1>12. \A i, j \in DOMAIN s : i < j => Earlier(c, s[i], s[j])
  <2>1. SUFFICES ASSUME NEW i \in N, NEW j \in N, i < j PROVE Earlier(c, s[i], s[j])  BY <1>7
  <2>2. <<t[i], t[j]>> \in R /\ t[i] \in N /\ t[j] \in N  BY <1>6, <2>1
  <2>3. Earlier(c, rs[t[i]], rs[t[j]])  BY <1>4, <2>2
  <2> QED  BY <1>8, <2>3
<1>13. \E x : IsCopyOrder(c, x)  BY <1>1, <1>9, <1>11, <1>12 DEF IsCopyOrder, rs
<1>14. CopyOrder(c) = CHOOSE x \in [DOMAIN c[1] -> ToSet(c[1])] :
                        ToSet(x) = ToSet(c[1]) /\ \A i, j \in DOMAIN x : i < j => Earlier(c, x[i], x[j])  BY <1>2
<1> QED  BY <1>13, <1>14 DEF IsCopyOrder

\* CopyOrder goes through all rectangles, each before its source is overwritten.
LEMMA CopiesOrdered ==
  ASSUME NEW c, NEW n, IsCopy(c, n)
  PROVE  Ordered(c, n, CopyOrder(c))
<1> DEFINE rs == c[1]  N == 1 .. n  s == CopyOrder(c)  S == ToSet(rs)
<1>1. n \in Nat /\ DOMAIN rs = N  BY DEF IsCopy
<1>2. IsCopyOrder(c, s)  BY CopyOrderIs
<1> HIDE DEF s
<1>3. s \in [N -> S] /\ ToSet(s) = S /\ \A i, j \in N : i < j => Earlier(c, s[i], s[j])  BY <1>1, <1>2 DEF IsCopyOrder
<1>4. S = {rs[i] : i \in N} /\ S = {s[i] : i \in N}  BY <1>1, <1>3 DEF ToSet
<1>5. \A i \in N : On(rs[i]) /\ Sourced(rs[i], c[2], c[3])  BY DEF IsCopy
<1>6. Union(s) = Union(rs)
  <2>1. Union(s) = UNION {Points(s[i]) : i \in N}  BY <1>3 DEF Union
  <2>2. Union(rs) = UNION {Points(rs[i]) : i \in N}  BY <1>1 DEF Union
  <2>3. \A i \in N : \E j \in N : s[i] = rs[j]  BY <1>4
  <2>4. \A i \in N : \E j \in N : rs[i] = s[j]  BY <1>4
  <2> HIDE DEF rs
  <2> QED  BY <2>1, <2>2, <2>3, <2>4
<1>7. IsSeq(s) /\ Len(s) = n /\ DOMAIN s = N  BY <1>1, <1>3 DEF IsSeq
<1>8. \A k \in N : \E i \in N : s[k] = rs[i]  BY <1>4
<1>9. \A k \in N : On(s[k]) /\ Sourced(s[k], c[2], c[3])  BY <1>5, <1>8
<1>10. ASSUME NEW k \in N, NEW l \in N, k < l, NEW p \in Points(s[l])
       PROVE  <<p[1] - c[2], p[2] - c[3]>> \notin Points(s[k])
  <2>1. PICK i \in N, j \in N : s[k] = c[1][i] /\ s[l] = c[1][j]  BY <1>8
  <2>2. Earlier(c, c[1][i], c[1][j])  BY <1>3, <1>10, <2>1
  <2>3. p \in Points(c[1][j])  BY <1>10, <2>1
  <2>4. <<p[1] - c[2], p[2] - c[3]>> \notin Points(c[1][i])  BY <2>2, <2>3, EarlierApart
  <2> QED  BY <2>1, <2>4
<1> QED  BY <1>6, <1>7, <1>9, <1>10 DEF Ordered, s

-----------------------------------------------------------------------------
(* What has been read so far, from the picture there was before the update. *)

LEMMA SourceIs ==
  ASSUME NEW r, On(r), NEW dx \in Int, NEW dy \in Int, Sourced(r, dx, dy), NEW p \in Points(r)
  PROVE  <<p[1] - dx, p[2] - dy>> \in Screen
<1> DEFINE u == p[1] - dx  v == p[2] - dy
<1>1. r.x \in Int /\ r.y \in Int /\ r.w \in Int /\ r.h \in Int  BY DEF On, IsRect
<1>2. p[1] \in Int /\ p[2] \in Int /\ r.x <= p[1] /\ p[1] < r.x + r.w /\ r.y <= p[2] /\ p[2] < r.y + r.h
  BY <1>1, PointsOf
<1>3. Width \in Nat /\ Height \in Nat /\ Screen = (0 .. Width - 1) \X (0 .. Height - 1)  BY ScreenIs
<1>4. 0 <= r.x - dx /\ 0 <= r.y - dy /\ r.x - dx + r.w <= Width /\ r.y - dy + r.h <= Height  BY DEF Sourced
<1>5. u \in 0 .. Width - 1 /\ v \in 0 .. Height - 1  BY <1>1, <1>2, <1>3, <1>4
<1> QED  BY <1>3, <1>5

LEMMA MovedSeen ==
  ASSUME NEW pic \in Seen, NEW r, On(r), NEW dx \in Int, NEW dy \in Int, Sourced(r, dx, dy)
  PROVE  MovedBy(pic, Points(r), dx, dy) \in Seen
<1>1. \A p \in Points(r) : <<p[1] - dx, p[2] - dy>> \in Screen  BY SourceIs
<1> QED  BY <1>1 DEF MovedBy, Seen

\* The viewer moves pixels of its own.
LEMMA CopyRead ==
  ASSUME NEW pic \in Seen, NEW items, IsSeq(items), NEW at, NEW inf, NEW r, NEW dx \in Int, NEW dy \in Int,
         r.x \in Int, r.y \in Int, at \in 1 .. Len(items), items[at] = <<"source", r.x - dx, r.y - dy>>
  PROVE  HandleCopyRect(View(items, pic, at, inf), r) = View(items, MovedBy(pic, Points(r), dx, dy), at + 1, inf)
<1> DEFINE v == View(items, pic, at, inf)  a == r.x - dx  b == r.y - dy  src == <<"source", a, b>>  next == at + 1
           u == View(items, pic, next, inf)
           from(p) == <<p[1] - r.x + a, p[2] - r.y + b>>
           m == [p \in Screen |-> IF p \in Points(r) THEN pic[from(p)] ELSE pic[p]]
<1>1. Next1(v) = src  BY NextIs
<1>2. Took(v) = u  BY ViewIs
<1>3. u.pic = pic /\ DOMAIN pic = Screen  BY ViewFields DEF Seen
<1>4. src[1] = "source" /\ src[2] = a /\ src[3] = b  OBVIOUS
<1> HIDE DEF v, u, src, a, b
<1>5. HandleCopyRect(v, r) = [u EXCEPT !.pic = m]  BY <1>1, <1>2, <1>3, <1>4 DEF HandleCopyRect
<1>6. m = MovedBy(pic, Points(r), dx, dy)
  <2>1. ASSUME NEW p \in Points(r) PROVE from(p) = <<p[1] - dx, p[2] - dy>>
    <3>1. p \in (r.x .. r.x + r.w - 1) \X (r.y .. r.y + r.h - 1)  BY DEF Points
    <3>2. p[1] \in Int /\ p[2] \in Int  BY <3>1
    <3>3. p[1] - r.x + a = p[1] - dx /\ p[2] - r.y + b = p[2] - dy  BY <3>2 DEF a, b
    <3> QED  BY <3>3
  <2>2. \A p \in Screen : (IF p \in Points(r) THEN pic[from(p)] ELSE pic[p])
                            = IF p \in Points(r) THEN pic[<<p[1] - dx, p[2] - dy>>] ELSE pic[p]  BY <2>1
  <2> HIDE DEF from
  <2> QED  BY <2>2 DEF MovedBy
<1> HIDE DEF m, next
<1>7. [u EXCEPT !.pic = m] = View(items, m, next, inf)  BY DEF u, View, Viewing
<1> QED  BY <1>5, <1>6, <1>7 DEF v, next

\* What serves D adds D to the picture that is read.
LEMMA ReadsMore ==
  ASSUME NEW scr \in Pictures, NEW first, NEW o, NEW P, NEW q, NEW D, Reads(first, o, P), Serve(scr, o, q, D)
  PROVE  Reads(first, q, Overlay(P, D, scr))
<1> DEFINE m == o.headers  n == q.headers - o.headers  z == View(P, first, 1, Zero)
<1>1. IsOut(o) /\ P \in Seen /\ IsOut(q) /\ o.headers <= q.headers /\ Extends(q.items, o.items)  BY DEF Reads, Serve
<1>2. IsSeq(o.items) /\ IsSeq(q.items) /\ m \in Nat /\ n \in Nat /\ m + n = q.headers  BY <1>1 DEF IsOut
<1>3. Overlay(P, D, scr) \in Seen  BY <1>1, OverlayIs
<1>4. ASSUME NEW items, IsSeq(items), Extends(items, q.items)
      PROVE  Turning(View(items, first, 1, Zero), q.headers, View(items, Overlay(P, D, scr), Len(q.items) + 1, q.deflated))
  <2> DEFINE u == View(items, first, 1, Zero)  v == View(items, P, Len(o.items) + 1, o.deflated)
             w == View(items, Overlay(P, D, scr), Len(q.items) + 1, q.deflated)
  <2>1. Extends(items, o.items)  BY <1>1, <1>2, <1>4, ExtendsMore
  <2>2. Turning(u, m, v)  BY <1>4, <2>1 DEF Reads
  <2>3. Turning(v, n, w)  BY <1>1, <1>4 DEF Serve
  <2> HIDE DEF u, v, w, m, n
  <2>4. Turning(u, m + n, w)  BY <1>2, <2>2, <2>3, TurningBoth
  <2> QED  BY <1>2, <2>4 DEF u, w
<1> QED  BY <1>1, <1>3, <1>4 DEF Reads

\* Nothing has been written but the header of the message.
LEMMA ReadsStart ==
  ASSUME NEW first \in Seen
  PROVE  Reads(first, Out(4, 4, 0, <<>>, Zero), first) /\ Out(4, 4, 0, <<>>, Zero).ublen = 4
         /\ Out(4, 4, 0, <<>>, Zero).headers = 0
<1> DEFINE four == 4  none == 0  e == <<>>  o == Out(four, four, none, e, Zero)
<1>1. four \in 0 .. UPDATE_BUF_SIZE /\ four \in 4 .. UPDATE_BUF_SIZE  BY Sizes
<1>2. IsSeq(e) /\ Len(e) = none  BY DEF IsSeq
<1>3. none \in Nat /\ none <= Len(e) /\ Zero \in [Streams -> Nat]  BY <1>2 DEF Zero
<1> HIDE DEF four, none, e
<1>4. IsOut(o)  BY <1>1, <1>2, <1>3, OutIs
<1>5. o.headers = none /\ o.items = e /\ o.deflated = Zero /\ o.ublen = four  BY OutFields
<1> HIDE DEF o
<1>6. ASSUME NEW items PROVE Turning(View(items, first, 1, Zero), 0, View(items, first, 1, Zero))
  <2> DEFINE v == View(items, first, 1, Zero)  g == [i \in {0} |-> v]
  <2>1. Reader(v)  BY Readers
  <2> HIDE DEF v
  <2>2. g[0] = v /\ (\A i \in 1 .. 0 : g[i] = HandleRect(g[i - 1])) /\ \A i \in 0 .. 0 : Reader(g[i])  BY <2>1
  <2> QED  BY <2>2 DEF Turning, v
<1>7. Len(o.items) + 1 = 1 /\ o.headers = 0  BY <1>2, <1>5 DEF none
<1>8. Reads(first, o, first)  BY <1>4, <1>5, <1>6, <1>7 DEF Reads
<1> QED  BY <1>5, <1>8 DEF o, four, none, e

\* One rectangle of a copy.
LEMMA CopySent ==
  ASSUME NEW first, NEW o, NEW P, Reads(first, o, P), NEW r, On(r), NEW dx \in Int, NEW dy \in Int,
         Sourced(r, dx, dy), o.ublen + 16 <= UPDATE_BUF_SIZE
  PROVE  CopyAdds(first, o, CopyStep(dx, dy, o, r), P, Points(r), dx, dy)
<1> DEFINE src == <<"source", r.x - dx, r.y - dy>>  h == Header(o, r, "copyrect")  four == 4  q == Put(h, src, four)
           e == <<"rect", r, "copyrect">>
           M == MovedBy(P, Points(r), dx, dy)  z == Len(o.items)  b == z + 1  c == b + 1
<1>0. CopyStep(dx, dy, o, r) = q  BY DEF CopyStep
<1>1. IsOut(o) /\ P \in Seen /\ r.x \in Int /\ r.y \in Int  BY DEF Reads, On, IsRect
<1>2. o.ublen \in Nat /\ IsSeq(o.items) /\ o.headers \in Nat /\ o.ublen + 12 <= UPDATE_BUF_SIZE
  BY <1>1, Sizes DEF IsOut
<1>3. IsOut(h) /\ h.headers = o.headers + 1 /\ h.items = Append(o.items, e) /\ h.deflated = o.deflated /\ h.ublen = o.ublen + 12
  BY <1>1, <1>2, HeaderIs
<1>4. M \in Seen  BY <1>1, MovedSeen
<1> HIDE DEF h, src, M
<1>5. four \in Nat /\ h.ublen + four <= UPDATE_BUF_SIZE  BY <1>2, <1>3
<1> HIDE DEF four
<1>6. IsOut(q) /\ Adds(h, q, src) /\ q.ublen = h.ublen + four  BY <1>3, <1>5, PutIs
<1> HIDE DEF q, e
<1>7. /\ q.headers = o.headers + 1 /\ q.deflated = o.deflated /\ q.ublen = o.ublen + 16
      /\ Ends2(q.items, o.items, e, src)  BY <1>2, <1>3, <1>6 DEF Adds, Ends2, four
<1>8. IsSeq(q.items) /\ Extends(q.items, o.items) /\ Len(q.items) = Len(o.items) + 2  BY <1>2, <1>7, Follow2
<1>9. \A items : IsSeq(items) /\ Extends(items, q.items) => Follows2(items, o.items, e, src)  BY <1>2, <1>7, Follow2
<1>10. z \in Nat  BY <1>2, Appended
<1>11. ASSUME NEW items, IsSeq(items), Extends(items, q.items)
       PROVE  Turning(View(items, first, 1, Zero), q.headers, View(items, M, Len(q.items) + 1, q.deflated))
  <2> DEFINE u == View(items, first, 1, Zero)  v == View(items, P, b, o.deflated)  w == View(items, M, c + 1, o.deflated)
             m == o.headers  one == 1
  <2>1. Follows2(items, o.items, e, src)  BY <1>9, <1>11
  <2>2. b \in 1 .. Len(items) /\ items[b] = e /\ c \in 1 .. Len(items) /\ items[c] = src
    BY <1>10, <2>1 DEF Follows1, Follows2
  <2>3. HandleRect(v) = Handle(View(items, P, c, o.deflated), r, "copyrect")
    <3> DEFINE enc == "copyrect"
    <3>1. enc # "last" /\ items[b] = <<"rect", r, enc>>  BY <2>2 DEF e
    <3> HIDE DEF b, enc
    <3>2. HandleRect(View(items, P, b, o.deflated)) = Handle(View(items, P, b + 1, o.deflated), r, enc)
      BY <1>11, <2>2, <3>1, HeaderRead
    <3> QED  BY <3>2 DEF enc
  <2>4. HandleCopyRect(View(items, P, c, o.deflated), r) = w
    <3>1. items[c] = <<"source", r.x - dx, r.y - dy>>  BY <2>2 DEF src
    <3> HIDE DEF c
    <3>2. HandleCopyRect(View(items, P, c, o.deflated), r) = View(items, MovedBy(P, Points(r), dx, dy), c + 1, o.deflated)
      BY <1>1, <1>11, <2>2, <3>1, CopyRead
    <3> QED  BY <3>2 DEF M
  <2>5. HandleRect(v) = w  BY <2>3, <2>4, Handled
  <2>6. Reader(v) /\ Reader(w)  BY <1>1, <1>4, Readers
  <2>7. Extends(items, o.items)  BY <1>2, <1>8, <1>11, ExtendsMore
  <2>8. Turning(u, m, v)  BY <1>11, <2>7 DEF Reads
  <2> HIDE DEF u, v, w
  <2>9. Turning(v, one, w)
    <3>1. Turning(v, 1, HandleRect(v))  BY <2>5, <2>6, TurningOne
    <3> QED  BY <2>5, <3>1
  <2>10. m \in Nat /\ one \in Nat  BY <1>2
  <2> HIDE DEF m, one
  <2>11. Turning(u, m + one, w)  BY <2>8, <2>9, <2>10, TurningBoth
  <2>12. m + one = q.headers /\ c + 1 = Len(q.items) + 1 /\ o.deflated = q.deflated  BY <1>7, <1>8, <1>10 DEF m, one
  <2> QED  BY <2>11, <2>12 DEF u, w
<1>12. Reads(first, q, M)  BY <1>4, <1>6, <1>11 DEF Reads
<1> QED  BY <1>0, <1>7, <1>12 DEF CopyAdds, M

LEMMA MovedMore ==
  ASSUME NEW P \in Seen, NEW U, NEW D, NEW dx, NEW dy,
         \A p \in D : <<p[1] - dx, p[2] - dy>> \in Screen /\ <<p[1] - dx, p[2] - dy>> \notin U
  PROVE  MovedBy(MovedBy(P, U, dx, dy), D, dx, dy) = MovedBy(P, U \cup D, dx, dy)
<1> DEFINE from(p) == <<p[1] - dx, p[2] - dy>>
           M == [p \in Screen |-> IF p \in U THEN P[from(p)] ELSE P[p]]
<1>1. \A V, Q : MovedBy(Q, V, dx, dy) = [p \in Screen |-> IF p \in V THEN Q[from(p)] ELSE Q[p]]  BY DEF MovedBy
<1>2. \A p \in D : from(p) \in Screen /\ from(p) \notin U  OBVIOUS
<1> HIDE DEF from
<1>3. \A p \in D : M[from(p)] = P[from(p)]  BY <1>2
<1>4. \A p \in Screen : (IF p \in D THEN M[from(p)] ELSE M[p]) = IF p \in U \cup D THEN P[from(p)] ELSE P[p]  BY <1>3
<1>5. MovedBy(P, U, dx, dy) = M  BY <1>1
<1> HIDE DEF M
<1> QED  BY <1>1, <1>4, <1>5

\* All of them move the region, as rfbDoCopyRegion has.
LEMMA CopiesSent ==
  ASSUME NEW first, NEW o, NEW P, Reads(first, o, P), NEW c, NEW n, IsCopy(c, n), NEW s, Ordered(c, n, s), o.ublen <= 4
  PROVE  Copies0(first, o, AllCopied(c, o, s), P, c, n)
<1> DEFINE dx == c[2]  dy == c[3]  f == Copying!After(dx, dy, o, s)  M(i) == MovedBy(P, FirstOnes(s, i), dx, dy)
           Q == {i \in 0 .. n : Reads(first, f[i], M(i)) /\ f[i].ublen <= 4 + 16 * i /\ f[i].headers = o.headers + i}
<1>1. n \in Nat /\ Len(s) = n /\ dx \in Int /\ dy \in Int /\ 4 + 16 * n <= UPDATE_BUF_SIZE  BY DEF IsCopy, Ordered
<1>2. /\ \A k \in 1 .. n : On(s[k]) /\ Sourced(s[k], dx, dy)
      /\ Union(s) = Union(c[1]) /\ DOMAIN s = 1 .. n
      /\ \A k, l \in 1 .. n : k < l => \A p \in Points(s[l]) : <<p[1] - dx, p[2] - dy>> \notin Points(s[k])
  BY DEF Ordered
<1>3. f[0] = o /\ \A i \in 1 .. n : f[i] = CopyStep(dx, dy, f[i - 1], s[i])
  <2>1. Len(s) \in Nat  BY <1>1
  <2> HIDE DEF dx, dy
  <2> QED  BY <1>1, <2>1, Copying!AfterExists, Reached DEF Copying!Upward
<1>4. AllCopied(c, o, s) = f[n]  BY <1>1 DEF AllCopied
<1>5. P \in Seen /\ IsOut(o) /\ o.headers \in Nat /\ o.ublen \in Nat  BY Sizes DEF Reads, IsOut
<1> HIDE DEF f, dx, dy
<1>6. 0 \in Q
  <2>1. FirstOnes(s, 0) = {}  BY DEF FirstOnes
  <2>2. M(0) = P  BY <1>5, <2>1 DEF MovedBy, Seen
  <2>3. Reads(first, f[0], M(0)) /\ f[0].ublen <= 4 + 16 * 0 /\ f[0].headers = o.headers + 0  BY <1>3, <1>5, <2>2
  <2> QED  BY <1>1, <2>3
<1>7. ASSUME NEW k \in 0 .. n - 1, k \in Q PROVE k + 1 \in Q
  <2> DEFINE j == k + 1  p == f[k]  q == f[j]  r == s[j]  X == M(k)  U == FirstOnes(s, k)
  <2>1. j \in 1 .. n /\ j \in 0 .. n /\ j - 1 = k /\ k \in Nat  BY <1>1
  <2>2. Reads(first, p, X) /\ p.ublen <= 4 + 16 * k /\ p.headers = o.headers + k  BY <1>7
  <2>3. On(r) /\ Sourced(r, dx, dy)  BY <1>2, <2>1
  <2>4. q = CopyStep(dx, dy, p, r)  BY <1>3, <2>1
  <2>5. p.ublen \in Nat
    <3>1. IsOut(p)  BY <2>2 DEF Reads
    <3> QED  BY <3>1, Sizes DEF IsOut
  <2>6. MovedBy(X, Points(r), dx, dy) = M(j)
    <3>1. ASSUME NEW t \in Points(r) PROVE <<t[1] - dx, t[2] - dy>> \in Screen /\ <<t[1] - dx, t[2] - dy>> \notin U
      <4>1. <<t[1] - dx, t[2] - dy>> \in Screen
        <5> HIDE DEF r
        <5> QED  BY <1>1, <2>3, <3>1, SourceIs
      <4>2. \A i \in 1 .. k : i \in 1 .. n /\ i < j  BY <1>1, <2>1
      <4>3. \A i \in 1 .. k : <<t[1] - dx, t[2] - dy>> \notin Points(s[i])  BY <1>2, <2>1, <3>1, <4>2
      <4> QED  BY <4>1, <4>3 DEF FirstOnes
    <3>2. U \cup Points(r) = FirstOnes(s, j)
      <4>1. 1 .. j = 1 .. k \cup {j}  BY <2>1
      <4> QED  BY <4>1 DEF FirstOnes
    <3> HIDE DEF U, r
    <3>3. MovedBy(MovedBy(P, U, dx, dy), Points(r), dx, dy) = MovedBy(P, U \cup Points(r), dx, dy)
      BY <1>5, <3>1, MovedMore
    <3> QED  BY <3>2, <3>3 DEF U
  <2> HIDE DEF j, p, q, r, X, U
  <2>7. p.ublen + 16 <= UPDATE_BUF_SIZE  BY <1>1, <2>2, <2>5, Sizes
  <2>8. CopyAdds(first, p, q, X, Points(r), dx, dy)  BY <1>1, <2>2, <2>3, <2>4, <2>7, CopySent
  <2>9. Reads(first, q, MovedBy(X, Points(r), dx, dy)) /\ q.ublen = p.ublen + 16 /\ q.headers = p.headers + 1
    BY <2>8 DEF CopyAdds
  <2>10. Reads(first, q, M(j))  BY <2>6, <2>9
  <2>11. q.ublen <= 4 + 16 * j /\ q.headers = o.headers + j  BY <1>5, <2>1, <2>2, <2>5, <2>9 DEF j
  <2>12. j \in Q  BY <2>1, <2>10, <2>11 DEF q
  <2> QED  BY <2>12 DEF j
<1>8. n \in Q
  <2>1. \A k \in 0 .. n : k \in Q
    <3> HIDE DEF Q
    <3> QED  BY <1>1, <1>6, <1>7, Reached
  <2> QED  BY <1>1, <2>1
<1>9. FirstOnes(s, n) = Union(c[1])  BY <1>2 DEF FirstOnes, Union
<1> QED  BY <1>4, <1>8, <1>9 DEF Copies0, dx, dy

-----------------------------------------------------------------------------
(* The viewer reads an update. *)

\* What is written is read, and the marker ends it.
LEMMA ReadsWill ==
  ASSUME NEW first, NEW q, NEW P, Reads(first, q, P)
  PROVE  WillRead(first, q, P, No)
<1>1. IsOut(q) /\ P \in Seen /\ IsSeq(q.items)  BY DEF Reads, IsOut
<1>2. Extends(q.items, q.items)
  <2>1. Len(q.items) \in Nat  BY <1>1, Appended
  <2> QED  BY <2>1 DEF Extends
<1>3. Turning(View(q.items, first, 1, Zero), q.headers, View(q.items, P, Len(q.items) + 1, q.deflated))
  BY <1>1, <1>2 DEF Reads
<1> QED  BY <1>1, <1>3 DEF WillRead, View

LEMMA MarkedWill ==
  ASSUME NEW first, NEW o, NEW P, Reads(first, o, P)
  PROVE  WillRead(first, Marked(o), P, Yes)
<1> DEFINE r == Rect(0, 0, 0, 0)  p == Room(o, 12)  q == Header(p, r, "last")  e == <<"rect", r, "last">>
           z == Len(o.items)  b == z + 1  c == b + 1  items == q.items
<1>1. IsOut(o) /\ P \in Seen /\ IsSeq(o.items) /\ o.headers \in Nat  BY DEF Reads, IsOut
<1>2. z \in Nat  BY <1>1, Appended
<1>3. 12 \in 0 .. UPDATE_BUF_SIZE  BY Sizes
<1>4. IsOut(p) /\ Quiet(o, p) /\ p.ublen + 12 <= UPDATE_BUF_SIZE  BY <1>1, <1>3, RoomIs
<1> HIDE DEF p, r
<1>5. IsOut(q) /\ q.headers = p.headers + 1 /\ q.items = Append(p.items, e) /\ q.deflated = p.deflated
  BY <1>4, HeaderIs
<1> HIDE DEF q
<1>6. q.headers = o.headers + 1 /\ q.items = Append(o.items, e) /\ q.deflated = o.deflated  BY <1>4, <1>5 DEF Quiet
<1> HIDE DEF e
<1>7. IsSeq(items) /\ Extends(items, o.items) /\ Len(items) = z + 1 /\ items[b] = e  BY <1>1, <1>6, Appended
<1> DEFINE u == View(items, first, 1, Zero)  v == View(items, P, b, o.deflated)  t == View(items, P, c, o.deflated)
           w == Viewing(P, items, c, Yes, Yes, o.deflated)
           m == o.headers  one == 1
<1>8. Turning(u, m, v)  BY <1>7 DEF Reads
<1> HIDE DEF items
<1>9. HandleRect(v) = w
  <2>1. b \in 1 .. Len(items)  BY <1>2, <1>7
  <2>2. Next1(v) = e
    <3> HIDE DEF b
    <3> QED  BY <1>7, <2>1, NextIs
  <2>3. Took(v) = t
    <3> HIDE DEF b
    <3> QED  BY ViewIs DEF c
  <2>4. v.ok = Yes /\ v.ended = No  BY ViewFields
  <2>5. e[1] = "rect" /\ e[3] = "last"  BY DEF e
  <2> HIDE DEF v, t
  <2>6. HandleRect(v) = [t EXCEPT !.ended = Yes]  BY <2>2, <2>3, <2>4, <2>5 DEF HandleRect, Yes, No
  <2> HIDE DEF c
  <2>7. [t EXCEPT !.ended = Yes] = w  BY DEF t, View, Viewing
  <2> QED  BY <2>6, <2>7 DEF v
<1>10. Reader(v) /\ Reader(w)  BY <1>1, Readers
<1> HIDE DEF u, v, w
<1>11. Turning(v, one, w)
  <2>1. Turning(v, 1, HandleRect(v))  BY <1>9, <1>10, TurningOne
  <2> QED  BY <1>9, <2>1
<1>12. m \in Nat /\ one \in Nat  BY <1>1
<1> HIDE DEF m, one
<1>13. Turning(u, m + one, w)  BY <1>8, <1>11, <1>12, TurningBoth
<1>14. m + one = q.headers /\ c = Len(items) + 1 /\ o.deflated = q.deflated  BY <1>2, <1>6, <1>7 DEF m, one
<1>15. Turning(u, q.headers, w)  BY <1>13, <1>14
<1>16. WillRead(first, q, P, Yes)  BY <1>1, <1>5, <1>14, <1>15 DEF WillRead, u, w, items
<1> QED  BY <1>16 DEF Marked, q, p, r

LEMMA HandleRectsIs ==
  ASSUME NEW v, NEW n, NEW m \in Nat, m = Lesser(n, Left(v) + 1)
  PROVE  \E f : ReadBy(f, v, m) /\ HandleRects(v, n) = f[m]
<1> DEFINE k == 0  s == UpTo(m)  f == Turn!After(k, k, v, s)
<1>1. Len(s) = m /\ s = [i \in 1 .. m |-> i]
  <2>1. s \in Seq(1 .. m) /\ s = [i \in 1 .. m |-> i]  BY DEF UpTo
  <2> QED  BY <2>1
<1>2. HandleRects(v, n) = f[Len(s)]  BY DEF HandleRects, InTurn, Turn!After, TurnStep
<1> HIDE DEF k, s
<1>3. f[0] = v /\ \A i \in 1 .. Len(s) : f[i] = TurnStep(k, k, f[i - 1], s[i])
  <2>1. Len(s) \in Nat  BY <1>1
  <2> QED  BY <2>1, Turn!AfterExists, Reached DEF Turn!Upward
<1> HIDE DEF f
<1>4. \A i \in 1 .. m : f[i] = HandleRect(f[i - 1])  BY <1>1, <1>3 DEF TurnStep
<1> QED  BY <1>1, <1>2, <1>3, <1>4 DEF ReadBy

\* Those that read as much agree.
LEMMA ReadByAgree ==
  ASSUME NEW f, NEW g, NEW v, NEW n \in Nat, ReadBy(f, v, n), ReadBy(g, v, n)
  PROVE  \A i \in 0 .. n : f[i] = g[i]
<1> DEFINE Q == {i \in 0 .. n : f[i] = g[i]}
<1>1. 0 \in Q  BY DEF ReadBy
<1>2. ASSUME NEW k \in 0 .. n - 1, k \in Q PROVE k + 1 \in Q
  <2>1. k + 1 \in 1 .. n /\ (k + 1) - 1 = k /\ k + 1 \in 0 .. n  OBVIOUS
  <2>2. f[k + 1] = HandleRect(f[k]) /\ g[k + 1] = HandleRect(g[k])  BY <2>1 DEF ReadBy
  <2> QED  BY <1>2, <2>1, <2>2
<1>3. \A k \in 0 .. n : k \in Q
  <2> HIDE DEF Q
  <2> QED  BY <1>1, <1>2, Reached
<1> QED  BY <1>3

\* A viewer that a turn leaves as it is stays so.
LEMMA Stays ==
  ASSUME NEW g, NEW a \in Nat, NEW b \in Nat, a <= b, \A i \in 1 .. b : g[i] = HandleRect(g[i - 1]), HandleRect(g[a]) = g[a]
  PROVE  g[b] = g[a]
<1> DEFINE w == g[a]  d == b - a  Q == {i \in 0 .. d : g[a + i] = w}
<1>1. d \in Nat /\ a + d = b /\ HandleRect(w) = w  OBVIOUS
<1>2. 0 \in Q
  <2>1. a + 0 = a  OBVIOUS
  <2> QED  BY <1>1, <2>1
<1>3. ASSUME NEW k \in 0 .. d - 1, k \in Q PROVE k + 1 \in Q
  <2>1. a + (k + 1) \in 1 .. b /\ (a + (k + 1)) - 1 = a + k /\ k + 1 \in 0 .. d  BY <1>1
  <2>2. g[a + (k + 1)] = HandleRect(g[a + k])  BY <2>1
  <2> QED  BY <1>1, <1>3, <2>1, <2>2
<1>4. \A k \in 0 .. d : k \in Q
  <2> HIDE DEF Q, d
  <2> QED  BY <1>1, <1>2, <1>3, Reached
<1>5. d \in Q  BY <1>1, <1>4
<1> QED  BY <1>1, <1>5

\* One that has read everything with rectangles to come has read the marker.
LEMMA ReadsToTheEnd ==
  ASSUME NEW g, NEW a \in Nat, NEW b \in Nat, a <= b, \A i \in 1 .. b : g[i] = HandleRect(g[i - 1]),
         Reader(g[a]), g[b].ok = Yes, Left(g[a]) = 0
  PROVE  g[b] = g[a]
<1> DEFINE v == g[a]  u == Lost(v)
<1>1. CASE a = b  BY <1>1
<1>2. CASE a # b /\ HandleRect(v) = v  BY <1>2, Stays
<1>3. CASE a # b /\ HandleRect(v) = u
  <2> DEFINE c == a + 1
  <2>1. c \in Nat /\ c <= b /\ c \in 1 .. b /\ c - 1 = a  BY <1>3
  <2>2. g[c] = u  BY <1>3, <2>1
  <2>3. u.ok = No  BY DEF Lost, Reader, No
  <2>4. HandleRect(u) = u  BY <2>3 DEF HandleRect, No
  <2>5. HandleRect(g[c]) = g[c]  BY <2>2, <2>4
  <2> HIDE DEF c, u
  <2>6. g[b] = g[c]  BY <2>1, <2>5, Stays
  <2> QED  BY <2>2, <2>3, <2>6 DEF Yes, No
<1>4. HandleRect(v) = v \/ HandleRect(v) = u
  <2>1. Next1(v) = <<"nothing">>  BY DEF Next1
  <2>2. <<"nothing">>[1] # "rect"  OBVIOUS
  <2> HIDE DEF v, u
  <2> QED  BY <2>1, <2>2 DEF HandleRect, u
<1> QED  BY <1>1, <1>2, <1>3, <1>4

\* A viewer that was announced as many, or has the marker, reads all.
LEMMA UpdateRead ==
  ASSUME NEW first, NEW q, NEW P, NEW marked \in BOOLEAN, WillRead(first, q, P, marked), NEW n \in Nat,
         n <= q.headers \/ marked = Yes
  PROVE  ReadRight(HandleRects(Viewer(first, q.items), n), q, P, marked, n)
<1> DEFINE items == q.items  l == Len(items)  h == q.headers  v == Viewer(first, items)  m == Lesser(n, Left(v) + 1)
           w == Viewing(P, items, l + 1, Yes, marked, q.deflated)
<1>1. IsOut(q) /\ P \in Seen /\ IsSeq(items) /\ h \in Nat /\ h <= l  BY DEF WillRead, IsOut
<1>2. v = View(items, first, 1, Zero)  BY DEF Viewer, View, Viewing, Yes, No, Zero
<1>3. Turning(v, h, w)  BY <1>2 DEF WillRead
<1>4. l \in Nat  BY <1>1, Appended
<1>5. Left(v) = l
  <2>1. Left(v) = Len(items) - 1 + 1  BY <1>2, ViewIs
  <2> QED  BY <1>4, <2>1
<1>6. w.pic = P /\ w.ok = Yes /\ w.ended = marked /\ Left(w) = 0
  <2>1. w.pic = P /\ w.ok = Yes /\ w.ended = marked /\ w.items = items /\ w.at = l + 1  BY DEF Viewing
  <2> HIDE DEF w
  <2> QED  BY <1>4, <2>1 DEF Left
<1> HIDE DEF v, w, items, l, h
<1>7. m \in Nat /\ m <= n /\ (n <= l + 1 => m = n) /\ (l + 1 <= n => m = l + 1)  BY <1>4, <1>5 DEF Lesser
<1> HIDE DEF m
<1>8. PICK f : ReadBy(f, v, m) /\ HandleRects(v, n) = f[m]  BY <1>7, HandleRectsIs DEF m
<1>9. PICK g : g[0] = v /\ g[h] = w /\ (\A i \in 1 .. h : g[i] = HandleRect(g[i - 1])) /\ \A i \in 0 .. h : Reader(g[i])
  BY <1>3 DEF Turning
<1>10. CASE m <= h
  <2>1. ReadBy(f, v, m) /\ ReadBy(g, v, m)  BY <1>1, <1>7, <1>8, <1>9, <1>10 DEF ReadBy
  <2>2. f[m] = g[m]  BY <1>7, <2>1, ReadByAgree
  <2>3. Reader(g[m])  BY <1>1, <1>7, <1>9, <1>10
  <2>4. ASSUME n = h \/ (marked = Yes /\ h <= n) PROVE m = h  BY <1>1, <1>4, <1>7, <1>10, <2>4
  <2>5. m = h => f[m] = w  BY <1>9, <2>2
  <2>6. ASSUME f[m].ok = Yes, Left(f[m]) = 0 PROVE f[m].pic = P
    <3>1. Left(g[m]) = 0  BY <2>2, <2>6
    <3>2. g[h].ok = Yes  BY <1>6, <1>9
    <3>3. g[h] = g[m]  BY <1>1, <1>7, <1>9, <1>10, <2>3, <3>1, <3>2, ReadsToTheEnd
    <3> QED  BY <1>6, <1>9, <2>2, <3>3
  <2>7. f[m].pic \in Seen  BY <2>2, <2>3 DEF Reader
  <2> QED  BY <1>6, <1>8, <2>4, <2>5, <2>6, <2>7 DEF ReadRight, h, v, items
<1>11. CASE h < m
  <2>1. marked = Yes  BY <1>1, <1>7, <1>11 DEF h
  <2>2. ReadBy(f, v, h) /\ ReadBy(g, v, h)
    <3>1. \A i \in 1 .. h : i \in 1 .. m  BY <1>1, <1>7, <1>11
    <3>2. ReadBy(f, v, h)  BY <1>8, <3>1 DEF ReadBy
    <3>3. ReadBy(g, v, h)  BY <1>9 DEF ReadBy
    <3> QED  BY <3>2, <3>3
  <2>3. f[h] = w  BY <1>1, <1>9, <2>2, ReadByAgree
  <2>4. HandleRect(w) = w  BY <1>6, <2>1 DEF HandleRect, Yes
  <2>5. \A i \in 1 .. m : f[i] = HandleRect(f[i - 1])  BY <1>8 DEF ReadBy
  <2>6. f[m] = w  BY <1>1, <1>7, <1>11, <2>3, <2>4, <2>5, Stays
  <2> QED  BY <1>1, <1>6, <1>8, <2>6 DEF ReadRight, v, items
<1> QED  BY <1>1, <1>7, <1>10, <1>11

-----------------------------------------------------------------------------
(* The rectangles of a region. *)

LEMMA AreasRectangles ==
  ASSUME NEW rs \in Seq(Areas)
  PROVE  Rectangles(rs) /\ DOMAIN rs = 1 .. Len(rs) /\ Len(rs) \in Nat
<1>1. DOMAIN rs = 1 .. Len(rs) /\ Len(rs) \in Nat /\ IsSeq(rs)  BY LenProperties DEF IsSeq
<1>2. ASSUME NEW i \in 1 .. Len(rs) PROVE On(rs[i])
  <2>1. rs[i] \in Areas  BY ElementOfSeq
  <2> QED  BY <2>1, AreasOn
<1> QED  BY <1>1, <1>2 DEF Rectangles

\* The rectangle around some.
LEMMA BBoxIs ==
  ASSUME NEW rs, Rectangles(rs), NEW n \in Nat \ {0}, DOMAIN rs = 1 .. n, Len(rs) = n
  PROVE  On(BBox(rs)) /\ \A i \in 1 .. n : Points(rs[i]) \subseteq Points(BBox(rs))
<1> DEFINE X == {rs[i].x : i \in 1 .. n}  Y == {rs[i].y : i \in 1 .. n}
           R == {rs[i].x + rs[i].w : i \in 1 .. n}  B == {rs[i].y + rs[i].h : i \in 1 .. n}
           x == Min(X)  y == Min(Y)  u == Max(R)  v == Max(B)  w == u - x  h == v - y  b == Rect(x, y, w, h)
<1>1. BBox(rs) = b  BY DEF BBox
<1>2. \A i \in 1 .. n : On(rs[i])  BY DEF Rectangles
<1>3. \A i \in 1 .. n : /\ rs[i].x \in Int /\ rs[i].y \in Int /\ rs[i].w \in Nat \ {0} /\ rs[i].h \in Nat \ {0}
                        /\ 0 <= rs[i].x /\ 0 <= rs[i].y /\ rs[i].x + rs[i].w <= Width /\ rs[i].y + rs[i].h <= Height
  BY <1>2 DEF On, IsRect
<1>4. 1 \in 1 .. n /\ Width \in Int /\ Height \in Int  BY ScreenIs
<1>5. X \in SUBSET Int /\ X # {} /\ \A t \in X : 0 <= t /\ t <= Width  BY <1>3, <1>4
<1>6. Y \in SUBSET Int /\ Y # {} /\ \A t \in Y : 0 <= t /\ t <= Height  BY <1>3, <1>4
<1>7. R \in SUBSET Int /\ R # {} /\ \A t \in R : 0 <= t /\ t <= Width  BY <1>3, <1>4
<1>8. B \in SUBSET Int /\ B # {} /\ \A t \in B : 0 <= t /\ t <= Height  BY <1>3, <1>4
<1>9. \A i \in 1 .. n : rs[i].x \in X /\ rs[i].y \in Y /\ rs[i].x + rs[i].w \in R /\ rs[i].y + rs[i].h \in B  OBVIOUS
<1> HIDE DEF X, Y, R, B
<1> DEFINE zero == 0
<1>10. zero \in Int /\ zero = 0  OBVIOUS
<1> HIDE DEF zero
<1>11. x \in X /\ \A t \in X : x <= t  BY <1>4, <1>5, <1>10, Extremes
<1>12. y \in Y /\ \A t \in Y : y <= t  BY <1>4, <1>6, <1>10, Extremes
<1>13. u \in R /\ \A t \in R : t <= u  BY <1>4, <1>7, <1>10, Extremes
<1>14. v \in B /\ \A t \in B : t <= v  BY <1>4, <1>8, <1>10, Extremes
<1> HIDE DEF x, y, u, v
<1>15. /\ x \in Int /\ y \in Int /\ u \in Int /\ v \in Int /\ 0 <= x /\ 0 <= y /\ u <= Width /\ v <= Height
  BY <1>5, <1>6, <1>7, <1>8, <1>11, <1>12, <1>13, <1>14
<1>16. \A i \in 1 .. n : x <= rs[i].x /\ y <= rs[i].y /\ rs[i].x + rs[i].w <= u /\ rs[i].y + rs[i].h <= v
  BY <1>9, <1>11, <1>12, <1>13, <1>14
<1>17. w \in Nat \ {0} /\ h \in Nat \ {0} /\ x + w = u /\ y + h = v
  <2>1. x <= rs[1].x /\ y <= rs[1].y /\ rs[1].x + rs[1].w <= u /\ rs[1].y + rs[1].h <= v  BY <1>4, <1>16
  <2>2. rs[1].x \in Int /\ rs[1].y \in Int /\ rs[1].w \in Nat \ {0} /\ rs[1].h \in Nat \ {0}  BY <1>3, <1>4
  <2> QED  BY <1>15, <2>1, <2>2
<1> HIDE DEF w, h
<1>18. IsRect(b)  BY <1>15, <1>17, RectIs
<1>19. b.x = x /\ b.y = y /\ b.w = w /\ b.h = h  BY RectFields
<1> HIDE DEF b
<1>20. On(b)  BY <1>15, <1>17, <1>18, <1>19 DEF On
<1>21. ASSUME NEW i \in 1 .. n PROVE Points(rs[i]) \subseteq Points(b)
  <2> DEFINE r == rs[i]
  <2>1. IsRect(r) /\ Within(r, b)  BY <1>2, <1>16, <1>17, <1>19 DEF On, Within
  <2> HIDE DEF r
  <2>2. Points(r) \subseteq Points(b)  BY <1>18, <2>1, PointsWithin
  <2> QED  BY <2>2 DEF r
<1> QED  BY <1>1, <1>20, <1>21

\* What is sent covers what was to be sent.
LEMMA LimitedIs ==
  ASSUME NEW rs \in Updates, NEW enc
  PROVE  Rectangles(Limited(enc, rs)) /\ Union(rs) \subseteq Union(Limited(enc, rs))
<1> DEFINE n == Len(rs)  b == BBox(rs)
<1>0. rs \in Seq(Areas)  BY RegionAssumption
<1>1. Rectangles(rs) /\ DOMAIN rs = 1 .. n /\ n \in Nat  BY <1>0, AreasRectangles
<1>2. CASE Limited(enc, rs) = rs  BY <1>1, <1>2
<1>3. CASE MaxRectsPerUpdate > 0 /\ n > MaxRectsPerUpdate /\ Limited(enc, rs) = <<b>>
  <2>1. n \in Nat \ {0}  BY <1>1, <1>3, ChoiceAssumption
  <2> HIDE DEF n
  <2>2. On(b) /\ \A i \in 1 .. n : Points(rs[i]) \subseteq Points(b)  BY <1>1, <2>1, BBoxIs DEF n
  <2> HIDE DEF b
  <2>3. IsSeq(<<b>>) /\ Len(<<b>>) = 1 /\ DOMAIN <<b>> = 1 .. 1 /\ <<b>>[1] = b
    <3>1. <<b>> \in Seq({b})  OBVIOUS
    <3>2. IsSeq(<<b>>)  BY <3>1 DEF IsSeq
    <3>3. Len(<<b>>) = 1  OBVIOUS
    <3>4. DOMAIN <<b>> = 1 .. 1  OBVIOUS
    <3>5. <<b>>[1] = b  OBVIOUS
    <3> QED  BY <3>2, <3>3, <3>4, <3>5
  <2>4. Rectangles(<<b>>)  BY <2>2, <2>3 DEF Rectangles
  <2>5. Union(<<b>>) = Points(b)
    <3>1. Union(<<b>>) = UNION {Points(<<b>>[i]) : i \in DOMAIN <<b>>}  BY DEF Union
    <3>2. DOMAIN <<b>> = {1}  BY <2>3
    <3> QED  BY <2>3, <3>1, <3>2
  <2>6. Union(rs) \subseteq Points(b)  BY <1>1, <2>2 DEF Union
  <2> QED  BY <1>3, <2>4, <2>5, <2>6
<1> QED  BY <1>2, <1>3 DEF Limited

\* No region has a point off the screen.
LEMMA UnionTail ==
  ASSUME NEW rs, Rectangles(rs), rs # <<>>
  PROVE  Union(rs) = Points(Head(rs)) \cup Union(Tail(rs))
<1> DEFINE t == Tail(rs)  n == Len(t)
<1>1. IsSeq(rs) /\ Len(rs) \in Nat /\ DOMAIN rs = 1 .. Len(rs)  BY Appended DEF Rectangles
<1>2. IsSeq(t) /\ n + 1 = Len(rs) /\ (\A i \in 1 .. n : t[i] = rs[i + 1]) /\ Head(rs) = rs[1]
  BY <1>1, TailOf DEF TailIs
<1> HIDE DEF t
<1>3. n \in Nat /\ DOMAIN t = 1 .. n  BY <1>2, Appended
<1>4. Union(rs) = UNION {Points(rs[i]) : i \in 1 .. n + 1} /\ Union(t) = UNION {Points(t[i]) : i \in 1 .. n}
  BY <1>1, <1>2, <1>3 DEF Union
<1> HIDE DEF n
<1>5. \A i \in 1 .. n + 1 : i = 1 \/ (i - 1 \in 1 .. n /\ i = (i - 1) + 1)  BY <1>3
<1>6. 1 \in 1 .. n + 1 /\ \A i \in 1 .. n : i + 1 \in 1 .. n + 1  BY <1>3
<1>7. ASSUME NEW p \in Union(rs) PROVE p \in Points(rs[1]) \cup Union(t)
  <2>1. PICK i \in 1 .. n + 1 : p \in Points(rs[i])  BY <1>4
  <2>2. CASE i = 1  BY <2>1, <2>2
  <2>3. CASE i - 1 \in 1 .. n /\ i = (i - 1) + 1  BY <1>2, <1>4, <2>1, <2>3
  <2> QED  BY <1>5, <2>2, <2>3
<1>8. Points(rs[1]) \subseteq Union(rs) /\ Union(t) \subseteq Union(rs)  BY <1>2, <1>4, <1>6
<1> QED  BY <1>2, <1>7, <1>8 DEF t

LEMMA NothingIs == Rectangles(<<>>) /\ Union(<<>>) = {} /\ Len(<<>>) = 0
<1>1. IsSeq(<<>>) /\ Len(<<>>) = 0 /\ DOMAIN <<>> = {}  BY DEF IsSeq
<1> QED  BY <1>1 DEF Rectangles, Union

-----------------------------------------------------------------------------
(* The invariant. *)

\* The steps of an update change its phase, what is left to send and what is written.
LEMMA UpdWith ==
  ASSUME NEW u, IsUpd(u), NEW ph, NEW rs, NEW o
  PROVE  /\ Becomes(u, [u EXCEPT !.phase = ph, !.out = o], ph, u.rects, o)
         /\ Becomes(u, [u EXCEPT !.rects = rs, !.out = o], u.phase, rs, o)
<1> DEFINE t == [u EXCEPT !.phase = ph, !.out = o]  s == [u EXCEPT !.rects = rs, !.out = o]
<1>1. /\ DOMAIN t = DOMAIN u /\ DOMAIN s = DOMAIN u
      /\ \A x \in DOMAIN u : t[x] = (IF x = "out" THEN o ELSE IF x = "phase" THEN ph ELSE u[x])
      /\ \A x \in DOMAIN u : s[x] = (IF x = "out" THEN o ELSE IF x = "rects" THEN rs ELSE u[x])  OBVIOUS
<1> HIDE DEF t, s
<1>2. Becomes(u, t, ph, u.rects, o)  BY <1>1 DEF Becomes, IsUpd
<1>3. Becomes(u, s, u.phase, rs, o)  BY <1>1 DEF Becomes, IsUpd
<1> QED  BY <1>2, <1>3 DEF t, s

LEMMA StaysTyped ==
  ASSUME NEW u, NEW t, NEW ph, NEW rs, NEW o, Typed(u), Becomes(u, t, ph, rs, o), Rectangles(rs), IsOut(o)
  PROVE  Typed(t)
<1>1. /\ IsUpd(t) /\ t.enc = u.enc /\ t.lastRect = u.lastRect /\ t.rects = rs /\ t.due = u.due /\ t.cursor = u.cursor
      /\ t.unknown = u.unknown /\ t.nRects = u.nRects /\ t.out = o  BY Zenon DEF Becomes
<1>2. Choice(u.enc, u.lastRect) /\ Shapely(u.due, u.cursor) /\ Whole(u.unknown, u.nRects)  BY Zenon DEF Typed
<1>3. Choice(t.enc, t.lastRect) /\ Shapely(t.due, t.cursor) /\ Whole(t.unknown, t.nRects)  BY <1>1, <1>2, Zenon
<1>4. Rectangles(t.rects) /\ IsOut(t.out)  BY <1>1, Zenon
<1> QED  BY <1>1, <1>3, <1>4, Zenon DEF Typed

\* Numbers that fit into 16 bits are announced as they are.
LEMMA WrappedIs ==
  ASSUME NEW n \in Nat
  PROVE  Wrapped(n) \in 0 .. LastRectUnknown /\ Wrapped(n) <= n /\ (n <= LastRectUnknown => Wrapped(n) = n)
<1> DEFINE top == LastRectUnknown  b == 65536  q == n \div b  m == n % b  bq == b * q
<1>1. b \in Nat \ {0} /\ top \in Nat /\ b = top + 1  BY DEF LastRectUnknown
<1> HIDE DEF b, top
<1>2. q \in Int /\ m \in 0 .. b - 1 /\ n = bq + m
  <2>1. n \in Int /\ b \in Nat \ {0}  BY <1>1
  <2>2. n \div b \in Int /\ n % b \in 0 .. b - 1 /\ n = (b * (n \div b)) + (n % b)  BY <2>1, DivMod
  <2> QED  BY <2>2
<1>3. 0 <= q /\ (n < b => q < 1)
  <2>1. (0 <= n \div b <=> 0 * b <= n) /\ (1 <= n \div b <=> 1 * b <= n)  BY <1>1, Division
  <2>2. 0 * b = 0 /\ 1 * b = b  BY <1>1
  <2> HIDE DEF bq
  <2>3. 0 <= q /\ (1 <= q <=> b <= n)  BY <2>1, <2>2
  <2> HIDE DEF q
  <2> QED  BY <2>3, <1>1, <1>2
<1>4. bq \in Nat /\ (q = 0 => bq = 0)
  <2>1. q \in Nat  BY <1>2, <1>3
  <2> HIDE DEF q
  <2> QED  BY <1>1, <2>1, TimesMore
<1>5. Wrapped(n) = m  BY DEF Wrapped, b
<1> HIDE DEF q, m, bq
<1>6. m \in 0 .. top /\ m <= n /\ (n <= top => m = n)  BY <1>1, <1>2, <1>3, <1>4
<1> QED  BY <1>5, <1>6 DEF top

LEMMA LastRectIs == LastRectUnknown \in Nat  BY DEF LastRectUnknown

LEMMA YesNo == Yes \in BOOLEAN /\ No \in BOOLEAN /\ Yes # No  BY DEF Yes, No

LEMMA EncodingsNamed == Encodings \subseteq EncodingNames  BY ChoiceAssumption DEF EncodingNames

-----------------------------------------------------------------------------
(* The first state, and the steps outside an update. *)

\* IInv holds at first.
LEMMA InitIs == Init => IInv
<1> SUFFICES ASSUME Init PROVE IInv  OBVIOUS
<1>1. StateInv  BY DEF Init, StateInv, Pictures, Seen
<1>2. CopyInv  BY DEF Init, CopyInv
<1>3. IdleInv  BY DEF Init, IdleInv, Alike
<1>4. UpdateInv  BY DEF Init, UpdateInv
<1> QED  BY <1>1, <1>2, <1>3, <1>4 DEF IInv

LEMMA StutterKeeps == IInv /\ UNCHANGED vars => IInv'
<1> SUFFICES ASSUME IInv, UNCHANGED vars PROVE IInv'  OBVIOUS
<1>1. /\ screen' = screen /\ shown' = shown /\ modified' = modified /\ copy' = copy /\ pending' = pending
      /\ update' = update /\ lost' = lost  BY DEF vars
<1>2. StateInv' /\ CopyInv' /\ IdleInv' /\ UpdateInv'  BY <1>1 DEF IInv, StateInv, CopyInv, IdleInv, UpdateInv
<1> QED  BY <1>2 DEF IInv

\* Each step preserves IInv.
LEMMA FallDueKeeps ==
  ASSUME IInv, NEW n \in NoticeSets, FallDue(n)
  PROVE  IInv'
<1>1. /\ screen' = screen /\ shown' = shown /\ modified' = modified /\ copy' = copy /\ pending' = n
      /\ update' = update /\ lost' = lost  BY DEF FallDue
<1>2. StateInv' /\ CopyInv' /\ IdleInv' /\ UpdateInv'  BY <1>1 DEF IInv, StateInv, CopyInv, IdleInv, UpdateInv
<1> QED  BY <1>2 DEF IInv

LEMMA DoCopyRegionKeeps ==
  ASSUME IInv, NEW c \in Copyable, DoCopyRegion(c)
  PROVE  IInv'
<1> DEFINE D == Union(c[1])  n == Len(c[1])
<1>1. /\ screen' = MovedBy(screen, D, c[2], c[3]) /\ copy' = c
      /\ shown' = shown /\ modified' = modified /\ pending' = pending /\ update' = update /\ lost' = lost
  BY DEF DoCopyRegion, MovedBy
<1>2. c \in Copies /\ modified = {} /\ copy = <<>> /\ update = Idle  BY DEF Copyable
<1>3. screen \in Pictures /\ shown \in Seen  BY DEF IInv, StateInv
<1>4. IsCopy(c, n)  BY <1>2, CopyIs
<1>5. \A p \in D : <<p[1] - c[2], p[2] - c[3]>> \in Screen
  <2> SUFFICES ASSUME NEW p \in D PROVE <<p[1] - c[2], p[2] - c[3]>> \in Screen  OBVIOUS
  <2>1. c[2] \in Int /\ c[3] \in Int /\ DOMAIN c[1] = 1 .. n /\ \A i \in 1 .. n : On(c[1][i]) /\ Sourced(c[1][i], c[2], c[3])
    BY <1>4 DEF IsCopy
  <2>2. PICK i \in 1 .. n : p \in Points(c[1][i])  BY <2>1 DEF Union
  <2> DEFINE r == c[1][i]  dx == c[2]  dy == c[3]
  <2>3. On(r) /\ Sourced(r, dx, dy) /\ dx \in Int /\ dy \in Int /\ p \in Points(r)  BY <2>1, <2>2
  <2> HIDE DEF r, dx, dy
  <2>4. <<p[1] - dx, p[2] - dy>> \in Screen  BY <2>3, SourceIs
  <2> QED  BY <2>4 DEF dx, dy
<1> HIDE DEF D, n
<1>6. MovedBy(screen, D, c[2], c[3]) \in Pictures  BY <1>3, <1>5 DEF MovedBy, Pictures
<1>7. StateInv'
  <2>1. modified \subseteq Screen /\ pending \in NoticeSets \cup {NoNotice} /\ lost \in BOOLEAN  BY DEF IInv, StateInv
  <2> QED  BY <1>1, <1>2, <1>3, <1>6, <2>1 DEF StateInv
<1>8. CopyInv'
  <2> SUFFICES ASSUME ~lost PROVE modified = {} /\ screen' = MovedBy(shown, D, c[2], c[3])  BY <1>1 DEF CopyInv, D
  <2>1. Alike(shown, screen, modified)  BY <1>2 DEF IInv, IdleInv
  <2>2. shown = screen  BY <1>2, <1>3, <2>1 DEF Alike, Pictures, Seen
  <2> QED  BY <1>1, <1>2, <2>2
<1>9. IdleInv'
  <2>1. c # <<>>  BY <1>4 DEF IsCopy
  <2> QED  BY <1>1, <2>1 DEF IdleInv
<1>10. UpdateInv'  BY <1>1, <1>2 DEF UpdateInv
<1> QED  BY <1>7, <1>8, <1>9, <1>10 DEF IInv

-----------------------------------------------------------------------------
(* An update is announced. *)

\* What is pending fits into updateBuf.
LEMMA PendingFits ==
  ASSUME NEW q \in NoticeSets \cup {NoNotice}
  PROVE  Shapely(q.due, q.cursor)
<1>1. CASE q \in NoticeSets
  <2>1. q \in [due : SUBSET ToSet(Notices), cursor : Nat \X Nat]  BY <1>1, ChoiceAssumption
  <2>2. (q.cursor[1] = 0 <=> q.cursor[2] = 0) /\ 12 + 6 + 2 * MaskBytes(q.cursor[1], q.cursor[2]) <= UPDATE_BUF_SIZE
    BY <1>1, FitAssumption DEF sz_rfbFramebufferUpdateRectHeader, sz_rfbXCursorColors
  <2>3. q.cursor \in Nat \X Nat  BY <2>1
  <2> DEFINE c == q.cursor  w == c[1]  h == c[2]  m == MaskBytes(w, h)
  <2>4. w \in Nat /\ h \in Nat  BY <2>3
  <2>5. m \in Nat  BY <2>4, MaskNat
  <2>6. 12 + 6 + 2 * m <= UPDATE_BUF_SIZE  BY <2>2
  <2>7. 18 + 2 * m <= UPDATE_BUF_SIZE
    <3> HIDE DEF m
    <3> QED  BY <2>5, <2>6, Sizes
  <2>8. CursorFits(c)  BY <2>2, <2>7 DEF CursorFits
  <2> QED  BY <2>3, <2>8 DEF Shapely
<1>2. CASE q = NoNotice  BY <1>2 DEF NoNotice, Shapely
<1> QED  BY <1>1, <1>2

LEMMA AnnouncesYes ==
  ASSUME NEW unknown, NEW n, unknown = (n = LastRectUnknown)
  PROVE  /\ unknown \in BOOLEAN
         /\ n = LastRectUnknown => unknown = Yes
         /\ n # LastRectUnknown => unknown = No  BY DEF Yes, No

\* What is announced is a number of 16 bits, and the sum if that is known.
LEMMA AnnouncesWhole ==
  ASSUME NEW k \in Nat, NEW d \in Nat, NEW n, n = LastRectUnknown \/ n \in Nat, NEW unknown, NEW nRects,
         Announces(k, d, n, unknown, nRects)
  PROVE  /\ Whole(unknown, nRects)
         /\ unknown = No => n # LastRectUnknown /\ nRects = Wrapped(0 + (d + k + n))
<1>0. /\ unknown \in BOOLEAN /\ (n = LastRectUnknown => unknown = Yes) /\ (n # LastRectUnknown => unknown = No)
  BY AnnouncesYes DEF Announces
<1>1. nRects = IF n = LastRectUnknown THEN n ELSE Wrapped(k + n + d)  BY DEF Announces
<1> DEFINE a == k + n + d
<1>2. n # LastRectUnknown => a = 0 + (d + k + n) /\ a \in Nat  OBVIOUS
<1>3. nRects = IF n = LastRectUnknown THEN n ELSE Wrapped(a)  BY <1>1
<1>4. n # LastRectUnknown => Wrapped(a) = Wrapped(0 + (d + k + n))  BY <1>2
<1> HIDE DEF a
<1>5. n # LastRectUnknown => nRects \in 0 .. LastRectUnknown  BY <1>2, <1>3, WrappedIs
<1>6. nRects \in 0 .. LastRectUnknown /\ (unknown = Yes => nRects = LastRectUnknown)
  BY <1>0, <1>3, <1>5, YesNo, LastRectIs
<1>7. Whole(unknown, nRects)  BY <1>0, <1>6 DEF Whole
<1>8. unknown = No => n # LastRectUnknown /\ nRects = Wrapped(0 + (d + k + n))  BY <1>0, <1>3, <1>4, YesNo
<1> QED  BY <1>7, <1>8

LEMMA HeaderEmpty == [Empty EXCEPT !.ublen = 4, !.high = 4] = Empty0
<1>1. Empty = Out(0, 0, 0, <<>>, Zero)  BY DEF Empty, Out, Zero
<1> DEFINE e == Out(0, 0, 0, <<>>, Zero)  f == [e EXCEPT !.ublen = 4]
<1>2. f = Out(4, 0, 0, <<>>, Zero)  BY OutFields
<1>3. [e EXCEPT !.ublen = 4, !.high = 4] = [f EXCEPT !.high = 4]  OBVIOUS
<1> HIDE DEF e, f
<1>4. [f EXCEPT !.high = 4] = Out(4, 4, 0, <<>>, Zero)  BY <1>2, OutFields
<1> QED  BY <1>1, <1>3, <1>4 DEF e, Empty0

LEMMA NothingWritten == IsOut(Empty0) /\ Empty0.headers = 0
<1> DEFINE b == Blank
<1>1. [p \in Screen |-> b] \in Seen  BY DEF Seen
<1> HIDE DEF b
<1> DEFINE first == [p \in Screen |-> b]
<1> HIDE DEF first
<1>2. first \in Seen  BY <1>1 DEF first
<1>3. Reads(first, Out(4, 4, 0, <<>>, Zero), first) /\ Out(4, 4, 0, <<>>, Zero).headers = 0  BY <1>2, ReadsStart
<1>4. Reads(first, Empty0, first) /\ Empty0.headers = 0  BY <1>3, Zenon DEF Empty0
<1> QED  BY <1>4 DEF Reads

LEMMA Number0Nat ==
  ASSUME NEW due
  PROVE  Number0(due) \in Nat
<1>1. {i \in DOMAIN Notices : Notices[i] \in due} = DueUpTo(due, 6)  BY NoticesAre DEF DueUpTo
<1>2. Cardinality(DueUpTo(due, 6)) \in Nat  BY DueNext
<1> QED  BY <1>1, <1>2 DEF Number0

\* The copies of an update.
LEMMA CopiesLength ==
  ASSUME copy \in Copies \cup {<<>>}, NEW cs, cs = IF copy = <<>> THEN <<>> ELSE CopyOrder(copy)
  PROVE  Len(cs) \in Nat
<1>1. CASE copy = <<>>  BY <1>1
<1>2. CASE copy # <<>>
  <2> DEFINE n == Len(copy[1])  c == copy
  <2>1. IsCopy(c, n)  BY <1>2, CopyIs
  <2> HIDE DEF n, c
  <2>2. Ordered(c, n, CopyOrder(c)) /\ n \in Nat  BY <2>1, CopiesOrdered DEF IsCopy
  <2>3. Len(CopyOrder(c)) = n  BY <2>2 DEF Ordered
  <2> QED  BY <1>2, <2>2, <2>3 DEF c
<1> QED  BY <1>1, <1>2

LEMMA BeginKeeps ==
  ASSUME IInv, NEW enc \in Encodings, NEW region \in Sendable, NEW lr \in BOOLEAN, Begin(enc, region, lr)
  PROVE  IInv'
<1> DEFINE rs == Limited(enc, region)  cs == IF copy = <<>> THEN <<>> ELSE CopyOrder(copy)
           due == pending.due  d == Number0(due)  n == Counted(enc, rs, lr)  cur == pending.cursor
           unk == (n = LastRectUnknown)  k == Len(cs)
           nr == IF n = LastRectUnknown THEN n ELSE Wrapped(k + n + d)
           u == update'  o == Empty0  sum == Sum(enc, lr, rs)  mod == modified \ Union(region)
<1>1. /\ update = Idle /\ ~lost /\ modified' = mod /\ pending' = NoNotice
      /\ screen' = screen /\ shown' = shown /\ copy' = copy /\ lost' = lost  BY SMT DEF Begin
<1>2. u = [phase |-> "notices", enc |-> enc, lastRect |-> lr, rects |-> rs, copies |-> cs, due |-> due, cursor |-> cur,
           unknown |-> unk, nRects |-> nr, out |-> o]
  <2> DEFINE header == [Empty EXCEPT !.ublen = 4, !.high = 4]
  <2>1. u = [phase |-> "notices", enc |-> enc, lastRect |-> lr, rects |-> rs, copies |-> cs, due |-> due, cursor |-> cur,
             unknown |-> unk, nRects |-> nr, out |-> header]  BY SMT DEF Begin, Number0, Wrapped
  <2>2. header = o  BY HeaderEmpty
  <2> HIDE DEF header, u, rs, cs, due, cur, unk, nr, o
  <2> QED  BY <2>1, <2>2
<1> HIDE DEF u, mod, nr, unk, o
<1>3. /\ screen \in Pictures /\ shown \in Seen /\ modified \subseteq Screen /\ copy \in Copies \cup {<<>>}
      /\ pending \in NoticeSets \cup {NoNotice} /\ lost \in BOOLEAN  BY DEF IInv, StateInv
<1>4. region \in Updates  BY DEF Sendable
<1>5. Rectangles(rs) /\ Union(region) \subseteq Union(rs)  BY <1>4, LimitedIs
<1>6. enc \in EncodingNames  BY EncodingsNamed
<1> HIDE DEF rs
<1>7. sum \in Nat  BY <1>5, <1>6, SumNat
<1>8. n # LastRectUnknown => n = sum /\ \A i \in 1 .. Len(rs) : Number(enc, rs[i], lr) # 0  BY <1>5, <1>6, CountedIs
<1>9. d \in Nat  BY Number0Nat
<1>10. k \in Nat  BY <1>3, CopiesLength
<1> HIDE DEF cs, due, cur
<1>11. Announces(k, d, n, unk, nr)  BY DEF Announces, unk, nr
<1> HIDE DEF sum, d, k, n
<1>12. n = LastRectUnknown \/ n \in Nat  BY <1>7, <1>8
<1>13. Whole(unk, nr) /\ (unk = No => n # LastRectUnknown /\ nr = Wrapped(0 + (d + k + n)))
  BY <1>9, <1>10, <1>11, <1>12, AnnouncesWhole
<1>14. /\ IsUpd(u) /\ u.phase = "notices" /\ u.enc = enc /\ u.lastRect = lr /\ u.rects = rs /\ u.copies = cs
       /\ u.due = due /\ u.cursor = cur /\ u.unknown = unk /\ u.nRects = nr /\ u.out = o  BY <1>2 DEF IsUpd
<1>15. Typed(u)
  <2>1. Choice(enc, lr)  BY DEF Choice
  <2>2. Shapely(due, cur)  BY <1>3, PendingFits DEF due, cur
  <2>3. IsOut(o)  BY NothingWritten DEF o
  <2> QED  BY <1>5, <1>13, <1>14, <2>1, <2>2, <2>3 DEF Typed
<1>16. Announced(u, d + k + sum)
  <2>1. o.headers = 0  BY NothingWritten DEF o
  <2>2. ASSUME unk = No PROVE nr = Wrapped(0 + (d + k + sum)) /\ \A i \in 1 .. Len(rs) : Number(enc, rs[i], lr) # 0
    BY <1>8, <1>13, <2>2
  <2> DEFINE all == d + k + sum
  <2>3. u.unknown = No => u.nRects = Wrapped(u.out.headers + all) /\ \A i \in 1 .. Len(u.rects) : Number(u.enc, u.rects[i], u.lastRect) # 0
    BY <1>14, <2>1, <2>2
  <2> HIDE DEF all
  <2>4. Announced(u, all)  BY <2>3 DEF Announced
  <2> QED  BY <2>4 DEF all
<1>17. Telling(u, screen, shown, mod, copy)
  <2>1. u.out = Out(4, 4, 0, <<>>, Zero)  BY <1>14 DEF o, Empty0
  <2>2. copy = <<>> => u.copies = <<>> /\ Alike(shown, screen, mod \cup Union(u.rects))
    <3> SUFFICES ASSUME copy = <<>> PROVE u.copies = <<>> /\ Alike(shown, screen, mod \cup Union(u.rects))  OBVIOUS
    <3>1. u.copies = <<>>  BY <1>14 DEF cs
    <3>2. Alike(shown, screen, modified)  BY <1>1 DEF IInv, IdleInv
    <3>3. modified \subseteq mod \cup Union(u.rects)  BY <1>5, <1>14 DEF mod
    <3> QED  BY <3>1, <3>2, <3>3 DEF Alike
  <2>3. copy # <<>> => u.copies = CopyOrder(copy)  BY <1>14 DEF cs
  <2>4. Number0(u.due) = d /\ Len(u.copies) = k /\ InSum(u) = sum  BY <1>14 DEF d, k, sum, InSum
  <2>5. Announced(u, Number0(u.due) + Len(u.copies) + InSum(u))  BY <1>16, <2>4
  <2> QED  BY <1>14, <2>1, <2>2, <2>3, <2>5 DEF Telling
<1>18. StateInv'  BY <1>1, <1>3 DEF StateInv, mod
<1>19. CopyInv'  BY <1>1 DEF IInv, CopyInv, mod
<1>20. UpdateInv'  BY <1>1, <1>15, <1>17 DEF UpdateInv, UnderWay, u
<1>21. IdleInv'
  <2>1. update'.phase = "notices" /\ Idle.phase = "idle"  BY <1>14 DEF u, Idle
  <2> QED  BY <2>1 DEF IdleInv
<1> QED  BY <1>18, <1>19, <1>20, <1>21 DEF IInv

\* With more written there is as much less to come.
LEMMA AnnouncedMore ==
  ASSUME NEW u, NEW t, NEW ph, NEW q, NEW j, NEW k, Announced(u, k), Becomes(u, t, ph, u.rects, q), q.headers + j = u.out.headers + k
  PROVE  Announced(t, j) /\ InSum(t) = InSum(u) /\ t.copies = u.copies /\ t.phase = ph /\ t.out = q /\ t.rects = u.rects
<1>1. /\ t.unknown = u.unknown /\ t.nRects = u.nRects /\ t.rects = u.rects /\ t.enc = u.enc /\ t.lastRect = u.lastRect
      /\ t.out = q /\ t.copies = u.copies /\ t.phase = ph  BY DEF Becomes
<1>2. InSum(t) = InSum(u)  BY <1>1 DEF InSum
<1> DEFINE a == u.out.headers + k
<1>3. u.unknown = No => u.nRects = Wrapped(a) /\ \A i \in 1 .. Len(u.rects) : Number(u.enc, u.rects[i], u.lastRect) # 0
  BY DEF Announced
<1>4. q.headers + j = a  OBVIOUS
<1> HIDE DEF a
<1>5. Announced(t, j)  BY <1>1, <1>3, <1>4 DEF Announced
<1> QED  BY <1>1, <1>2, <1>5

\* What each variable is while an update is under way.
LEMMA WhileUnderWay ==
  ASSUME IInv, update # Idle
  PROVE  /\ screen \in Pictures /\ shown \in Seen /\ modified \subseteq Screen /\ copy \in Copies \cup {<<>>}
         /\ pending \in NoticeSets \cup {NoNotice} /\ StateInv /\ ~lost /\ Typed(update) /\ CopyInv
         /\ \/ Telling(update, screen, shown, modified, copy) \/ Moving(update, screen, shown, modified, copy)
            \/ Sending(update, screen, shown, modified, copy) \/ Gone(update, screen, shown, modified, copy)
<1>1. ~lost /\ UnderWay(update, screen, shown, modified, copy)  BY DEF IInv, UpdateInv
<1> QED  BY <1>1 DEF IInv, StateInv, UnderWay

LEMMA SumIs ==
  ASSUME NEW u, Typed(u)
  PROVE  InSum(u) \in Nat
<1>1. Choice(u.enc, u.lastRect) /\ Rectangles(u.rects)  BY DEF Typed
<1>2. u.enc \in EncodingNames /\ u.lastRect \in BOOLEAN  BY <1>1, EncodingsNamed DEF Choice
<1> DEFINE e == u.enc  l == u.lastRect  rs == u.rects
<1>3. e \in EncodingNames /\ l \in BOOLEAN /\ Rectangles(rs)  BY <1>1, <1>2
<1> HIDE DEF e, l, rs
<1>4. Sum(e, l, rs) \in Nat  BY <1>3, SumNat
<1> QED  BY <1>4 DEF e, l, rs, InSum

LEMMA SendNoticesKeeps ==
  ASSUME IInv, SendNotices
  PROVE  IInv'
<1> DEFINE u == update  t == update'  ph == IF u.copies = <<>> THEN "rects" ELSE "copies"
           o == u.out  q == Noticed(u.due, u.cursor, o)  rs == u.rects  due == u.due  cur == u.cursor
           k == Len(u.copies)  d == Number0(due)  s == InSum(u)
<1>1. t = [u EXCEPT !.phase = ph, !.out = q]  BY DEF SendNotices, InTurn, Noticing!After, NoticeStep, Noticed
<1>2. /\ screen' = screen /\ shown' = shown /\ modified' = modified /\ copy' = copy /\ pending' = pending
      /\ lost' = lost /\ u.phase = "notices"  BY SMT DEF SendNotices
<1>3. update # Idle  BY <1>2 DEF Idle
<1>4. /\ screen \in Pictures /\ shown \in Seen /\ modified \subseteq Screen /\ copy \in Copies \cup {<<>>}
      /\ pending \in NoticeSets \cup {NoNotice} /\ StateInv /\ ~lost /\ Typed(u) /\ CopyInv
      /\ Telling(u, screen, shown, modified, copy)  BY <1>2, <1>3, WhileUnderWay DEF Moving, Sending, Gone
<1> HIDE DEF t, u, ph, q
<1>5. IsUpd(u) /\ Shapely(due, cur) /\ Rectangles(rs)  BY <1>4 DEF Typed
<1>6. Becomes(u, t, ph, rs, q)  BY <1>1, <1>5, UpdWith
<1>7. o = Empty0 /\ Announced(u, d + k + s)  BY <1>4 DEF Telling, Empty0
<1> DEFINE first == shown
<1> HIDE DEF first
<1>8. Reads(first, Empty0, first) /\ Empty0.ublen = 4 /\ Empty0.headers = 0
  <2>1. first \in Seen  BY <1>4 DEF first
  <2>2. Reads(first, Out(4, 4, 0, <<>>, Zero), first) /\ Out(4, 4, 0, <<>>, Zero).ublen = 4
        /\ Out(4, 4, 0, <<>>, Zero).headers = 0  BY <2>1, ReadsStart
  <2> QED  BY <2>2, Zenon DEF Empty0
<1> HIDE DEF o, rs, due, cur, d, k, s
<1>9. IsOut(o) /\ Reads(first, o, first) /\ o.ublen = 4 /\ o.headers = 0  BY <1>7, <1>8 DEF Reads
<1>10. NoticesTold(screen, o, q, due)
  <2>1. cur \in Nat \X Nat /\ (due # {} => CursorFits(cur))  BY <1>5 DEF Shapely
  <2>2. NoticesTold(screen, o, Noticed(due, cur, o), due)  BY <1>4, <1>9, <2>1, NoticedTold
  <2> QED  BY <2>2 DEF q, due, cur, o
<1>11. Serve(screen, o, q, {}) /\ q.headers = d /\ q.ublen <= 4
  <2>1. d \in Nat  BY Number0Nat DEF d
  <2> QED  BY <1>9, <1>10, <2>1 DEF NoticesTold, d
<1>12. Reads(first, q, first)
  <2>1. Reads(first, q, Overlay(first, {}, screen))  BY <1>4, <1>9, <1>11, ReadsMore
  <2>2. Overlay(first, {}, screen) = first  BY <1>4 DEF Overlay, Seen, first
  <2> QED  BY <2>1, <2>2
<1>13. IsOut(q)  BY <1>12 DEF Reads
<1>14. Typed(t)  BY <1>4, <1>5, <1>6, <1>13, StaysTyped
<1>15. copy # <<>> => k # 0 /\ u.copies # <<>> /\ u.copies = CopyOrder(copy)
  <2> SUFFICES ASSUME copy # <<>> PROVE k # 0 /\ u.copies # <<>> /\ u.copies = CopyOrder(copy)  OBVIOUS
  <2> DEFINE n == Len(copy[1])  c == copy
  <2>1. IsCopy(c, n)  BY <1>4, CopyIs
  <2> HIDE DEF n, c
  <2>2. Ordered(c, n, CopyOrder(c)) /\ n \in Nat \ {0}  BY <2>1, CopiesOrdered DEF IsCopy
  <2>3. Len(CopyOrder(c)) = n /\ n # 0  BY <2>2 DEF Ordered
  <2>4. u.copies = CopyOrder(copy)  BY <1>4 DEF Telling
  <2>5. Len(u.copies) # 0  BY <2>3, <2>4 DEF c
  <2>6. Len(<<>>) = 0  OBVIOUS
  <2>7. u.copies # <<>>  BY <2>5, <2>6
  <2> QED  BY <2>4, <2>5, <2>7 DEF k
<1>16. k \in Nat /\ (copy = <<>> => k = 0 /\ u.copies = <<>> /\ Alike(first, screen, modified \cup Union(rs)))
  <2>1. copy = <<>> => u.copies = <<>> /\ Alike(first, screen, modified \cup Union(rs))
    BY <1>4 DEF Telling, first, rs
  <2>2. copy # <<>> => u.copies = CopyOrder(copy)  BY <1>4 DEF Telling
  <2>3. Len(IF copy = <<>> THEN <<>> ELSE CopyOrder(copy)) \in Nat  BY <1>4, CopiesLength
  <2> QED  BY <2>1, <2>2, <2>3 DEF k
<1>17. s \in Nat  BY <1>4, SumIs DEF s
<1>18. Announced(t, k + s) /\ InSum(t) = s /\ t.copies = u.copies /\ t.phase = ph /\ t.out = q /\ t.rects = rs
  <2> DEFINE a == d + k + s  b == k + s
  <2>1. q.headers + b = u.out.headers + a
    <3>1. d \in Nat  BY Number0Nat DEF d
    <3> QED  BY <1>9, <1>11, <1>16, <1>17, <3>1 DEF o
  <2>2. Announced(u, a) /\ Becomes(u, t, ph, u.rects, q)  BY <1>6, <1>7 DEF rs
  <2> HIDE DEF a, b
  <2>3. Announced(t, b) /\ InSum(t) = InSum(u) /\ t.copies = u.copies /\ t.phase = ph /\ t.out = q /\ t.rects = u.rects
    BY <2>1, <2>2, AnnouncedMore
  <2> QED  BY <2>3 DEF b, s, rs
<1>19. ASSUME copy = <<>> PROVE Sending(t, screen, shown, modified, copy)
  <2>1. t.phase = "rects"  BY <1>16, <1>18, <1>19 DEF ph
  <2>2. Announced(t, InSum(t))  BY <1>16, <1>17, <1>18, <1>19
  <2>3. Reads(shown, t.out, shown) /\ Alike(shown, screen, modified \cup Union(t.rects))
    BY <1>12, <1>16, <1>18, <1>19 DEF first
  <2> QED  BY <1>19, <2>1, <2>2, <2>3 DEF Sending
<1>20. ASSUME copy # <<>> PROVE Moving(t, screen, shown, modified, copy)
  <2>1. t.phase = "copies" /\ t.copies = CopyOrder(copy)  BY <1>15, <1>18, <1>20 DEF ph
  <2>2. Len(t.copies) = k  BY <1>18 DEF k
  <2>3. Announced(t, Len(t.copies) + InSum(t))  BY <1>18, <2>2
  <2>4. Reads(shown, t.out, shown) /\ t.out.ublen <= 4  BY <1>11, <1>12, <1>18 DEF first
  <2> QED  BY <1>20, <2>1, <2>3, <2>4 DEF Moving
<1>21. StateInv'  BY <1>2, <1>4 DEF StateInv
<1>22. CopyInv'  BY <1>2, <1>4 DEF CopyInv
<1>23. UpdateInv'  BY <1>2, <1>4, <1>14, <1>19, <1>20 DEF UpdateInv, UnderWay, t
<1>24. IdleInv'
  <2>1. ph # "idle"  BY DEF ph
  <2>2. update'.phase # "idle" /\ Idle.phase = "idle"  BY <1>18, <2>1 DEF t, Idle
  <2> QED  BY <2>2 DEF IdleInv
<1> QED  BY <1>21, <1>22, <1>23, <1>24 DEF IInv

LEMMA SendCopyRegionKeeps ==
  ASSUME IInv, SendCopyRegion
  PROVE  IInv'
<1> DEFINE u == update  t == update'  o == u.out  cs == u.copies  q == AllCopied(copy, o, cs)  rs == u.rects
           k == Len(cs)  s == InSum(u)  n == Len(copy[1])  P == MovedBy(shown, Union(copy[1]), copy[2], copy[3])
<1>1. t = [u EXCEPT !.phase = "rects", !.out = q]  BY DEF SendCopyRegion, InTurn, Copying!After, CopyStep, AllCopied
<1>2. /\ screen' = screen /\ shown' = shown /\ modified' = modified /\ copy' = <<>> /\ pending' = pending
      /\ lost' = lost /\ u.phase = "copies"  BY SMT DEF SendCopyRegion
<1>3. update # Idle  BY <1>2 DEF Idle
<1>4. /\ screen \in Pictures /\ shown \in Seen /\ modified \subseteq Screen /\ copy \in Copies \cup {<<>>}
      /\ pending \in NoticeSets \cup {NoNotice} /\ StateInv /\ ~lost /\ Typed(u) /\ CopyInv
      /\ Moving(u, screen, shown, modified, copy)  BY <1>2, <1>3, WhileUnderWay DEF Telling, Sending, Gone
<1> HIDE DEF t, u, q
<1>5. IsUpd(u) /\ Rectangles(rs)  BY <1>4 DEF Typed
<1>6. Becomes(u, t, "rects", rs, q)  BY <1>1, <1>5, UpdWith
<1>7. copy # <<>> /\ cs = CopyOrder(copy) /\ Reads(shown, o, shown) /\ o.ublen <= 4 /\ Announced(u, k + s)
  BY <1>4 DEF Moving
<1>8. modified = {} /\ screen = P  BY <1>4, <1>7 DEF CopyInv
<1> HIDE DEF o, cs, rs, k, s, P
<1>9. Copies0(shown, o, q, shown, copy, n) /\ n = k /\ k \in Nat
  <2> DEFINE c == copy  first == shown
  <2>1. IsCopy(c, n)  BY <1>4, <1>7, CopyIs
  <2> HIDE DEF n, c, first
  <2>2. Ordered(c, n, CopyOrder(c)) /\ n \in Nat  BY <2>1, CopiesOrdered DEF IsCopy
  <2>3. Ordered(c, n, cs)  BY <1>7, <2>2 DEF c
  <2>4. Reads(first, o, first) /\ o.ublen <= 4  BY <1>7 DEF first
  <2>5. Copies0(first, o, AllCopied(c, o, cs), first, c, n)  BY <2>1, <2>3, <2>4, CopiesSent
  <2>6. Len(cs) = n  BY <2>3 DEF Ordered
  <2> QED  BY <2>2, <2>5, <2>6 DEF q, c, first, k, o, cs
<1>10. Reads(shown, q, P) /\ q.headers = o.headers + k  BY <1>9 DEF Copies0, P
<1>11. IsOut(q) /\ IsOut(o)  BY <1>7, <1>10 DEF Reads
<1>12. o.headers \in Nat  BY <1>11 DEF IsOut
<1>13. Typed(t)  BY <1>4, <1>5, <1>6, <1>11, StaysTyped
<1>14. s \in Nat  BY <1>4, SumIs DEF s
<1>15. Announced(t, s) /\ InSum(t) = s /\ t.phase = "rects" /\ t.out = q /\ t.rects = rs
  <2> DEFINE a == k + s
  <2>1. q.headers + s = u.out.headers + a  BY <1>9, <1>10, <1>12, <1>14 DEF o
  <2>2. Announced(u, a) /\ Becomes(u, t, "rects", u.rects, q)  BY <1>6, <1>7 DEF rs
  <2> HIDE DEF a
  <2>3. Announced(t, s) /\ InSum(t) = InSum(u) /\ t.phase = "rects" /\ t.out = q /\ t.rects = u.rects
    BY <2>1, <2>2, AnnouncedMore
  <2> QED  BY <2>3 DEF s, rs
<1>16. Sending(t, screen, shown, modified, <<>>)
  <2>1. Announced(t, InSum(t))  BY <1>15
  <2>2. Reads(shown, t.out, P) /\ Alike(P, screen, modified \cup Union(t.rects))  BY <1>8, <1>10, <1>15 DEF Alike
  <2> QED  BY <1>15, <2>1, <2>2 DEF Sending
<1>17. StateInv'  BY <1>2, <1>4 DEF StateInv
<1>18. CopyInv'  BY <1>2 DEF CopyInv
<1>19. UpdateInv'  BY <1>2, <1>4, <1>13, <1>16 DEF UpdateInv, UnderWay, t
<1>20. IdleInv'
  <2>1. update'.phase = "rects" /\ Idle.phase = "idle"  BY <1>15 DEF t, Idle
  <2> QED  BY <2>1 DEF IdleInv
<1> QED  BY <1>17, <1>18, <1>19, <1>20 DEF IInv

LEMMA SendRectKeeps ==
  ASSUME IInv, SendRect
  PROVE  IInv'
<1> DEFINE u == update  t == update'  o == u.out  rs == u.rects  r == Head(rs)  left == Tail(rs)  q == Sent(o, r)
           s == InSum(u)  e == u.enc  l == u.lastRect  k == Number(e, r, l)  s1 == Sum(e, l, left)
<1>1. t = [u EXCEPT !.rects = left, !.out = q]  BY SMT DEF SendRect
<1>2. /\ screen' = screen /\ shown' = shown /\ modified' = modified /\ copy' = copy /\ pending' = pending
      /\ lost' = lost /\ u.phase = "rects" /\ rs # <<>>  BY SMT DEF SendRect
<1>3. update # Idle  BY <1>2 DEF Idle
<1>4. /\ screen \in Pictures /\ shown \in Seen /\ modified \subseteq Screen
      /\ StateInv /\ ~lost /\ Typed(u) /\ CopyInv /\ Sending(u, screen, shown, modified, copy)
  BY <1>2, <1>3, WhileUnderWay DEF Telling, Moving, Gone
<1>5. IsUpd(u) /\ Rectangles(rs) /\ Choice(e, l)  BY <1>4 DEF Typed
<1>6. e \in EncodingNames /\ l \in BOOLEAN  BY <1>5, EncodingsNamed DEF Choice
<1>7. copy = <<>> /\ Announced(u, s)  BY <1>4 DEF Sending
<1>8. PICK P : Reads(shown, o, P) /\ Alike(P, screen, modified \cup Union(rs))  BY <1>4 DEF Sending
<1>9. IsOut(o) /\ P \in Seen  BY <1>8 DEF Reads
<1>10. On(r) /\ Rectangles(left) /\ s = k + s1
  <2> HIDE DEF rs, e, l
  <2>1. On(r) /\ Rectangles(left) /\ Sum(e, l, rs) = k + s1  BY <1>2, <1>5, <1>6, SumTail
  <2> QED  BY <2>1 DEF InSum, rs, e, l
<1>11. SentAs(screen, o, q, r, k)  BY <1>4, <1>6, <1>9, <1>10, SentServed
<1>12. Union(rs) = Points(r) \cup Union(left)
  <2> HIDE DEF rs
  <2> QED  BY <1>2, <1>5, UnionTail
<1>13. k \in Nat /\ s1 \in Nat
  <2> HIDE DEF e, l, r, left
  <2> QED  BY <1>6, <1>10, NumberNat, SumNat
<1> HIDE DEF q
<1>14. Becomes(u, t, "rects", left, q)
  <2> HIDE DEF t, u, left
  <2>1. Becomes(u, t, u.phase, left, q)  BY <1>1, <1>5, UpdWith
  <2> QED  BY <1>2, <2>1
<1> HIDE DEF t, u, o, rs, r, left, e, l, k, s, s1
<1>15. Serve(screen, o, q, Points(r)) /\ (k # 0 => q.headers = o.headers + k)  BY <1>11 DEF SentAs
<1>16. Reads(shown, q, Overlay(P, Points(r), screen))  BY <1>4, <1>8, <1>15, ReadsMore
<1>17. IsOut(q) /\ o.headers \in Nat  BY <1>9, <1>16 DEF Reads, IsOut
<1>18. Typed(t)  BY <1>4, <1>10, <1>14, <1>17, StaysTyped
<1>19. /\ t.phase = "rects" /\ t.rects = left /\ t.out = q /\ t.enc = e /\ t.lastRect = l
       /\ t.unknown = u.unknown /\ t.nRects = u.nRects  BY <1>14 DEF Becomes, e, l
<1>20. InSum(t) = s1  BY <1>19 DEF InSum, s1
<1>21. Announced(t, s1)
  <2> SUFFICES ASSUME u.unknown = No
      PROVE  /\ u.nRects = Wrapped(q.headers + s1) /\ \A i \in 1 .. Len(left) : Number(e, left[i], l) # 0
    BY <1>19 DEF Announced
  <2>1. u.nRects = Wrapped(o.headers + s) /\ \A i \in 1 .. Len(rs) : Number(e, rs[i], l) # 0
    BY <1>7 DEF Announced, o, e, l, rs
  <2>2. TailIs(rs, left) /\ r = rs[1] /\ 1 \in 1 .. Len(rs)
    <3>1. IsSeq(rs)  BY <1>5 DEF Rectangles
    <3> QED  BY <1>2, <3>1, TailOf DEF left, r
  <2>3. k # 0  BY <2>1, <2>2 DEF k
  <2>4. q.headers + s1 = o.headers + s  BY <1>10, <1>13, <1>15, <1>17, <2>3
  <2>5. \A i \in 1 .. Len(left) : Number(e, left[i], l) # 0
    <3>1. IsSeq(left) /\ Len(left) + 1 = Len(rs) /\ \A i \in 1 .. Len(left) : left[i] = rs[i + 1]  BY <2>2 DEF TailIs
    <3>2. Len(left) \in Nat  BY <3>1, LenProperties DEF IsSeq
    <3> SUFFICES ASSUME NEW i \in 1 .. Len(left) PROVE Number(e, left[i], l) # 0  OBVIOUS
    <3>3. i + 1 \in 1 .. Len(rs) /\ left[i] = rs[i + 1]  BY <3>1, <3>2
    <3> QED  BY <2>1, <3>3
  <2> QED  BY <2>1, <2>4, <2>5
<1> DEFINE Q == Overlay(P, Points(r), screen)
<1>22. Alike(Q, screen, modified \cup Union(left))  BY <1>8, <1>12 DEF Alike, Overlay
<1> HIDE DEF Q
<1>23. Sending(t, screen, shown, modified, copy)
  <2>1. Announced(t, InSum(t))  BY <1>20, <1>21
  <2>2. Reads(shown, t.out, Q) /\ Alike(Q, screen, modified \cup Union(t.rects))  BY <1>16, <1>19, <1>22 DEF Q
  <2> QED  BY <1>7, <1>19, <2>1, <2>2 DEF Sending
<1>24. StateInv'  BY <1>2, <1>4 DEF StateInv
<1>25. CopyInv'  BY <1>2, <1>4 DEF CopyInv
<1>26. UpdateInv'  BY <1>2, <1>4, <1>18, <1>23 DEF UpdateInv, UnderWay, t
<1>27. IdleInv'
  <2>1. update'.phase = "rects" /\ Idle.phase = "idle"  BY <1>19 DEF t, Idle
  <2> QED  BY <2>1 DEF IdleInv
<1> QED  BY <1>24, <1>25, <1>26, <1>27 DEF IInv

LEMMA FinishKeeps ==
  ASSUME IInv, Finish
  PROVE  IInv'
<1> DEFINE u == update  t == update'  o == u.out  rs == u.rects  unk == u.unknown
           q == IF unk THEN Marked(o) ELSE o  s == InSum(u)
<1>1. t = [u EXCEPT !.phase = "sent", !.out = q]  BY SMT DEF Finish, Marked, sz_rfbFramebufferUpdateRectHeader
<1>2. /\ screen' = screen /\ shown' = shown /\ modified' = modified /\ copy' = copy /\ pending' = pending
      /\ lost' = lost /\ u.phase = "rects" /\ rs = <<>>  BY SMT DEF Finish
<1>3. update # Idle  BY <1>2 DEF Idle
<1>4. StateInv /\ ~lost /\ Typed(u) /\ CopyInv /\ Sending(u, screen, shown, modified, copy)
  BY <1>2, <1>3, WhileUnderWay DEF Telling, Moving, Gone
<1>5. IsUpd(u) /\ Rectangles(rs) /\ Choice(u.enc, u.lastRect) /\ unk \in BOOLEAN  BY <1>4 DEF Typed, Whole
<1>6. unk = Yes \/ unk = No  BY <1>5 DEF Yes, No
<1>7. (unk = Yes => q = Marked(o)) /\ (unk = No => q = o)  BY DEF Yes, No
<1>8. s = 0
  <2> DEFINE e == u.enc  l == u.lastRect
  <2>1. e \in EncodingNames /\ l \in BOOLEAN  BY <1>5, EncodingsNamed DEF Choice
  <2> HIDE DEF e, l, rs
  <2>2. Rectangles(<<>>) /\ Len(<<>>) = 0 /\ rs = <<>>  BY <1>2, NothingIs
  <2>3. Len(rs) = 0 /\ Rectangles(rs)  BY <2>2
  <2>4. Sum(e, l, rs) = 0  BY <2>1, <2>3, SumNat
  <2> QED  BY <2>4 DEF e, l, rs, InSum
<1>9. copy = <<>> /\ Announced(u, s)  BY <1>4 DEF Sending
<1>10. PICK P : Reads(shown, o, P) /\ Alike(P, screen, modified \cup Union(rs))  BY <1>4 DEF Sending
<1>11. Union(rs) = {}  BY <1>2, NothingIs
<1> HIDE DEF u, t, o, rs, unk, q, s
<1>12. WillRead(shown, q, P, unk)
  <2>1. ASSUME unk = Yes PROVE WillRead(shown, q, P, unk)
    <3>1. WillRead(shown, Marked(o), P, Yes)  BY <1>10, MarkedWill
    <3> QED  BY <1>7, <2>1, <3>1
  <2>2. ASSUME unk = No PROVE WillRead(shown, q, P, unk)
    <3>1. WillRead(shown, o, P, No)  BY <1>10, ReadsWill
    <3> QED  BY <1>7, <2>2, <3>1
  <2> QED  BY <1>6, <2>1, <2>2
<1>13. IsOut(q)  BY <1>12 DEF WillRead
<1>14. Becomes(u, t, "sent", rs, q)  BY <1>1, <1>5, UpdWith DEF rs
<1>15. Typed(t)  BY <1>4, <1>5, <1>13, <1>14, StaysTyped
<1>16. t.phase = "sent" /\ t.rects = rs /\ t.out = q /\ t.unknown = unk /\ t.nRects = u.nRects /\ t.enc = u.enc /\ t.lastRect = u.lastRect
  BY <1>14 DEF Becomes, unk
<1>17. Announced(t, 0)
  <2>1. unk = No => /\ u.nRects = Wrapped(o.headers + 0)
                    /\ \A i \in 1 .. Len(rs) : Number(u.enc, rs[i], u.lastRect) # 0
    BY <1>8, <1>9 DEF Announced, o, rs, unk
  <2>2. unk = No => q = o  BY <1>7
  <2> DEFINE zero == 0
  <2>3. unk = No => /\ u.nRects = Wrapped(o.headers + zero)
                    /\ \A i \in 1 .. Len(rs) : Number(u.enc, rs[i], u.lastRect) # zero  BY <2>1
  <2> HIDE DEF zero
  <2>4. unk = No => /\ t.nRects = Wrapped(t.out.headers + zero)
                    /\ \A i \in 1 .. Len(t.rects) : Number(t.enc, t.rects[i], t.lastRect) # zero  BY <1>16, <2>2, <2>3
  <2> QED  BY <1>16, <2>4 DEF Announced, zero
<1>18. Gone(t, screen, shown, modified, copy)
  <2>1. WillRead(shown, t.out, P, t.unknown) /\ Alike(P, screen, modified)  BY <1>10, <1>11, <1>12, <1>16 DEF Alike
  <2> QED  BY <1>9, <1>16, <1>17, <2>1 DEF Gone
<1>19. StateInv'  BY <1>2, <1>4 DEF StateInv
<1>20. CopyInv'  BY <1>2, <1>4 DEF CopyInv
<1>21. UpdateInv'  BY <1>2, <1>4, <1>15, <1>18 DEF UpdateInv, UnderWay, t
<1>22. IdleInv'
  <2>1. update'.phase = "sent" /\ Idle.phase = "idle"  BY <1>16 DEF t, Idle
  <2> QED  BY <2>1 DEF IdleInv
<1> QED  BY <1>19, <1>20, <1>21, <1>22 DEF IInv

LEMMA ReadKeeps ==
  ASSUME IInv, Read
  PROVE  IInv' /\ (Announceable => ~lost')
<1> DEFINE u == update  q == u.out  unk == u.unknown  n == u.nRects  v == HandleRects(Viewer(shown, q.items), n)
<1>1. /\ screen' = screen /\ shown' = v.pic /\ modified' = modified /\ copy' = copy /\ pending' = pending
      /\ update' = Idle /\ u.phase = "sent" /\ lost' = (~v.ok \/ Left(v) # 0)  BY SMT DEF Read
<1>2. update # Idle  BY <1>1 DEF Idle
<1>3. StateInv /\ ~lost /\ Typed(u) /\ CopyInv /\ Gone(u, screen, shown, modified, copy)
  BY <1>1, <1>2, WhileUnderWay DEF Telling, Moving, Sending
<1>4. unk \in BOOLEAN /\ n \in 0 .. LastRectUnknown /\ (unk = Yes => n = LastRectUnknown)  BY <1>3 DEF Typed, Whole
<1>5. n \in Nat /\ (unk = Yes \/ unk = No)  BY <1>4, LastRectIs DEF Yes, No
<1>6. copy = <<>> /\ Announced(u, 0)  BY <1>3 DEF Gone
<1>7. PICK P : WillRead(shown, q, P, unk) /\ Alike(P, screen, modified)  BY <1>3 DEF Gone
<1>8. q.headers \in Nat  BY <1>7 DEF WillRead, IsOut
<1>9. unk = No => n = Wrapped(q.headers)
  <2>1. unk = No => n = Wrapped(q.headers + 0)  BY <1>6 DEF Announced
  <2>2. q.headers + 0 = q.headers  BY <1>8
  <2> QED  BY <2>1, <2>2
<1> HIDE DEF u, q, unk, n
<1> DEFINE k == q.headers
<1>10. n <= k \/ unk = Yes
  <2>1. Wrapped(k) <= k  BY <1>8, WrappedIs
  <2> QED  BY <1>5, <1>9, <2>1
<1>11. ReadRight(v, q, P, unk, n)  BY <1>4, <1>5, <1>7, <1>10, UpdateRead
<1> HIDE DEF v
<1>12. v.pic \in Seen /\ (v.ok = Yes /\ Left(v) = 0 => v.pic = P)
       /\ (n = k \/ (unk = Yes /\ k <= n) => v.ok = Yes /\ Left(v) = 0)  BY <1>11 DEF ReadRight
<1>13. ~lost' => v.ok = Yes /\ Left(v) = 0  BY <1>1 DEF Yes
<1>14. StateInv'
  <2>1. lost' \in BOOLEAN  BY <1>1
  <2> QED  BY <1>1, <1>3, <1>12, <2>1 DEF StateInv
<1>15. CopyInv'  BY <1>1, <1>6 DEF CopyInv
<1>16. UpdateInv'  BY <1>1 DEF UpdateInv
<1>17. IdleInv'  BY <1>1, <1>7, <1>12, <1>13 DEF IdleInv
<1>18. ASSUME Announceable PROVE ~lost'
  <2>1. k <= LastRectUnknown  BY <1>2, <1>18 DEF Announceable, LastRectUnknown, k, q, u
  <2>2. Wrapped(k) = k  BY <1>8, <2>1, WrappedIs
  <2>3. n = k \/ (unk = Yes /\ k <= n)  BY <1>4, <1>5, <1>9, <2>1, <2>2
  <2>4. v.ok = Yes /\ Left(v) = 0  BY <1>12, <2>3
  <2> QED  BY <1>1, <2>4 DEF Yes
<1> QED  BY <1>14, <1>15, <1>16, <1>17, <1>18 DEF IInv

\* The invariant is inductive.
LEMMA NextKeeps == IInv /\ [Next]_vars => IInv'
<1> SUFFICES ASSUME IInv, [Next]_vars PROVE IInv'  OBVIOUS
<1>1. ASSUME NEW c \in Copyable, DoCopyRegion(c) PROVE IInv'  BY <1>1, DoCopyRegionKeeps
<1>2. ASSUME NEW enc \in Encodings, NEW rs \in Sendable, NEW lastRect \in BOOLEAN, Begin(enc, rs, lastRect) PROVE IInv'
  BY <1>2, BeginKeeps
<1>3. ASSUME NEW n \in NoticeSets, FallDue(n) PROVE IInv'  BY <1>3, FallDueKeeps
<1>4. CASE SendNotices  BY <1>4, SendNoticesKeeps
<1>5. CASE SendCopyRegion  BY <1>5, SendCopyRegionKeeps
<1>6. CASE SendRect  BY <1>6, SendRectKeeps
<1>7. CASE Finish  BY <1>7, FinishKeeps
<1>8. CASE Read  BY <1>8, ReadKeeps
<1>9. CASE UNCHANGED vars  BY <1>9, StutterKeeps
<1> QED  BY <1>1, <1>2, <1>3, <1>4, <1>5, <1>6, <1>7, <1>8, <1>9 DEF Next

\* The steps other than Read leave the viewer where it is in the stream.
LEMMA StaysInStep == IInv /\ Announceable /\ InStep /\ [Next]_vars => InStep'
<1> SUFFICES ASSUME IInv, Announceable, InStep, [Next]_vars PROVE InStep'  OBVIOUS
<1>1. ASSUME NEW c \in Copyable, DoCopyRegion(c) PROVE InStep'  BY <1>1 DEF DoCopyRegion, InStep
<1>2. ASSUME NEW enc \in Encodings, NEW rs \in Sendable, NEW lastRect \in BOOLEAN, Begin(enc, rs, lastRect) PROVE InStep'
  BY <1>2, SMT DEF Begin, InStep
<1>3. ASSUME NEW n \in NoticeSets, FallDue(n) PROVE InStep'  BY <1>3 DEF FallDue, InStep
<1>4. CASE SendNotices \/ SendCopyRegion \/ SendRect \/ Finish
  BY <1>4, SMT DEF SendNotices, SendCopyRegion, SendRect, Finish, InStep
<1>5. CASE Read  BY <1>5, ReadKeeps DEF InStep
<1>6. CASE UNCHANGED vars  BY <1>6 DEF vars, InStep
<1> QED  BY <1>1, <1>2, <1>3, <1>4, <1>5, <1>6 DEF Next

\* It says what the runs check.
LEMMA InvariantTypes == IInv => TypeOK
<1> SUFFICES ASSUME IInv PROVE TypeOK  OBVIOUS
<1>1. /\ screen \in [Screen -> Colours] /\ shown \in [Screen -> Colours \cup {Blank}]
      /\ modified \subseteq Screen /\ copy \in Copies \cup {<<>>} /\ lost \in BOOLEAN
      /\ pending \in NoticeSets \cup {NoNotice}  BY DEF IInv, StateInv, Pictures, Seen
<1>2. update = Idle => update.phase = "idle"  BY DEF Idle
<1>3. ASSUME update # Idle
      PROVE  /\ update.phase \in {"notices", "copies", "rects", "sent"}
             /\ update.enc \in Encodings /\ update.nRects \in 0 .. LastRectUnknown
             /\ update.out.ublen \in 0 .. UPDATE_BUF_SIZE /\ update.out.high \in 4 .. UPDATE_BUF_SIZE
  <2> DEFINE u == update
  <2>1. Typed(u) /\ (\/ Telling(u, screen, shown, modified, copy) \/ Moving(u, screen, shown, modified, copy)
                     \/ Sending(u, screen, shown, modified, copy) \/ Gone(u, screen, shown, modified, copy))
    BY <1>3, WhileUnderWay
  <2>2. u.phase \in {"notices", "copies", "rects", "sent"}  BY <2>1 DEF Telling, Moving, Sending, Gone
  <2>3. Choice(u.enc, u.lastRect) /\ Whole(u.unknown, u.nRects) /\ IsOut(u.out)  BY <2>1 DEF Typed
  <2> DEFINE o == u.out
  <2>4. o.ublen \in 0 .. UPDATE_BUF_SIZE /\ o.high \in 4 .. UPDATE_BUF_SIZE  BY <2>3 DEF IsOut
  <2> QED  BY <2>2, <2>3, <2>4 DEF Choice, Whole
<1> DEFINE R == 0 .. 65535  nr == update.nRects
<1>4. update # Idle => nr \in R
  <2>1. R = 0 .. LastRectUnknown  BY DEF LastRectUnknown
  <2>2. update # Idle => nr \in 0 .. LastRectUnknown  BY <1>3
  <2> HIDE DEF nr, R
  <2> QED  BY <2>1, <2>2
<1> DEFINE T == {"idle", "notices", "copies", "rects", "sent"}  ph == update.phase
           o == update.out  B == 0 .. UPDATE_BUF_SIZE  H == 4 .. UPDATE_BUF_SIZE  e == update.enc  ub == o.ublen  hi == o.high
<1>5. ph \in T  BY <1>2, <1>3
<1>6. update # Idle => ub \in B /\ hi \in H /\ e \in Encodings  BY <1>3
<1>7. TypeOK <=> /\ screen \in [Screen -> Colours] /\ shown \in [Screen -> Colours \cup {Blank}]
                 /\ modified \subseteq Screen /\ copy \in Copies \cup {<<>>} /\ lost \in BOOLEAN
                 /\ pending \in NoticeSets \cup {NoNotice}
                 /\ ph \in T
                 /\ update # Idle => e \in Encodings /\ nr \in R /\ ub \in B /\ hi \in H  BY SMT DEF TypeOK
<1> HIDE DEF T, R, B, H, ph, nr, ub, hi, e
<1> QED  BY <1>1, <1>4, <1>5, <1>6, <1>7

LEMMA InvariantShows == IInv /\ InStep => Shown  BY DEF IInv, IdleInv, InStep, Shown, Alike

LEMMA FirstInStep == Init => InStep  BY DEF Init, InStep

\* TypeOK, of updateBuf and of the number in the header (rfbSendFramebufferUpdate and
\* every encoder it calls), for all values of the constants.
THEOREM UpdateTypes == Spec => []TypeOK
<1>1. Init => IInv  BY InitIs
<1>2. IInv /\ [Next]_vars => IInv'  BY NextKeeps
<1>3. IInv => TypeOK  BY InvariantTypes
<1> QED  BY <1>1, <1>2, <1>3, PTL DEF Spec

\* InStep: HandleRFBServerMessage reads what rfbSendFramebufferUpdate has written, no
\* more and no less, as long as nRects is not cut.
THEOREM UpdateInStep == Spec /\ []Announceable => []InStep
<1>1. Init => IInv /\ InStep  BY InitIs, FirstInStep
<1>2. IInv /\ [Next]_vars => IInv'  BY NextKeeps
<1>3. IInv /\ Announceable /\ InStep /\ [Next]_vars => InStep'  BY StaysInStep
<1> QED  BY <1>1, <1>2, <1>3, PTL DEF Spec

\* Shown, of viewers in step: their framebuffer is the server's wherever that has been
\* sent (rfbSendFramebufferUpdate, with rfbDoCopyRegion's copies before it).
THEOREM UpdateShown == Spec => [](InStep => Shown)
<1>1. Init => IInv  BY InitIs
<1>2. IInv /\ [Next]_vars => IInv'  BY NextKeeps
<1>3. IInv => (InStep => Shown)  BY InvariantShows
<1> QED  BY <1>1, <1>2, <1>3, PTL DEF Spec

\* Shown, after every update whose number of rectangles fits into nRects.
THEOREM UpdateAlwaysShown == Spec /\ []Announceable => []Shown
<1>1. (InStep => Shown) /\ InStep => Shown  OBVIOUS
<1> QED  BY <1>1, UpdateInStep, UpdateShown, PTL
=============================================================================
