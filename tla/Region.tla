------------------------------- MODULE Region -------------------------------
(* rfbregion.c: a region is a list of bands (spans of y), each with a list  *)
(* of spans of x.  The operations walk two such lists side by side, split   *)
(* spans, recur into the bands and merge neighbours; they must do to the    *)
(* pixels of the region what their names say.                               *)
EXTENDS Integers, Sequences, SequencesExt, FiniteSets, FiniteSetsExt

CONSTANTS
  Regions,     \* the regions the program keeps
  Width, Height,
  Rects,       \* the rectangles <<x1, y1, x2, y2>> that regions are made of
  Shifts,      \* the displacements <<dx, dy>>
  MaxSince     \* bound of `since'

ASSUME RegionAssumption ==
  /\ Width \in Nat \ {0} /\ Height \in Nat \ {0} /\ MaxSince \in Nat
  /\ Rects \subseteq Int \X Int \X Int \X Int /\ Shifts \subseteq Int \X Int

VARIABLES
  list,        \* the list of bands of each region
  pixels,      \* the pixels it should have
  since        \* operations since a region was made of a rectangle without
               \* pixels; 0 if none was

vars == <<list, pixels, since>>

-----------------------------------------------------------------------------
(* Lists of spans.  A span of x has no list of its own, a band has a list of  *)
(* spans of x.                                                                *)

NoSubspan == <<>>
Span(a, b, sub) == [start |-> a, end |-> b, subspan |-> sub]
Spans == [start : Int, end : Int, subspan : {NoSubspan}]
Bands == [start : Int, end : Int, subspan : Seq(Spans)]
Lists == Seq(Bands)      \* a list of spans is one of bands, as far as these go

Lower(a, b) == IF a < b THEN a ELSE b
Upper(a, b) == IF a < b THEN b ELSE a

\* Faulty Mergeable: spans are merged whatever is in them.
Adjoin(a, b) == a.end = b.start
Mergeable(a, b) == a.end = b.start /\ a.subspan = b.subspan

\* sraSpanMergePrevious of the last span of a list, and sraSpanMergeNext of
\* the first one.
MergePrevious[l \in Lists] ==
  IF Len(l) > 1 /\ Mergeable(Last(Front(l)), Last(l))
    THEN MergePrevious[Append(Front(Front(l)), [Last(l) EXCEPT !.start = Last(Front(l)).start])]
    ELSE l
MergeNext[l \in Lists] ==
  IF Len(l) > 1 /\ Mergeable(Head(l), Head(Tail(l)))
    THEN MergeNext[<<[Head(l) EXCEPT !.end = Head(Tail(l)).end]>> \o Tail(Tail(l))]
    ELSE l

\* The part of c that t leaves over in front of it, behind it, and the rest.
InFront(c, t) == IF t.start > c.start THEN <<Span(c.start, t.start, c.subspan)>> ELSE <<>>
Behind(c, t)  == IF t.end < c.end THEN <<Span(t.end, c.end, c.subspan)>> ELSE <<>>
Common(c, t, sub) == Span(Upper(c.start, t.start), Lower(c.end, t.end), sub)

\* The three operations walk through a list and the source side by side: `done'
\* is what lies before the current span of the list, d the rest of it, s the
\* rest of the source.  Each turn of the loop leads from walk to walk; `below'
\* is the same operation on the lists of two bands.
Walks == [done : Lists, d : Lists, s : Lists]
Walk(done, d, s) == [done |-> done, d |-> d, s |-> s]
NoneBelow == [w \in Walks |-> NoSubspan]

OrStep(w, below) ==
  IF w.d = <<>> THEN Walk(Append(w.done, Head(w.s)), w.d, Tail(w.s))
  ELSE
  LET c == Head(w.d)  t == Head(w.s)
  IN  IF c.start >= t.end
        THEN LET m == MergePrevious[w.done \o <<t, c>>]
             IN  Walk(Front(m), <<Last(m)>> \o Tail(w.d), Tail(w.s))
      ELSE IF t.start >= c.end THEN Walk(Append(w.done, c), Tail(w.d), w.s)
      ELSE
      LET left  == IF t.start < c.start
                     THEN MergePrevious[w.done \o <<Span(t.start, c.start, t.subspan), c>>]
                     ELSE Append(w.done, c)
          e     == Last(left)
          sub   == below[Walk(<<>>, e.subspan, t.subspan)]
          rest  == Behind(e, t) \o Tail(w.d)
          m     == MergePrevious[Front(left) \o InFront(e, t) \o <<Common(e, t, sub)>>]
          right == MergeNext[<<Last(m)>> \o rest]
          end   == Head(right).end
      IN  IF t.end > end
            THEN Walk(Append(Front(m), Head(right)), Tail(right),
                      <<[t EXCEPT !.start = end]>> \o Tail(w.s))
            ELSE Walk(Front(m), right, Tail(w.s))

AndStep(w, below) ==
  LET c == Head(w.d)  t == Head(w.s)
  IN  IF c.start >= t.end THEN Walk(w.done, w.d, Tail(w.s))
      ELSE IF c.end <= t.start THEN Walk(w.done, Tail(w.d), w.s)
      ELSE
      LET sub  == below[Walk(<<>>, c.subspan, t.subspan)]
          both == Common(c, t, sub)
          rest == Behind(c, t) \o Tail(w.d)
      IN  IF c.subspan # NoSubspan /\ sub = <<>> THEN Walk(w.done, rest, w.s)
          ELSE Walk(MergePrevious[Append(w.done, both)], rest,
                    IF t.end <= both.end THEN Tail(w.s) ELSE w.s)

SubtractStep(w, below) ==
  LET c == Head(w.d)  t == Head(w.s)
  IN  IF c.start >= t.end THEN Walk(w.done, w.d, Tail(w.s))
      ELSE IF c.end <= t.start THEN Walk(Append(w.done, c), Tail(w.d), w.s)
      ELSE
      LET sub   == below[Walk(<<>>, c.subspan, t.subspan)]
          rest  == Behind(c, t) \o Tail(w.d)
          m     == MergePrevious[w.done \o InFront(c, t) \o <<Common(c, t, sub)>>]
          right == MergeNext[<<Last(m)>> \o rest]
      IN  IF sub = <<>> THEN Walk(w.done \o InFront(c, t), rest, w.s)
          ELSE IF t.end > Head(right).end
                 THEN Walk(Append(Front(m), Head(right)), Tail(right), w.s)
          ELSE Walk(Front(m), right, Tail(w.s))

\* Each operation for the spans of two bands, and for two lists of bands.
SpansOr[w \in Walks] ==
  IF w.s = <<>> THEN w.done \o w.d ELSE SpansOr[OrStep(w, NoneBelow)]
ListOr[w \in Walks] ==
  IF w.s = <<>> THEN w.done \o w.d ELSE ListOr[OrStep(w, SpansOr)]

SpansAnd[w \in Walks] ==
  IF w.s = <<>> \/ w.d = <<>> THEN w.done ELSE SpansAnd[AndStep(w, NoneBelow)]
ListAnd[w \in Walks] ==
  IF w.s = <<>> \/ w.d = <<>> THEN w.done ELSE ListAnd[AndStep(w, SpansAnd)]

SpansSubtract[w \in Walks] ==
  IF w.s = <<>> \/ w.d = <<>> THEN w.done \o w.d ELSE SpansSubtract[SubtractStep(w, NoneBelow)]
ListSubtract[w \in Walks] ==
  IF w.s = <<>> \/ w.d = <<>> THEN w.done \o w.d ELSE ListSubtract[SubtractStep(w, SpansSubtract)]

-----------------------------------------------------------------------------
(* Regions.                                                                  *)

CreateRect(r) == <<Span(r[2], r[4], <<Span(r[1], r[3], NoSubspan)>>)>>
Inside(r) == (r[1] .. r[3] - 1) \X (r[2] .. r[4] - 1)

Offset(l, v) ==
  [i \in 1 .. Len(l) |->
     Span(l[i].start + v[2], l[i].end + v[2],
          [j \in 1 .. Len(l[i].subspan) |->
             Span(l[i].subspan[j].start + v[1], l[i].subspan[j].end + v[1], NoSubspan)])]

\* sraRgnBBox, the smallest rectangle; without a span the region is empty.
BBox(l) ==
  LET spans == UNION {Range(l[i].subspan) : i \in 1 .. Len(l)}
  IN  IF l = <<>> THEN <<>>
      ELSE CreateRect(<<Min({s.start : s \in spans}), Min({b.start : b \in Range(l)}),
                        Max({s.end : s \in spans}),   Max({b.end : b \in Range(l)})>>)

\* A place in a list is <<band, span>>; `reverse' says for x and for y
\* whether it is gone through backwards.
Places(l) == UNION {{<<i, j>> : j \in 1 .. Len(l[i].subspan)} : i \in 1 .. Len(l)}
First(n, reverse) == IF reverse THEN n ELSE 1
\* Faulty HasNext: the end is always the last one.
HasNextForward(i, n, reverse) == i < n
HasNext(i, n, reverse) == IF reverse THEN i > 1 ELSE i < n
After(i, reverse) == IF reverse THEN i - 1 ELSE i + 1
RectAt(l, at) ==
  <<l[at[1]].subspan[at[2]].start, l[at[1]].start, l[at[1]].subspan[at[2]].end, l[at[1]].end>>

\* sraRgnIteratorNext: the next span of the band, or else the first of the next.
\* Iterate has the rectangles that one call after the other gives.
FirstOf(l, reverse, band) == <<band, First(Len(l[band].subspan), reverse[1])>>
NextPlace(l, reverse, at) ==
  IF HasNext(at[2], Len(l[at[1]].subspan), reverse[1])
    THEN <<at[1], After(at[2], reverse[1])>>
    ELSE FirstOf(l, reverse, After(at[1], reverse[2]))
Iterate(l, reverse) ==
  LET Turns == [done : Seq(Int \X Int \X Int \X Int), at : Places(l)]
      Done(i) == Append(i.done, RectAt(l, i.at))
      go[i \in Turns] ==
        IF \/ HasNext(i.at[2], Len(l[i.at[1]].subspan), reverse[1])
           \/ HasNext(i.at[1], Len(l), reverse[2])
          THEN go[[done |-> Done(i), at |-> NextPlace(l, reverse, i.at)]]
          ELSE Done(i)
  IN  IF l = <<>> THEN <<>>
      ELSE go[[done |-> <<>>, at |-> FirstOf(l, reverse, First(Len(l), reverse[2]))]]

\* sraSpanListCount
CountRects(l) ==
  LET count[i \in 0 .. Len(l)] == IF i = 0 THEN 0 ELSE count[i - 1] + Len(l[i].subspan)
  IN  count[Len(l)]

\* The rectangle that sraRgnPopRect gives back.
Popped(l, reverse) == RectAt(l, FirstOf(l, reverse, First(Len(l), reverse[2])))

\* Faulty PopRect: a band without spans is left.
PopSpan(l, reverse) ==
  LET i == First(Len(l), reverse[2])
  IN  [l EXCEPT ![i].subspan = RemoveAt(@, First(Len(@), reverse[1]))]

\* sraRgnPopRect: the list without the first rectangle in the order asked for.
PopRect(l, reverse) ==
  LET i   == First(Len(l), reverse[2])
      sub == RemoveAt(l[i].subspan, First(Len(l[i].subspan), reverse[1]))
  IN  IF sub = <<>> THEN RemoveAt(l, i) ELSE [l EXCEPT ![i].subspan = sub]

-----------------------------------------------------------------------------
Init ==
  /\ list = [g \in Regions |-> <<>>] /\ pixels = [g \in Regions |-> {}]
  /\ since = 0

\* A region becomes list l, which should have the pixels of p.
Becomes(g, l, p) ==
  /\ list' = [list EXCEPT ![g] = l] /\ pixels' = [pixels EXCEPT ![g] = p]

RgnCreateRect(g, r) ==
  Becomes(g, CreateRect(r), Inside(r))

RgnOr(g, h)  == Becomes(g, ListOr[Walk(<<>>, list[g], list[h])], pixels[g] \cup pixels[h])
RgnAnd(g, h) == Becomes(g, ListAnd[Walk(<<>>, list[g], list[h])], pixels[g] \cap pixels[h])
RgnSubtract(g, h) == Becomes(g, ListSubtract[Walk(<<>>, list[g], list[h])], pixels[g] \ pixels[h])

\* What is moved out of the picture is cut off by the callers.
RgnOffset(g, v) ==
  LET screen == <<0, 0, Width, Height>>
  IN  Becomes(g, ListAnd[Walk(<<>>, Offset(list[g], v), CreateRect(screen))],
              {<<p[1] + v[1], p[2] + v[2]>> : p \in pixels[g]} \cap Inside(screen))

\* The pixels of the smallest rectangle around those of S.
Around(S) ==
  LET xs == {p[1] : p \in S}  ys == {p[2] : p \in S}
  IN  IF S = {} THEN {} ELSE (Min(xs) .. Max(xs)) \X (Min(ys) .. Max(ys))
RgnBBox(g, h) == Becomes(g, BBox(list[h]), Around(pixels[h]))

RgnPopRect(g, reverse) ==
  /\ list[g] # <<>>
  /\ Becomes(g, PopRect(list[g], reverse), pixels[g] \ Inside(Popped(list[g], reverse)))

RgnCreateRgn(g, h) == Becomes(g, list[h], pixels[h])
RgnMakeEmpty(g) == Becomes(g, <<>>, {})

Next ==
  since < MaxSince /\ \E g \in Regions :
    \/ \E r \in Rects :
         /\ RgnCreateRect(g, r)
         /\ since' = IF since = 0 /\ Inside(r) # {} THEN 0 ELSE since + 1
    \/ /\ since' = IF since = 0 THEN 0 ELSE since + 1
       /\ \/ \E h \in Regions \ {g} :
               RgnOr(g, h) \/ RgnAnd(g, h) \/ RgnSubtract(g, h) \/ RgnCreateRgn(g, h)
          \/ since = 0 /\ \E h \in Regions : RgnBBox(g, h)
          \/ \E v \in Shifts : RgnOffset(g, v)
          \/ \E reverse \in BOOLEAN \X BOOLEAN : RgnPopRect(g, reverse)
          \/ RgnMakeEmpty(g)

Spec == Init /\ [][Next]_vars

-----------------------------------------------------------------------------
Covered(l) == UNION {Inside(RectAt(l, at)) : at \in Places(l)}

\* Whatever was done to a region, its list stands for exactly the pixels the
\* operations should have left in it (rfbregion.c 273-523).
Meaning == \A g \in Regions : Covered(list[g]) = pixels[g]

\* The spans of a list do not overlap, stand in order and are not empty, and
\* sraRgnEmpty tells whether there are pixels, as long as no region was
\* made of a rectangle without any.
Sorted(l) ==
  /\ \A i \in 1 .. Len(l) : l[i].start < l[i].end
  /\ \A i \in 1 .. Len(l) - 1 : l[i].end <= l[i + 1].start
TypeOK ==
  since = 0 => \A g \in Regions :
    /\ Sorted(list[g])
    /\ \A i \in 1 .. Len(list[g]) : list[g][i].subspan # <<>> /\ Sorted(list[g][i].subspan)

\* The iterator passes through every pixel of the region once, in the order
\* that its caller asks for, which rfbSendCopyRegion and rfbDoCopyRegion
\* rely on: no later rectangle lies in front of an earlier one.
InOrder(rs, reverse) ==
  \A i, j \in 1 .. Len(rs) : i < j =>
    /\ Inside(rs[i]) \cap Inside(rs[j]) = {}
    /\ IF reverse[2] THEN rs[j][2] <= rs[i][2] ELSE rs[i][2] <= rs[j][2]
    /\ rs[i][2] = rs[j][2] => IF reverse[1] THEN rs[j][3] <= rs[i][1] ELSE rs[i][3] <= rs[j][1]
Traversal ==
  since = 0 => \A g \in Regions : \A reverse \in BOOLEAN \X BOOLEAN :
    LET rs == Iterate(list[g], reverse)
    IN  /\ InOrder(rs, reverse) /\ Len(rs) = CountRects(list[g])
        /\ UNION {Inside(rs[i]) : i \in 1 .. Len(rs)} = pixels[g]
=============================================================================
