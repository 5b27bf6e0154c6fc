--------------------------- MODULE RegionProofs -----------------------------
(* What the loops of Region make of lists of spans: the union, intersection  *)
(* and difference of what the lists stand for, in order again.  The content  *)
(* of the spans is left open, so that the same lemmas serve for the spans of *)
(* a band and for the bands of a region.  And so the regions stand for the   *)
(* pixels that the operations on them mean, their lists stay in order, and   *)
(* the iterator goes through them.                                           *)
EXTENDS Region, TLAPS, FiniteSetTheorems, SequenceTheorems, WellFoundedInduction,
        NaturalsInduction

-----------------------------------------------------------------------------
(* Loops.  A loop is a function defined by tail recursion: what it makes of w *)
(* is res[w] when w \in stop, and otherwise what it makes of next[w].         *)

Loops(f, W, stop, res, next) ==
  f = [w \in W |-> IF w \in stop THEN res[w] ELSE f[next[w]]]

\* There is such a function, whether the loop ends or not.
LEMMA LoopExists ==
  ASSUME NEW W, NEW stop, NEW res, NEW next, \A w \in W : w \notin stop => next[w] \in W
  PROVE  \E f : Loops(f, W, stop, res, next)
<1> DEFINE Closed(Q) == /\ \A e \in W : e \in stop => <<e, e>> \in Q
                        /\ \A w \in W, e \in W : w \notin stop /\ <<next[w], e>> \in Q => <<w, e>> \in Q
           Leads == {p \in W \X W : \A Q \in SUBSET (W \X W) : Closed(Q) => p \in Q}
           last(w) == CHOOSE e : <<w, e>> \in Leads
           f == [w \in W |-> res[last(w)]]
<1>1. Closed(Leads)
  OBVIOUS
<1>2. ASSUME NEW w \in W, w \in stop PROVE \A e : <<w, e>> \in Leads <=> e = w
  <2> DEFINE Q == {p \in W \X W : p[1] = w => p[2] = w}
  <2>1. Q \in SUBSET (W \X W) /\ Closed(Q)
    BY <1>2
  <2> HIDE DEF Q
  <2>2. ASSUME NEW e, <<w, e>> \in Leads PROVE e = w
    <3>1. <<w, e>> \in Q
      BY <2>1, <2>2
    <3> QED  BY <3>1 DEF Q
  <2>3. <<w, w>> \in Leads
    BY <1>1, <1>2
  <2> QED  BY <2>2, <2>3
<1>3. ASSUME NEW w \in W, w \notin stop PROVE \A e : <<w, e>> \in Leads <=> <<next[w], e>> \in Leads
  <2> DEFINE Q == {p \in Leads : p[1] = w => <<next[w], p[2]>> \in Leads}
  <2>1. Q \in SUBSET (W \X W)
    OBVIOUS
  <2>2. Closed(Q)
    <3>1. ASSUME NEW e \in W, e \in stop PROVE <<e, e>> \in Q
      BY <1>1, <1>3, <3>1
    <3>2. ASSUME NEW v \in W, NEW e \in W, v \notin stop, <<next[v], e>> \in Q PROVE <<v, e>> \in Q
      <4>1. <<next[v], e>> \in Leads
        BY <3>2
      <4>2. <<v, e>> \in Leads
        BY <1>1, <3>2, <4>1
      <4> QED  BY <4>1, <4>2
    <3> QED  BY <3>1, <3>2
  <2>3. ASSUME NEW e, <<w, e>> \in Leads PROVE <<next[w], e>> \in Leads
    <3>1. <<w, e>> \in Q
      <4> HIDE DEF Q
      <4> QED  BY <2>1, <2>2, <2>3
    <3> QED  BY <3>1
  <2>4. ASSUME NEW e, <<next[w], e>> \in Leads PROVE <<w, e>> \in Leads
    <3>1. e \in W
      BY <2>4
    <3> QED  BY <1>1, <1>3, <2>4, <3>1
  <2> QED  BY <2>3, <2>4
<1> HIDE DEF Leads, Closed
<1>4. ASSUME NEW w \in W PROVE f[w] = IF w \in stop THEN res[w] ELSE f[next[w]]
  <2>1. CASE w \in stop
    <3>1. last(w) = w
      BY <1>2, <2>1
    <3> HIDE DEF last
    <3> QED  BY <2>1, <3>1
  <2>2. CASE w \notin stop
    <3>1. last(w) = last(next[w])
      BY <1>3, <2>2
    <3>2. next[w] \in W
      BY <2>2
    <3> HIDE DEF last
    <3> QED  BY <2>2, <3>1, <3>2
  <2> QED  BY <2>1, <2>2
<1>5. f = [w \in W |-> f[w]]
  OBVIOUS
<1> HIDE DEF f
<1>6. [w \in W |-> f[w]] = [w \in W |-> IF w \in stop THEN res[w] ELSE f[next[w]]]
  BY <1>4
<1>7. f = [w \in W |-> IF w \in stop THEN res[w] ELSE f[next[w]]]
  BY <1>5, <1>6
<1> QED  BY <1>7 DEF Loops

\* What a loop makes of w, by a loop invariant J and a rank that each turn lowers.
Turns(W, stop, next, J, rank) ==
  /\ J \in SUBSET W /\ rank \in [J -> Nat]
  /\ \A w \in J : w \notin stop => next[w] \in J /\ rank[next[w]] < rank[w]
Ends(stop, res, J, Q) == \A w \in J : w \in stop => res[w] \in Q

\* With them, what the loop makes of any w in J is in Q.
LEMMA LoopResult ==
  ASSUME NEW W, NEW stop, NEW res, NEW next, NEW f, NEW J, NEW rank, NEW Q,
         Loops(f, W, stop, res, next), Turns(W, stop, next, J, rank), Ends(stop, res, J, Q)
  PROVE  \A w \in J : f[w] \in Q
<1> USE DEF Turns, Ends
<1> DEFINE Bad == {n \in Nat : \E w \in J : rank[w] = n /\ f[w] \notin Q}
<1>1. SUFFICES ASSUME Bad # {} PROVE FALSE
  <2>1. ASSUME NEW w \in J PROVE rank[w] \in Nat
    OBVIOUS
  <2> QED  BY <2>1
<1>2. PICK n \in Bad : \A m \in Bad : ~(<<m, n>> \in OpToRel(<, Nat))
  <2>1. Bad \subseteq Nat
    OBVIOUS
  <2> HIDE DEF Bad
  <2> QED  BY <1>1, <2>1, WFMin, NatLessThanWellFounded, Zenon
<1>3. \A x, y \in Nat : x < y => <<x, y>> \in OpToRel(<, Nat)
  BY Zenon DEF OpToRel
<1>4. PICK w \in J : rank[w] = n /\ f[w] \notin Q
  OBVIOUS
<1>5. w \in W /\ f[w] = IF w \in stop THEN res[w] ELSE f[next[w]]
  <2>1. w \in W
    OBVIOUS
  <2>2. \A x \in W : f[x] = IF x \in stop THEN res[x] ELSE f[next[x]]
    BY DEF Loops
  <2> QED  BY <2>1, <2>2
<1>6. w \notin stop /\ f[next[w]] \notin Q
  BY <1>4, <1>5
<1>7. next[w] \in J /\ rank[next[w]] < n /\ rank[next[w]] \in Nat
  BY <1>4, <1>6
<1>8. rank[next[w]] \in Bad
  BY <1>6, <1>7
<1>9. n \in Nat
  OBVIOUS
<1> QED  BY <1>2, <1>3, <1>7, <1>8, <1>9

-----------------------------------------------------------------------------
(* Lists, taken apart and put together.                                      *)

\* A list is its head and its tail.
LEMMA AtFront ==
  ASSUME NEW S, NEW l \in Seq(S), l # <<>>
  PROVE  /\ Head(l) \in S /\ Tail(l) \in Seq(S) /\ Len(Tail(l)) = Len(l) - 1 /\ Len(l) \in Nat \ {0}
         /\ l = <<Head(l)>> \o Tail(l) /\ Head(l) = l[1]
<1>1. Len(l) \in Nat \ {0}
  BY EmptySeq
<1>2. Head(l) \in S /\ Tail(l) \in Seq(S) /\ Len(Tail(l)) = Len(l) - 1
  BY HeadTailProperties
<1>3. Head(l) = l[1]
  BY <1>1
<1>4. SubSeq(l, 1, Len(l)) = <<l[1]>> \o SubSeq(l, 2, Len(l))
  <2>1. 1 \in 1 .. Len(l) /\ Len(l) \in 1 .. Len(l)
    BY <1>1
  <2>2. SubSeq(l, 1, Len(l)) = <<l[1]>> \o SubSeq(l, 1 + 1, Len(l))
    BY <2>1, SubSeqRecursiveFirst
  <2> QED  BY <2>2
<1>5. l = <<Head(l)>> \o Tail(l)
  BY <1>3, <1>4, SubSeqFull, TailIsSubSeq
<1> QED  BY <1>1, <1>2, <1>3, <1>5

\* A list is its front and its last element.
LEMMA AtEnd ==
  ASSUME NEW S, NEW l \in Seq(S), l # <<>>
  PROVE  /\ Last(l) \in S /\ Front(l) \in Seq(S) /\ Len(Front(l)) = Len(l) - 1 /\ Len(l) \in Nat \ {0}
         /\ l = Front(l) \o <<Last(l)>>
<1>1. Len(l) \in Nat \ {0}
  BY EmptySeq
<1>2. Last(l) \in S
  BY <1>1, ElementOfSeq DEF Last
<1>3. Front(l) \in Seq(S) /\ Len(Front(l)) = Len(l) - 1
  <2>1. \A i \in 1 .. Len(l) - 1 : l[i] \in S
    BY <1>1
  <2>2. Front(l) \in Seq(S) /\ Len(Front(l)) = IF 1 <= Len(l) - 1 THEN (Len(l) - 1) - 1 + 1 ELSE 0
    BY <1>1, <2>1, SubSeqProperties DEF Front
  <2>3. \A n \in Nat \ {0} : (IF 1 <= n - 1 THEN (n - 1) - 1 + 1 ELSE 0) = n - 1
    OBVIOUS
  <2> QED  BY <1>1, <2>2, <2>3
<1>4. l = Front(l) \o <<Last(l)>>
  <2>1. 1 \in 1 .. Len(l) /\ Len(l) \in 1 .. Len(l)
    BY <1>1
  <2>2. SubSeq(l, 1, Len(l)) = SubSeq(l, 1, Len(l) - 1) \o <<l[Len(l)]>>
    BY <2>1, SubSeqRecursiveSecond
  <2> QED  BY <2>2, SubSeqFull DEF Front, Last
<1> QED  BY <1>1, <1>2, <1>3, <1>4

\* The end of a list that was put together.
LEMMA EndOf ==
  ASSUME NEW S, NEW l \in Seq(S), NEW c \in S
  PROVE  /\ l \o <<c>> \in Seq(S) /\ l \o <<c>> # <<>> /\ Len(l \o <<c>>) = Len(l) + 1
         /\ Front(l \o <<c>>) = l /\ Last(l \o <<c>>) = c /\ Append(l, c) = l \o <<c>>
<1> DEFINE k == l \o <<c>>
<1>1. <<c>> \in Seq(S) /\ Len(<<c>>) = 1 /\ <<c>>[1] = c /\ Len(l) \in Nat
  OBVIOUS
<1>2. k \in Seq(S) /\ Len(k) = Len(l) + 1 /\ \A i \in 1 .. Len(l) + 1 : k[i] = IF i <= Len(l) THEN l[i] ELSE <<c>>[i - Len(l)]
  BY <1>1, ConcatProperties
<1>3. k # <<>>
  BY <1>1, <1>2, EmptySeq
<1> HIDE DEF k
<1>4. Last(k) = c
  <2>1. Len(l) + 1 \in 1 .. Len(l) + 1 /\ ~(Len(l) + 1 <= Len(l)) /\ (Len(l) + 1) - Len(l) = 1
    BY <1>1
  <2> QED  BY <1>1, <1>2, <2>1 DEF Last
<1>5. Front(k) = l
  <2>1. Front(k) \in Seq(S) /\ Len(Front(k)) = Len(l)
    <3>1. Front(k) \in Seq(S) /\ Len(Front(k)) = Len(k) - 1
      BY <1>2, <1>3, AtEnd, Zenon
    <3> QED  BY <1>1, <1>2, <3>1
  <2>2. \A i \in 1 .. Len(l) : Front(k)[i] = l[i]
    <3>1. \A i \in 1 .. Len(k) - 1 : k[i] \in S
      BY <1>1, <1>2
    <3>2. \A i \in 1 .. (Len(k) - 1) - 1 + 1 : SubSeq(k, 1, Len(k) - 1)[i] = k[1 + i - 1]
      BY <1>1, <1>2, <3>1, SubSeqProperties
    <3>3. ASSUME NEW i \in 1 .. Len(l) PROVE Front(k)[i] = l[i]
      <4>1. i \in 1 .. (Len(k) - 1) - 1 + 1 /\ 1 + i - 1 = i /\ i \in 1 .. Len(l) + 1 /\ i <= Len(l)
        BY <1>1, <1>2
      <4> QED  BY <1>2, <3>2, <4>1 DEF Front
    <3> QED  BY <3>3
  <2> QED  BY <2>1, <2>2, SeqEqual
<1>6. Append(l, c) = k
  BY AppendIsConcat DEF k
<1> QED  BY <1>2, <1>3, <1>4, <1>5, <1>6 DEF k

\* The beginning of one.
LEMMA FrontOf ==
  ASSUME NEW S, NEW l \in Seq(S), NEW c \in S
  PROVE  /\ <<c>> \o l \in Seq(S) /\ <<c>> \o l # <<>> /\ Len(<<c>> \o l) = Len(l) + 1
         /\ Head(<<c>> \o l) = c /\ Tail(<<c>> \o l) = l
<1> DEFINE k == <<c>> \o l
<1>1. <<c>> \in Seq(S) /\ Len(<<c>>) = 1 /\ <<c>>[1] = c /\ Len(l) \in Nat
  OBVIOUS
<1>2. k \in Seq(S) /\ Len(k) = 1 + Len(l) /\ \A i \in 1 .. 1 + Len(l) : k[i] = IF i <= 1 THEN <<c>>[i] ELSE l[i - 1]
  BY <1>1, ConcatProperties
<1>3. k # <<>>
  BY <1>1, <1>2, EmptySeq
<1> HIDE DEF k
<1>4. Head(k) = c
  <2>1. 1 \in 1 .. 1 + Len(l)
    BY <1>1
  <2> QED  BY <1>1, <1>2, <1>3, <2>1
<1>5. Tail(k) = l
  <2>1. Tail(k) \in Seq(S) /\ Len(Tail(k)) = Len(l) /\ \A i \in 1 .. Len(Tail(k)) : Tail(k)[i] = k[i + 1]
    BY <1>1, <1>2, <1>3, HeadTailProperties
  <2>2. ASSUME NEW i \in 1 .. Len(l) PROVE Tail(k)[i] = l[i]
    <3>1. i + 1 \in 1 .. 1 + Len(l) /\ ~(i + 1 <= 1) /\ (i + 1) - 1 = i
      BY <1>1
    <3> QED  BY <1>2, <2>1, <3>1
  <2> QED  BY <2>1, <2>2, SeqEqual
<1> QED  BY <1>1, <1>2, <1>3, <1>4, <1>5 DEF k

\* What is in a list of one element, and in the empty list.
LEMMA RangeOne == \A c : Range(<<c>>) = {c}
<1>1. ASSUME NEW c PROVE Range(<<c>>) = {c}
  <2>1. DOMAIN <<c>> = {1} /\ <<c>>[1] = c
    OBVIOUS
  <2> QED  BY <2>1 DEF Range
<1> QED  BY <1>1

LEMMA RangeNone == Range(<<>>) = {}
  BY DEF Range

-----------------------------------------------------------------------------
(* Spans in order, and what a set of them stands for.                        *)

Kind(C) == [start : Int, end : Int, subspan : C]
Ordered(l) == \A i, j \in 1 .. Len(l) : i < j => l[i].end <= l[j].start
Ahead(A, B) == \A x \in A, y \in B : x.end <= y.start
Filled(A) == \A c \in A : c.start < c.end
Good(C, l) == l \in Seq(Kind(C)) /\ Ordered(l) /\ Filled(Range(l))

\* m says for each content what places it has; a point is a place within a span.
Block(m, c) == {p \in Int \X Int : c.start <= p[1] /\ p[1] < c.end /\ p[2] \in m[c.subspan]}
Area(m, A) == UNION {Block(m, c) : c \in A}

\* Two lists put together are in order when each is and one lies ahead of the other.
LEMMA OrderedConcat ==
  ASSUME NEW S, NEW a \in Seq(S), NEW b \in Seq(S)
  PROVE  Ordered(a \o b) <=> Ordered(a) /\ Ordered(b) /\ Ahead(Range(a), Range(b))
<1> DEFINE k == a \o b
<1>1. /\ Len(a) \in Nat /\ Len(b) \in Nat /\ Len(k) = Len(a) + Len(b)
      /\ \A i \in 1 .. Len(a) + Len(b) : k[i] = IF i <= Len(a) THEN a[i] ELSE b[i - Len(a)]
  BY ConcatProperties
<1>2. Range(a) = {a[i] : i \in 1 .. Len(a)} /\ Range(b) = {b[i] : i \in 1 .. Len(b)}
  BY RangeEquality
<1>3. \A i \in 1 .. Len(a) : i \in 1 .. Len(k) /\ k[i] = a[i]
  BY <1>1
<1>4. \A i \in 1 .. Len(b) : Len(a) + i \in 1 .. Len(k) /\ k[Len(a) + i] = b[i]
  BY <1>1
<1>5. \A i \in 1 .. Len(k) : i \in 1 .. Len(a) \/ \E j \in 1 .. Len(b) : i = Len(a) + j
  <2>1. ASSUME NEW i \in 1 .. Len(k), i \notin 1 .. Len(a) PROVE i - Len(a) \in 1 .. Len(b) /\ i = Len(a) + (i - Len(a))
    BY <1>1, <2>1
  <2> QED  BY <2>1
<1> HIDE DEF k
<1>6. ASSUME Ordered(k) PROVE Ordered(a) /\ Ordered(b) /\ Ahead(Range(a), Range(b))
  <2>1. Ordered(a)
    BY <1>3, <1>6 DEF Ordered
  <2>2. Ordered(b)
    <3>1. \A i, j \in 1 .. Len(b) : i < j => Len(a) + i < Len(a) + j
      BY <1>1
    <3> QED  BY <1>4, <1>6, <3>1 DEF Ordered
  <2>3. \A i \in 1 .. Len(a), j \in 1 .. Len(b) : a[i].end <= b[j].start
    <3>1. \A i \in 1 .. Len(a), j \in 1 .. Len(b) : i < Len(a) + j
      BY <1>1
    <3> QED  BY <1>3, <1>4, <1>6, <3>1 DEF Ordered
  <2> QED  BY <1>2, <2>1, <2>2, <2>3 DEF Ahead
<1>7. ASSUME Ordered(a), Ordered(b), Ahead(Range(a), Range(b)) PROVE Ordered(k)
  <2>1. \A i \in 1 .. Len(a), j \in 1 .. Len(b) : a[i].end <= b[j].start
    BY <1>2, <1>7 DEF Ahead
  <2>2. ASSUME NEW i \in 1 .. Len(k), NEW j \in 1 .. Len(k), i < j PROVE k[i].end <= k[j].start
    <3>1. CASE i \in 1 .. Len(a) /\ j \in 1 .. Len(a)
      BY <1>3, <1>7, <2>2, <3>1 DEF Ordered
    <3>2. CASE i \in 1 .. Len(a) /\ j \notin 1 .. Len(a)
      BY <1>3, <1>4, <1>5, <2>1, <3>2
    <3>3. CASE i \notin 1 .. Len(a)
      <4>1. PICK x \in 1 .. Len(b) : i = Len(a) + x
        BY <1>5, <3>3
      <4>2. j \notin 1 .. Len(a)
        BY <1>1, <2>2, <4>1
      <4>3. PICK y \in 1 .. Len(b) : j = Len(a) + y
        BY <1>5, <4>2
      <4>4. x < y
        BY <1>1, <2>2, <4>1, <4>3
      <4> QED  BY <1>4, <1>7, <4>1, <4>3, <4>4 DEF Ordered
    <3> QED  BY <3>1, <3>2, <3>3
  <2> QED  BY <2>2 DEF Ordered
<1> QED  BY <1>6, <1>7 DEF k

\* The same of good lists.
LEMMA GoodConcat ==
  ASSUME NEW C, NEW a \in Seq(Kind(C)), NEW b \in Seq(Kind(C))
  PROVE  /\ a \o b \in Seq(Kind(C)) /\ Range(a \o b) = Range(a) \cup Range(b)
         /\ Range(a) \subseteq Kind(C) /\ Range(b) \subseteq Kind(C)
         /\ Good(C, a \o b) <=> Good(C, a) /\ Good(C, b) /\ Ahead(Range(a), Range(b))
<1>1. Range(a \o b) = Range(a) \cup Range(b)
  BY RangeConcatenation
<1>2. a \o b \in Seq(Kind(C))
  BY ConcatProperties
<1>3. Range(a) \in SUBSET Kind(C) /\ Range(b) \in SUBSET Kind(C)
  BY RangeOfSeq
<1>4. Ordered(a \o b) <=> Ordered(a) /\ Ordered(b) /\ Ahead(Range(a), Range(b))
  BY OrderedConcat
<1> QED  BY <1>1, <1>2, <1>3, <1>4 DEF Good, Filled

\* A list of one span is good when the span is not empty.
LEMMA GoodOne ==
  ASSUME NEW C, NEW c \in Kind(C)
  PROVE  <<c>> \in Seq(Kind(C)) /\ Range(<<c>>) = {c} /\ (Good(C, <<c>>) <=> c.start < c.end)
<1>1. <<c>> \in Seq(Kind(C)) /\ Ordered(<<c>>)
  BY DEF Ordered
<1> QED  BY <1>1, RangeOne DEF Good, Filled

\* The empty list is good.
LEMMA GoodNone ==
  ASSUME NEW C
  PROVE  <<>> \in Seq(Kind(C)) /\ Range(<<>>) = {} /\ Good(C, <<>>)
<1>1. <<>> \in Seq(Kind(C)) /\ Ordered(<<>>)
  BY DEF Ordered
<1> QED  BY <1>1, RangeNone DEF Good, Filled

\* The points of two sets of spans, and of a set with one more span.
LEMMA AreaUnion ==
  ASSUME NEW m, NEW A, NEW B
  PROVE  Area(m, A \cup B) = Area(m, A) \cup Area(m, B)
BY DEF Area

LEMMA AreaMore ==
  ASSUME NEW m, NEW A, NEW c, NEW B, B = A \cup {c}
  PROVE  \A p : p \in Area(m, B) <=> p \in Area(m, A) \/ p \in Block(m, c)
BY DEF Area

\* A span at the end of a list.
LEMMA OneMore ==
  ASSUME NEW C, NEW m, NEW l \in Seq(Kind(C)), NEW c \in Kind(C)
  PROVE  /\ l \o <<c>> \in Seq(Kind(C)) /\ \A x : x \in Range(l \o <<c>>) <=> x \in Range(l) \/ x = c
         /\ Good(C, l \o <<c>>) <=> Good(C, l) /\ c.start < c.end /\ Ahead(Range(l), {c})
         /\ \A p : p \in Area(m, Range(l \o <<c>>)) <=> p \in Area(m, Range(l)) \/ p \in Block(m, c)
<1> DEFINE one == <<c>>
<1>1. one \in Seq(Kind(C)) /\ Range(one) = {c} /\ (Good(C, one) <=> c.start < c.end)
  BY GoodOne
<1> HIDE DEF one
<1>2. l \o one \in Seq(Kind(C)) /\ Range(l \o one) = Range(l) \cup {c}
  <2>1. l \o one \in Seq(Kind(C)) /\ Range(l \o one) = Range(l) \cup Range(one)
    BY <1>1, GoodConcat
  <2> QED  BY <1>1, <2>1
<1>3. Good(C, l \o one) <=> Good(C, l) /\ c.start < c.end /\ Ahead(Range(l), {c})
  <2>1. Good(C, l \o one) <=> Good(C, l) /\ Good(C, one) /\ Ahead(Range(l), Range(one))
    BY <1>1, GoodConcat
  <2> QED  BY <1>1, <2>1
<1>4. \A p : p \in Area(m, Range(l \o one)) <=> p \in Area(m, Range(l)) \/ p \in Block(m, c)
  BY <1>2, AreaMore
<1>5. \A x : x \in Range(l \o one) <=> x \in Range(l) \/ x = c
  BY <1>2
<1> QED  BY <1>2, <1>3, <1>4, <1>5 DEF one

\* A span in front of a list.
LEMMA OneBefore ==
  ASSUME NEW C, NEW m, NEW l \in Seq(Kind(C)), NEW c \in Kind(C)
  PROVE  /\ <<c>> \o l \in Seq(Kind(C)) /\ \A x : x \in Range(<<c>> \o l) <=> x \in Range(l) \/ x = c
         /\ Good(C, <<c>> \o l) <=> Good(C, l) /\ c.start < c.end /\ Ahead({c}, Range(l))
         /\ \A p : p \in Area(m, Range(<<c>> \o l)) <=> p \in Area(m, Range(l)) \/ p \in Block(m, c)
<1> DEFINE one == <<c>>
<1>1. one \in Seq(Kind(C)) /\ Range(one) = {c} /\ (Good(C, one) <=> c.start < c.end)
  BY GoodOne
<1> HIDE DEF one
<1>2. one \o l \in Seq(Kind(C)) /\ Range(one \o l) = Range(l) \cup {c}
  <2>1. one \o l \in Seq(Kind(C)) /\ Range(one \o l) = Range(one) \cup Range(l)
    BY <1>1, GoodConcat
  <2> QED  BY <1>1, <2>1
<1>3. Good(C, one \o l) <=> Good(C, l) /\ c.start < c.end /\ Ahead({c}, Range(l))
  <2>1. Good(C, one \o l) <=> Good(C, one) /\ Good(C, l) /\ Ahead(Range(one), Range(l))
    BY <1>1, GoodConcat
  <2> QED  BY <1>1, <2>1
<1>4. \A p : p \in Area(m, Range(one \o l)) <=> p \in Area(m, Range(l)) \/ p \in Block(m, c)
  BY <1>2, AreaMore
<1>5. \A x : x \in Range(one \o l) <=> x \in Range(l) \/ x = c
  BY <1>2
<1> QED  BY <1>2, <1>3, <1>4, <1>5 DEF one

-----------------------------------------------------------------------------
(* Merging with the spans before and after.                                  *)

More(l)   == Len(l) > 1 /\ Mergeable(Last(Front(l)), Last(l))
Joined(l) == Append(Front(Front(l)), [Last(l) EXCEPT !.start = Last(Front(l)).start])

\* The lists of spans and of bands are two cases of lists whose content is of a kind.
LEMMA ListsOfKind ==
  /\ Lists = Seq(Kind(Seq(Spans))) /\ Seq(Spans) = Seq(Kind({NoSubspan}))
  /\ {NoSubspan} \subseteq Seq(Spans)
  /\ \A C : C \subseteq Seq(Spans) => Seq(Kind(C)) \subseteq Lists /\ Kind(C) \subseteq Bands
<1>1. Lists = Seq(Kind(Seq(Spans))) /\ Seq(Spans) = Seq(Kind({NoSubspan}))
  BY DEF Lists, Bands, Spans, Kind
<1>2. {NoSubspan} \subseteq Seq(Spans)
  BY EmptySeq DEF NoSubspan
<1>3. ASSUME NEW C, C \subseteq Seq(Spans) PROVE Seq(Kind(C)) \subseteq Lists /\ Kind(C) \subseteq Bands
  <2>1. Kind(C) \subseteq Bands
    BY <1>3 DEF Kind, Bands
  <2> QED  BY <2>1, SeqMonotonic DEF Lists
<1> QED  BY <1>1, <1>2, <1>3

\* The last two spans of a list, and the list with them joined.
Two(C, l, x, a, b, n) ==
  /\ x \in Seq(Kind(C)) /\ a \in Kind(C) /\ b \in Kind(C) /\ n \in Kind(C)
  /\ l = (x \o <<a>>) \o <<b>> /\ Front(l) = x \o <<a>> /\ Last(l) = b /\ Last(Front(l)) = a
  /\ n.start = a.start /\ n.end = b.end /\ n.subspan = b.subspan
  /\ Joined(l) = x \o <<n>>
  /\ Joined(l) \in Seq(Kind(C)) /\ Joined(l) # <<>> /\ Len(Joined(l)) = Len(l) - 1 /\ Len(l) \in Nat
  /\ Front(Joined(l)) = x /\ Last(Joined(l)) = n

\* A list of more than one span has two last ones.
LEMMA LastTwo ==
  ASSUME NEW C, NEW l \in Seq(Kind(C)), Len(l) > 1
  PROVE  \E x, a, b, n : Two(C, l, x, a, b, n)
<1>1. l # <<>>
  BY EmptySeq
<1>2. /\ Last(l) \in Kind(C) /\ Front(l) \in Seq(Kind(C)) /\ Len(Front(l)) = Len(l) - 1
      /\ l = Front(l) \o <<Last(l)>> /\ Len(l) \in Nat
  BY <1>1, AtEnd
<1>3. Front(l) # <<>>
  BY <1>2, EmptySeq
<1> DEFINE x == Front(Front(l))
           a == Last(Front(l))
           b == Last(l)
           n == [b EXCEPT !.start = a.start]
<1>4. /\ a \in Kind(C) /\ x \in Seq(Kind(C)) /\ Len(x) = Len(l) - 2 /\ Front(l) = x \o <<a>>
  <2>1. /\ a \in Kind(C) /\ x \in Seq(Kind(C)) /\ Len(x) = Len(Front(l)) - 1 /\ Front(l) = x \o <<a>>
    BY <1>2, <1>3, AtEnd
  <2> QED  BY <1>2, <2>1
<1>5. n \in Kind(C) /\ n.start = a.start /\ n.end = b.end /\ n.subspan = b.subspan
  BY <1>2, <1>4 DEF Kind
<1> HIDE DEF x, a, n
<1>6. /\ x \o <<n>> \in Seq(Kind(C)) /\ x \o <<n>> # <<>> /\ Len(x \o <<n>>) = Len(x) + 1
      /\ Front(x \o <<n>>) = x /\ Last(x \o <<n>>) = n /\ Append(x, n) = x \o <<n>>
  BY <1>4, <1>5, EndOf
<1>7. Joined(l) = Append(x, n)
  BY DEF Joined, x, n, a
<1>8. Len(x) + 1 = Len(l) - 1
  <2>1. Len(x) = Len(l) - 2 /\ Len(l) \in Nat
    BY <1>2, <1>4
  <2> QED  BY <2>1
<1> QED  BY <1>2, <1>4, <1>5, <1>6, <1>7, <1>8 DEF a, Two

\* MergePrevious is a loop that joins the last two spans.
LEMMA MergePreviousLoop ==
  Loops(MergePrevious, Lists, {k \in Lists : ~More(k)}, [k \in Lists |-> k], [k \in Lists |-> Joined(k)])
<1> DEFINE stop == {k \in Lists : ~More(k)}
           res  == [k \in Lists |-> k]
           next == [k \in Lists |-> Joined(k)]
           Eq(f) == Loops(f, Lists, stop, res, next)
           Is(f) == f = [l \in Lists |->
                      IF Len(l) > 1 /\ Mergeable(Last(Front(l)), Last(l))
                        THEN f[Append(Front(Front(l)), [Last(l) EXCEPT !.start = Last(Front(l)).start])]
                        ELSE l]
<1>1. \A l \in Lists : l \notin stop => next[l] \in Lists
  <2>1. ASSUME NEW l \in Lists, l \notin stop PROVE Joined(l) \in Lists
    <3>1. Len(l) > 1 /\ l \in Seq(Kind(Seq(Spans)))
      BY <2>1, ListsOfKind DEF More
    <3>2. Joined(l) \in Seq(Kind(Seq(Spans)))
      BY <3>1, LastTwo DEF Two
    <3> QED  BY <3>2, ListsOfKind
  <2> QED  BY <2>1
<1>2. ASSUME NEW f PROVE Eq(f) <=> Is(f)
  <2>1. ASSUME NEW l \in Lists
        PROVE  (IF l \in stop THEN res[l] ELSE f[next[l]]) =
               (IF Len(l) > 1 /\ Mergeable(Last(Front(l)), Last(l))
                  THEN f[Append(Front(Front(l)), [Last(l) EXCEPT !.start = Last(Front(l)).start])]
                  ELSE l)
    BY DEF More, Joined
  <2> QED  BY <2>1 DEF Loops
<1>3. \E f : Eq(f)
  <2> HIDE DEF stop, res, next
  <2> QED  BY <1>1, LoopExists
<1>4. \E f : Is(f)
  <2> HIDE DEF Is, Eq
  <2> QED  BY <1>2, <1>3
<1>5. MergePrevious = CHOOSE f : Is(f)
  BY DEF MergePrevious
<1>6. Is(MergePrevious)
  <2> HIDE DEF Is
  <2> QED  BY <1>4, <1>5
<1>7. Eq(MergePrevious)
  <2> HIDE DEF Is, Eq
  <2> QED  BY <1>2, <1>6
<1> QED  BY <1>7

\* Of spans in order, joining makes spans in order that stand for the same.
LEMMA JoinedGood ==
  ASSUME NEW C, NEW m, NEW l, Good(C, l), More(l)
  PROVE  LET r == Joined(l)
         IN  /\ Good(C, r) /\ r # <<>> /\ Last(r).end = Last(l).end /\ Last(r).subspan = Last(l).subspan
             /\ Last(r).start <= Last(l).start /\ Range(Front(r)) \subseteq Range(Front(l))
             /\ Area(m, Range(r)) = Area(m, Range(l)) /\ Len(r) = Len(l) - 1 /\ Len(l) \in Nat
<1>1. l \in Seq(Kind(C)) /\ Len(l) > 1
  BY DEF Good, More
<1>2. PICK x, a, b, n : Two(C, l, x, a, b, n)
  BY <1>1, LastTwo, Zenon
<1>3. /\ n.start = a.start /\ n.end = b.end /\ n.subspan = b.subspan /\ a.end = b.start /\ a.subspan = b.subspan
      /\ a.start \in Int /\ a.end \in Int /\ b.start \in Int /\ b.end \in Int
  BY <1>2 DEF More, Mergeable, Kind, Two
<1>4. /\ x \in Seq(Kind(C)) /\ a \in Kind(C) /\ b \in Kind(C) /\ n \in Kind(C)
      /\ l = (x \o <<a>>) \o <<b>> /\ Front(l) = x \o <<a>> /\ Last(l) = b
      /\ Joined(l) = x \o <<n>> /\ Joined(l) # <<>> /\ Last(Joined(l)) = n /\ Front(Joined(l)) = x
      /\ Len(Joined(l)) = Len(l) - 1 /\ Len(l) \in Nat
  BY <1>2 DEF Two
<1> DEFINE y == x \o <<a>>  z == y \o <<b>>  w == x \o <<n>>
<1>5. /\ y \in Seq(Kind(C)) /\ (\A e : e \in Range(y) <=> e \in Range(x) \/ e = a)
      /\ Good(C, y) <=> Good(C, x) /\ a.start < a.end /\ Ahead(Range(x), {a})
      /\ \A p : p \in Area(m, Range(y)) <=> p \in Area(m, Range(x)) \/ p \in Block(m, a)
  BY <1>4, OneMore, Zenon
<1> HIDE DEF y
<1>6. /\ Good(C, z) <=> Good(C, y) /\ b.start < b.end /\ Ahead(Range(y), {b})
      /\ \A p : p \in Area(m, Range(z)) <=> p \in Area(m, Range(y)) \/ p \in Block(m, b)
  BY <1>4, <1>5, OneMore, Zenon
<1>7. l = z /\ Front(l) = y /\ Last(l) = b /\ Joined(l) = w /\ Front(Joined(l)) = x
  BY <1>4 DEF y
<1> HIDE DEF z
<1>8. Good(C, x) /\ a.start < a.end /\ b.start < b.end /\ Ahead(Range(x), {a})
  BY <1>5, <1>6, <1>7
<1>9. n.start < n.end /\ Ahead(Range(x), {n})
  BY <1>3, <1>8 DEF Ahead
<1>10. /\ Good(C, w)
       /\ \A p : p \in Area(m, Range(w)) <=> p \in Area(m, Range(x)) \/ p \in Block(m, n)
  BY <1>4, <1>8, <1>9, OneMore, Zenon
<1> HIDE DEF w
<1>11. \A p : p \in Block(m, n) <=> p \in Block(m, a) \/ p \in Block(m, b)
  BY <1>3, <1>8 DEF Block
<1>12. \A p : p \in Area(m, Range(w)) <=> p \in Area(m, Range(z))
  BY <1>5, <1>6, <1>10, <1>11
<1>13. Area(m, Range(Joined(l))) = Area(m, Range(l))
  BY <1>7, <1>12
<1>14. Last(Joined(l)).start <= Last(l).start /\ Range(Front(Joined(l))) \subseteq Range(Front(l))
  <2>1. n.start <= b.start /\ Range(x) \subseteq Range(y)
    BY <1>3, <1>5, <1>8
  <2> QED  BY <1>4, <1>7, <2>1
<1> QED  BY <1>3, <1>4, <1>7, <1>10, <1>13, <1>14

\* Merging leaves spans of the same kind, the end and the contents of the last
\* one; of spans in order it makes spans in order that stand for the same.
KeepsLast(C, l, k) ==
  k \in Seq(Kind(C)) /\ k # <<>> /\ Last(k).end = Last(l).end /\ Last(k).subspan = Last(l).subspan
SameUpToLast(C, m, l, k) ==
  /\ Good(C, k) /\ Last(k).start <= Last(l).start /\ Range(Front(k)) \subseteq Range(Front(l))
  /\ Area(m, Range(k)) = Area(m, Range(l))

\* Joining the last two keeps what merging keeps, and shortens the list.
LEMMA MergePreviousStep ==
  ASSUME NEW C, NEW m, NEW l \in Seq(Kind(C)), l # <<>>, NEW k, More(k), KeepsLast(C, l, k),
         Good(C, l) => SameUpToLast(C, m, l, k)
  PROVE  /\ KeepsLast(C, l, Joined(k)) /\ (Good(C, l) => SameUpToLast(C, m, l, Joined(k)))
         /\ Len(Joined(k)) \in Nat /\ Len(Joined(k)) < Len(k)
<1>1. k \in Seq(Kind(C)) /\ Len(k) > 1
  BY DEF KeepsLast, More
<1>2. PICK x, a, b, n : Two(C, k, x, a, b, n)
  BY <1>1, LastTwo, Zenon
<1>3. KeepsLast(C, l, Joined(k))
  BY <1>2 DEF KeepsLast, Two
<1>4. Len(Joined(k)) \in Nat /\ Len(Joined(k)) < Len(k)
  <2>1. Len(Joined(k)) = Len(k) - 1 /\ Len(k) \in Nat
    BY <1>2 DEF Two
  <2> QED  BY <1>1, <2>1
<1>5. ASSUME Good(C, l) PROVE SameUpToLast(C, m, l, Joined(k))
  <2>1. Good(C, k) /\ Last(k).start <= Last(l).start /\ Range(Front(k)) \subseteq Range(Front(l))
        /\ Area(m, Range(k)) = Area(m, Range(l))
    BY <1>5 DEF SameUpToLast
  <2>2. LET r == Joined(k)
        IN  /\ Good(C, r) /\ Last(r).start <= Last(k).start /\ Range(Front(r)) \subseteq Range(Front(k))
            /\ Area(m, Range(r)) = Area(m, Range(k))
    BY <2>1, JoinedGood, Zenon
  <2>3. Last(k).start \in Int /\ Last(Joined(k)).start \in Int /\ Last(l).start \in Int
    <3>1. \A x1 \in Kind(C) : x1.start \in Int
      BY DEF Kind
    <3>2. Last(k) = b /\ b \in Kind(C) /\ Last(Joined(k)) = n /\ n \in Kind(C)
      BY <1>2 DEF Two
    <3>3. Last(l) \in Kind(C)
      BY AtEnd, Zenon
    <3> QED  BY <3>1, <3>2, <3>3
  <2>4. Last(Joined(k)).start <= Last(l).start
    BY <2>1, <2>2, <2>3
  <2> QED  BY <2>1, <2>2, <2>4 DEF SameUpToLast
<1> QED  BY <1>3, <1>4, <1>5

\* Hence merging keeps it, as often as it joins.
LEMMA MergePreviousKeeps ==
  ASSUME NEW C, C \subseteq Seq(Spans), NEW m, NEW l \in Seq(Kind(C)), l # <<>>
  PROVE  /\ KeepsLast(C, l, MergePrevious[l])
         /\ Good(C, l) => SameUpToLast(C, m, l, MergePrevious[l])
<1> DEFINE J == {k \in Seq(Kind(C)) : KeepsLast(C, l, k) /\ (Good(C, l) => SameUpToLast(C, m, l, k))}
           stop == {k \in Lists : ~More(k)}
           res  == [k \in Lists |-> k]
           next == [k \in Lists |-> Joined(k)]
           rank == [k \in J |-> Len(k)]
<1>1. J \in SUBSET Lists
  BY ListsOfKind
<1>2. rank \in [J -> Nat]
  <2>1. \A k \in J : Len(k) \in Nat
    BY LenProperties
  <2> HIDE DEF J
  <2> QED  BY <2>1
<1>3. ASSUME NEW k \in J, k \notin stop PROVE next[k] \in J /\ rank[next[k]] < rank[k]
  <2>1. More(k) /\ k \in Lists
    BY <1>1, <1>3
  <2>2. KeepsLast(C, l, k) /\ (Good(C, l) => SameUpToLast(C, m, l, k))
    OBVIOUS
  <2>3. /\ KeepsLast(C, l, Joined(k)) /\ (Good(C, l) => SameUpToLast(C, m, l, Joined(k)))
        /\ Len(Joined(k)) \in Nat /\ Len(Joined(k)) < Len(k)
    <3> HIDE DEF J, rank, next, stop, res
    <3> QED  BY <2>1, <2>2, MergePreviousStep
  <2>4. Joined(k) \in J
    BY <2>3 DEF KeepsLast
  <2>5. next[k] = Joined(k) /\ rank[Joined(k)] = Len(Joined(k)) /\ rank[k] = Len(k)
    BY <2>1, <2>4
  <2> HIDE DEF J, rank, next
  <2> QED  BY <2>3, <2>4, <2>5
<1>4. ASSUME NEW k \in J, k \in stop PROVE res[k] \in J
  BY <1>1
<1>5. Loops(MergePrevious, Lists, stop, res, next)
  BY MergePreviousLoop
<1>6. \A k \in J : MergePrevious[k] \in J
  <2> HIDE DEF J, stop, res, next, rank
  <2>1. \A k \in J : k \notin stop => next[k] \in J /\ rank[next[k]] < rank[k]
    BY <1>3
  <2>2. \A k \in J : k \in stop => res[k] \in J
    BY <1>4
  <2>3. Turns(Lists, stop, next, J, rank)
    BY <1>1, <1>2, <2>1 DEF Turns
  <2>4. Ends(stop, res, J, J)
    BY <2>2 DEF Ends
  <2> QED  BY <1>5, <2>3, <2>4, LoopResult, Zenon
<1>7. l \in J
  <2>1. Last(l) \in Kind(C)
    BY AtEnd, Zenon
  <2>2. Last(l).start <= Last(l).start
    BY <2>1 DEF Kind
  <2> QED  BY <2>2 DEF KeepsLast, SameUpToLast
<1>8. MergePrevious[l] \in J
  <2> HIDE DEF J
  <2> QED  BY <1>6, <1>7
<1> QED  BY <1>8

\* The same, for span c that comes after the spans of list d.
BehindKinds(C, c, r) ==
  /\ Front(r) \in Seq(Kind(C)) /\ Last(r) \in Kind(C) /\ r \in Seq(Kind(C)) /\ r # <<>>
  /\ Last(r).end = c.end /\ Last(r).subspan = c.subspan
BehindParts(C, m, d, c, r) ==
  /\ Good(C, Front(r)) /\ Last(r).start < Last(r).end /\ Last(r).start <= c.start
  /\ Ahead(Range(Front(r)), {Last(r)}) /\ Range(Front(r)) \subseteq Range(d)
  /\ \A p : p \in Area(m, Range(Front(r))) \/ p \in Block(m, Last(r))
            <=> p \in Area(m, Range(d)) \/ p \in Block(m, c)

\* Merging behind keeps the kinds, of any list.
LEMMA MergeBehindTyped ==
  ASSUME NEW C, C \subseteq Seq(Spans), NEW d \in Seq(Kind(C)), NEW c \in Kind(C),
         NEW r, r = MergePrevious[d \o <<c>>]
  PROVE  BehindKinds(C, c, r)
<1> DEFINE l == d \o <<c>>
<1>1. l \in Seq(Kind(C)) /\ l # <<>> /\ Last(l) = c
  BY EndOf, ZenonT(60)
<1>2. r = MergePrevious[l]
  OBVIOUS
<1> HIDE DEF l
<1>3. KeepsLast(C, l, r)
  BY <1>1, <1>2, MergePreviousKeeps, Zenon
<1>4. r \in Seq(Kind(C)) /\ r # <<>> /\ Last(r).end = c.end /\ Last(r).subspan = c.subspan
  BY <1>1, <1>3 DEF KeepsLast
<1>5. Front(r) \in Seq(Kind(C)) /\ Last(r) \in Kind(C)
  BY <1>4, AtEnd, Zenon
<1> QED  BY <1>4, <1>5 DEF BehindKinds

\* Merging behind a good list keeps the order and the points.
LEMMA MergeBehindGood ==
  ASSUME NEW C, C \subseteq Seq(Spans), NEW m, NEW d \in Seq(Kind(C)), NEW c \in Kind(C),
         NEW r, r = MergePrevious[d \o <<c>>],
         Good(C, d), c.start < c.end, Ahead(Range(d), {c})
  PROVE  BehindParts(C, m, d, c, r)
<1> DEFINE l == d \o <<c>>  f == Front(r)  z == Last(r)
<1>1. l \in Seq(Kind(C)) /\ l # <<>> /\ Front(l) = d /\ Last(l) = c
  BY EndOf, ZenonT(60)
<1>2. Good(C, l) /\ \A p : p \in Area(m, Range(l)) <=> p \in Area(m, Range(d)) \/ p \in Block(m, c)
  <2>1. /\ Good(C, l) <=> Good(C, d) /\ c.start < c.end /\ Ahead(Range(d), {c})
        /\ \A p : p \in Area(m, Range(l)) <=> p \in Area(m, Range(d)) \/ p \in Block(m, c)
    BY OneMore, Zenon
  <2> QED  BY <2>1
<1>3. r = MergePrevious[l]
  OBVIOUS
<1> HIDE DEF l
<1>4. SameUpToLast(C, m, l, r)
  BY <1>1, <1>2, <1>3, MergePreviousKeeps, Zenon
<1>5. /\ Good(C, r) /\ z.start <= c.start /\ Range(f) \subseteq Range(d)
      /\ Area(m, Range(r)) = Area(m, Range(l))
  BY <1>1, <1>4 DEF SameUpToLast
<1>6. f \in Seq(Kind(C)) /\ z \in Kind(C) /\ r = f \o <<z>>
  <2>1. r \in Seq(Kind(C)) /\ r # <<>>
    <3>1. BehindKinds(C, c, r)
      BY MergeBehindTyped
    <3> QED  BY <3>1 DEF BehindKinds
  <2> QED  BY <2>1, AtEnd, Zenon
<1> HIDE DEF f, z
<1>7. /\ Good(C, f \o <<z>>) <=> Good(C, f) /\ z.start < z.end /\ Ahead(Range(f), {z})
      /\ \A p : p \in Area(m, Range(f \o <<z>>)) <=> p \in Area(m, Range(f)) \/ p \in Block(m, z)
  BY <1>6, OneMore, Zenon
<1>8. /\ Good(C, f) /\ z.start < z.end /\ Ahead(Range(f), {z})
      /\ \A p : p \in Area(m, Range(f)) \/ p \in Block(m, z)
                <=> p \in Area(m, Range(d)) \/ p \in Block(m, c)
  BY <1>2, <1>5, <1>6, <1>7
<1> QED  BY <1>5, <1>8 DEF f, z, BehindParts

\* The same with the spans after one.
MoreAfter(l)  == Len(l) > 1 /\ Mergeable(Head(l), Head(Tail(l)))
JoinedNext(l) == <<[Head(l) EXCEPT !.end = Head(Tail(l)).end]>> \o Tail(Tail(l))

\* The first two spans of a list, and the list with them joined.
TwoAhead(C, l, a, b, x, n) ==
  /\ x \in Seq(Kind(C)) /\ a \in Kind(C) /\ b \in Kind(C) /\ n \in Kind(C)
  /\ l = <<a>> \o (<<b>> \o x) /\ Head(l) = a /\ Tail(l) = <<b>> \o x /\ Head(Tail(l)) = b
  /\ n.start = a.start /\ n.end = b.end /\ n.subspan = a.subspan
  /\ JoinedNext(l) = <<n>> \o x
  /\ JoinedNext(l) \in Seq(Kind(C)) /\ JoinedNext(l) # <<>> /\ Len(JoinedNext(l)) = Len(l) - 1 /\ Len(l) \in Nat
  /\ Head(JoinedNext(l)) = n /\ Tail(JoinedNext(l)) = x

\* A list of more than one span has two first ones.
LEMMA FirstTwo ==
  ASSUME NEW C, NEW l \in Seq(Kind(C)), Len(l) > 1
  PROVE  \E a, b, x, n : TwoAhead(C, l, a, b, x, n)
<1>1. l # <<>>
  BY EmptySeq
<1>2. /\ Head(l) \in Kind(C) /\ Tail(l) \in Seq(Kind(C)) /\ Len(Tail(l)) = Len(l) - 1
      /\ l = <<Head(l)>> \o Tail(l) /\ Len(l) \in Nat
  BY <1>1, AtFront
<1>3. Tail(l) # <<>>
  BY <1>2, EmptySeq
<1> DEFINE x == Tail(Tail(l))
           a == Head(l)
           b == Head(Tail(l))
           n == [a EXCEPT !.end = b.end]
<1>4. b \in Kind(C) /\ x \in Seq(Kind(C)) /\ Len(x) = Len(l) - 2 /\ Tail(l) = <<b>> \o x
  <2>1. /\ b \in Kind(C) /\ x \in Seq(Kind(C)) /\ Len(x) = Len(Tail(l)) - 1 /\ Tail(l) = <<b>> \o x
    BY <1>2, <1>3, AtFront
  <2> QED  BY <1>2, <2>1
<1>5. n \in Kind(C) /\ n.start = a.start /\ n.end = b.end /\ n.subspan = a.subspan
  BY <1>2, <1>4 DEF Kind
<1> HIDE DEF x, b, n
<1>6. /\ <<n>> \o x \in Seq(Kind(C)) /\ <<n>> \o x # <<>> /\ Len(<<n>> \o x) = Len(x) + 1
      /\ Head(<<n>> \o x) = n /\ Tail(<<n>> \o x) = x
  BY <1>4, <1>5, FrontOf
<1>7. JoinedNext(l) = <<n>> \o x
  BY DEF JoinedNext, x, n, b
<1>8. Len(x) + 1 = Len(l) - 1
  <2>1. Len(x) = Len(l) - 2 /\ Len(l) \in Nat
    BY <1>2, <1>4
  <2> QED  BY <2>1
<1> QED  BY <1>2, <1>4, <1>5, <1>6, <1>7, <1>8 DEF b, TwoAhead

\* MergeNext is a loop that joins the first two spans.
LEMMA MergeNextLoop ==
  Loops(MergeNext, Lists, {k \in Lists : ~MoreAfter(k)}, [k \in Lists |-> k], [k \in Lists |-> JoinedNext(k)])
<1> DEFINE stop == {k \in Lists : ~MoreAfter(k)}
           res  == [k \in Lists |-> k]
           next == [k \in Lists |-> JoinedNext(k)]
           Eq(f) == Loops(f, Lists, stop, res, next)
           Is(f) == f = [l \in Lists |->
                      IF Len(l) > 1 /\ Mergeable(Head(l), Head(Tail(l)))
                        THEN f[<<[Head(l) EXCEPT !.end = Head(Tail(l)).end]>> \o Tail(Tail(l))]
                        ELSE l]
<1>1. \A l \in Lists : l \notin stop => next[l] \in Lists
  <2>1. ASSUME NEW l \in Lists, l \notin stop PROVE JoinedNext(l) \in Lists
    <3>1. Len(l) > 1 /\ l \in Seq(Kind(Seq(Spans)))
      BY <2>1, ListsOfKind DEF MoreAfter
    <3>2. JoinedNext(l) \in Seq(Kind(Seq(Spans)))
      BY <3>1, FirstTwo DEF TwoAhead
    <3> QED  BY <3>2, ListsOfKind
  <2> QED  BY <2>1
<1>2. ASSUME NEW f PROVE Eq(f) <=> Is(f)
  <2>1. ASSUME NEW l \in Lists
        PROVE  (IF l \in stop THEN res[l] ELSE f[next[l]]) =
               (IF Len(l) > 1 /\ Mergeable(Head(l), Head(Tail(l)))
                  THEN f[<<[Head(l) EXCEPT !.end = Head(Tail(l)).end]>> \o Tail(Tail(l))]
                  ELSE l)
    BY DEF MoreAfter, JoinedNext
  <2> QED  BY <2>1 DEF Loops
<1>3. \E f : Eq(f)
  <2> HIDE DEF stop, res, next
  <2> QED  BY <1>1, LoopExists
<1>4. \E f : Is(f)
  <2> HIDE DEF Is, Eq
  <2> QED  BY <1>2, <1>3
<1>5. MergeNext = CHOOSE f : Is(f)
  BY DEF MergeNext
<1>6. Is(MergeNext)
  <2> HIDE DEF Is
  <2> QED  BY <1>4, <1>5
<1>7. Eq(MergeNext)
  <2> HIDE DEF Is, Eq
  <2> QED  BY <1>2, <1>6
<1> QED  BY <1>7

\* Joining the first two of a good list gives a good list with the same points.
LEMMA JoinedNextGood ==
  ASSUME NEW C, NEW m, NEW l, Good(C, l), MoreAfter(l)
  PROVE  LET r == JoinedNext(l)
         IN  /\ Good(C, r) /\ Head(l).end <= Head(r).end /\ Range(Tail(r)) \subseteq Range(Tail(l))
             /\ Area(m, Range(r)) = Area(m, Range(l))
<1>1. l \in Seq(Kind(C)) /\ Len(l) > 1
  BY DEF Good, MoreAfter
<1>2. PICK a, b, x, n : TwoAhead(C, l, a, b, x, n)
  BY <1>1, FirstTwo, Zenon
<1>3. /\ n.start = a.start /\ n.end = b.end /\ n.subspan = b.subspan /\ a.end = b.start /\ a.subspan = b.subspan
      /\ a.start \in Int /\ a.end \in Int /\ b.start \in Int /\ b.end \in Int
  BY <1>2 DEF MoreAfter, Mergeable, Kind, TwoAhead
<1>4. /\ x \in Seq(Kind(C)) /\ a \in Kind(C) /\ b \in Kind(C) /\ n \in Kind(C)
      /\ l = <<a>> \o (<<b>> \o x) /\ Tail(l) = <<b>> \o x /\ Head(l) = a
      /\ JoinedNext(l) = <<n>> \o x /\ Head(JoinedNext(l)) = n /\ Tail(JoinedNext(l)) = x
  BY <1>2 DEF TwoAhead
<1> DEFINE y == <<b>> \o x  z == <<a>> \o y  w == <<n>> \o x
<1>5. /\ y \in Seq(Kind(C)) /\ (\A e : e \in Range(y) <=> e \in Range(x) \/ e = b)
      /\ Good(C, y) <=> Good(C, x) /\ b.start < b.end /\ Ahead({b}, Range(x))
      /\ \A p : p \in Area(m, Range(y)) <=> p \in Area(m, Range(x)) \/ p \in Block(m, b)
  BY <1>4, OneBefore, Zenon
<1> HIDE DEF y
<1>6. /\ Good(C, z) <=> Good(C, y) /\ a.start < a.end /\ Ahead({a}, Range(y))
      /\ \A p : p \in Area(m, Range(z)) <=> p \in Area(m, Range(y)) \/ p \in Block(m, a)
  BY <1>4, <1>5, OneBefore, Zenon
<1>7. l = z /\ Tail(l) = y /\ Head(l) = a /\ JoinedNext(l) = w /\ Tail(JoinedNext(l)) = x
  BY <1>4 DEF y
<1> HIDE DEF z
<1>8. Good(C, x) /\ a.start < a.end /\ b.start < b.end /\ Ahead({b}, Range(x))
  BY <1>5, <1>6, <1>7
<1>9. n.start < n.end /\ Ahead({n}, Range(x))
  BY <1>3, <1>8 DEF Ahead
<1>10. /\ Good(C, w)
       /\ \A p : p \in Area(m, Range(w)) <=> p \in Area(m, Range(x)) \/ p \in Block(m, n)
  BY <1>4, <1>8, <1>9, OneBefore, Zenon
<1> HIDE DEF w
<1>11. \A p : p \in Block(m, n) <=> p \in Block(m, a) \/ p \in Block(m, b)
  BY <1>3, <1>8 DEF Block
<1>12. \A p : p \in Area(m, Range(w)) <=> p \in Area(m, Range(z))
  BY <1>5, <1>6, <1>10, <1>11
<1>13. Area(m, Range(JoinedNext(l))) = Area(m, Range(l))
  BY <1>7, <1>12
<1>14. Head(l).end <= Head(JoinedNext(l)).end /\ Range(Tail(JoinedNext(l))) \subseteq Range(Tail(l))
  <2>1. a.end <= n.end /\ Range(x) \subseteq Range(y)
    BY <1>3, <1>5, <1>8
  <2> QED  BY <1>4, <1>7, <2>1
<1> QED  BY <1>3, <1>4, <1>7, <1>10, <1>13, <1>14

\* Merging leaves spans of the same kind, the start and the contents of the first
\* one; of spans in order it makes spans in order that stand for the same.
KeepsHead(C, l, k) ==
  /\ k \in Seq(Kind(C)) /\ k # <<>> /\ Head(k).start = Head(l).start /\ Head(k).subspan = Head(l).subspan
  /\ k = l \/ Len(k) < Len(l)
SameFromHead(C, m, l, k) ==
  /\ Good(C, k) /\ Head(l).end <= Head(k).end /\ Range(Tail(k)) \subseteq Range(Tail(l))
  /\ Area(m, Range(k)) = Area(m, Range(l))

\* Joining the first two keeps what merging keeps, and shortens the list.
LEMMA MergeNextStep ==
  ASSUME NEW C, NEW m, NEW l \in Seq(Kind(C)), l # <<>>, NEW k, MoreAfter(k), KeepsHead(C, l, k),
         Good(C, l) => SameFromHead(C, m, l, k)
  PROVE  /\ KeepsHead(C, l, JoinedNext(k)) /\ (Good(C, l) => SameFromHead(C, m, l, JoinedNext(k)))
         /\ Len(JoinedNext(k)) \in Nat /\ Len(JoinedNext(k)) < Len(k)
<1>1. k \in Seq(Kind(C)) /\ Len(k) > 1
  BY DEF KeepsHead, MoreAfter
<1>2. PICK a, b, x, n : TwoAhead(C, k, a, b, x, n)
  BY <1>1, FirstTwo, Zenon
<1>3. Len(JoinedNext(k)) \in Nat /\ Len(JoinedNext(k)) < Len(k)
  <2>1. Len(JoinedNext(k)) = Len(k) - 1 /\ Len(k) \in Nat
    BY <1>2 DEF TwoAhead
  <2> QED  BY <1>1, <2>1
<1>4. KeepsHead(C, l, JoinedNext(k))
  <2>1. Len(JoinedNext(k)) < Len(l)
    <3>1. k = l \/ Len(k) < Len(l)
      BY DEF KeepsHead
    <3>2. Len(k) \in Nat /\ Len(l) \in Nat
      BY <1>1, LenProperties
    <3> QED  BY <1>3, <3>1, <3>2
  <2> QED  BY <1>2, <2>1 DEF KeepsHead, TwoAhead
<1>5. ASSUME Good(C, l) PROVE SameFromHead(C, m, l, JoinedNext(k))
  <2>1. Good(C, k) /\ Head(l).end <= Head(k).end /\ Range(Tail(k)) \subseteq Range(Tail(l))
        /\ Area(m, Range(k)) = Area(m, Range(l))
    BY <1>5 DEF SameFromHead
  <2>2. LET r == JoinedNext(k)
        IN  /\ Good(C, r) /\ Head(k).end <= Head(r).end /\ Range(Tail(r)) \subseteq Range(Tail(k))
            /\ Area(m, Range(r)) = Area(m, Range(k))
    BY <2>1, JoinedNextGood, Zenon
  <2>3. Head(k).end \in Int /\ Head(JoinedNext(k)).end \in Int /\ Head(l).end \in Int
    <3>1. \A x1 \in Kind(C) : x1.end \in Int
      BY DEF Kind
    <3>2. Head(k) = a /\ a \in Kind(C) /\ Head(JoinedNext(k)) = n /\ n \in Kind(C)
      BY <1>2 DEF TwoAhead
    <3>3. Head(l) \in Kind(C)
      BY AtFront, Zenon
    <3> QED  BY <3>1, <3>2, <3>3
  <2>4. Head(l).end <= Head(JoinedNext(k)).end
    BY <2>1, <2>2, <2>3
  <2> QED  BY <2>1, <2>2, <2>4 DEF SameFromHead
<1> QED  BY <1>3, <1>4, <1>5

\* Hence merging keeps it, as often as it joins.
LEMMA MergeNextKeeps ==
  ASSUME NEW C, C \subseteq Seq(Spans), NEW m, NEW l \in Seq(Kind(C)), l # <<>>
  PROVE  /\ KeepsHead(C, l, MergeNext[l])
         /\ Good(C, l) => SameFromHead(C, m, l, MergeNext[l])
<1> DEFINE J == {k \in Seq(Kind(C)) : KeepsHead(C, l, k) /\ (Good(C, l) => SameFromHead(C, m, l, k))}
           stop == {k \in Lists : ~MoreAfter(k)}
           res  == [k \in Lists |-> k]
           next == [k \in Lists |-> JoinedNext(k)]
           rank == [k \in J |-> Len(k)]
<1>1. J \in SUBSET Lists
  BY ListsOfKind
<1>2. rank \in [J -> Nat]
  <2>1. \A k \in J : Len(k) \in Nat
    BY LenProperties
  <2> HIDE DEF J
  <2> QED  BY <2>1
<1>3. ASSUME NEW k \in J, k \notin stop PROVE next[k] \in J /\ rank[next[k]] < rank[k]
  <2>1. MoreAfter(k) /\ k \in Lists
    BY <1>1, <1>3
  <2>2. KeepsHead(C, l, k) /\ (Good(C, l) => SameFromHead(C, m, l, k))
    OBVIOUS
  <2>3. /\ KeepsHead(C, l, JoinedNext(k)) /\ (Good(C, l) => SameFromHead(C, m, l, JoinedNext(k)))
        /\ Len(JoinedNext(k)) \in Nat /\ Len(JoinedNext(k)) < Len(k)
    <3> HIDE DEF J, rank, next, stop, res
    <3> QED  BY <2>1, <2>2, MergeNextStep
  <2>4. JoinedNext(k) \in J
    BY <2>3 DEF KeepsHead
  <2>5. next[k] = JoinedNext(k) /\ rank[JoinedNext(k)] = Len(JoinedNext(k)) /\ rank[k] = Len(k)
    BY <2>1, <2>4
  <2> HIDE DEF J, rank, next
  <2> QED  BY <2>3, <2>4, <2>5
<1>4. ASSUME NEW k \in J, k \in stop PROVE res[k] \in J
  BY <1>1
<1>5. Loops(MergeNext, Lists, stop, res, next)
  BY MergeNextLoop
<1>6. \A k \in J : MergeNext[k] \in J
  <2> HIDE DEF J, stop, res, next, rank
  <2>1. \A k \in J : k \notin stop => next[k] \in J /\ rank[next[k]] < rank[k]
    BY <1>3
  <2>2. \A k \in J : k \in stop => res[k] \in J
    BY <1>4
  <2>3. Turns(Lists, stop, next, J, rank)
    BY <1>1, <1>2, <2>1 DEF Turns
  <2>4. Ends(stop, res, J, J)
    BY <2>2 DEF Ends
  <2> QED  BY <1>5, <2>3, <2>4, LoopResult, Zenon
<1>7. l \in J
  <2>1. Head(l) \in Kind(C)
    BY AtFront, Zenon
  <2>2. Head(l).end <= Head(l).end
    BY <2>1 DEF Kind
  <2> QED  BY <2>2 DEF KeepsHead, SameFromHead
<1>8. MergeNext[l] \in J
  <2> HIDE DEF J
  <2> QED  BY <1>6, <1>7
<1> QED  BY <1>8

\* The same, for span c that comes before the spans of list d.
BeforeKinds(C, c, d, r) ==
  /\ r \in Seq(Kind(C)) /\ r # <<>> /\ Head(r) \in Kind(C) /\ Tail(r) \in Seq(Kind(C))
  /\ Head(r).start = c.start /\ Head(r).subspan = c.subspan
  /\ (Head(r) = c /\ Tail(r) = d) \/ Len(Tail(r)) < Len(d)
BeforeParts(C, m, c, d, r) ==
  /\ Good(C, Tail(r)) /\ Head(r).start < Head(r).end /\ c.end <= Head(r).end
  /\ Ahead({Head(r)}, Range(Tail(r))) /\ Range(Tail(r)) \subseteq Range(d)
  /\ \A p : p \in Area(m, Range(Tail(r))) \/ p \in Block(m, Head(r))
            <=> p \in Area(m, Range(d)) \/ p \in Block(m, c)

\* Merging in front keeps the kinds, of any list.
LEMMA MergeBeforeTyped ==
  ASSUME NEW C, C \subseteq Seq(Spans), NEW d \in Seq(Kind(C)), NEW c \in Kind(C),
         NEW r, r = MergeNext[<<c>> \o d]
  PROVE  BeforeKinds(C, c, d, r)
<1> DEFINE l == <<c>> \o d
<1>1. l \in Seq(Kind(C)) /\ l # <<>> /\ Head(l) = c /\ Tail(l) = d /\ Len(l) = Len(d) + 1
  BY FrontOf, Zenon
<1>2. r = MergeNext[l]
  OBVIOUS
<1> HIDE DEF l
<1>3. KeepsHead(C, l, r)
  BY <1>1, <1>2, MergeNextKeeps, Zenon
<1>4. /\ r \in Seq(Kind(C)) /\ r # <<>> /\ Head(r).start = c.start /\ Head(r).subspan = c.subspan
      /\ r = l \/ Len(r) < Len(l)
  BY <1>1, <1>3 DEF KeepsHead
<1>5. /\ Tail(r) \in Seq(Kind(C)) /\ Head(r) \in Kind(C) /\ r = <<Head(r)>> \o Tail(r)
      /\ Len(Tail(r)) = Len(r) - 1
  BY <1>4, AtFront, Zenon
<1>6. (Head(r) = c /\ Tail(r) = d) \/ Len(Tail(r)) < Len(d)
  <2>1. Len(d) \in Nat /\ Len(r) \in Nat
    BY <1>4, LenProperties
  <2>2. CASE r = l
    BY <1>1, <2>2
  <2>3. CASE Len(r) < Len(l)
    <3>1. Len(l) = Len(d) + 1 /\ Len(Tail(r)) = Len(r) - 1
      BY <1>1, <1>5
    <3> QED  BY <2>1, <2>3, <3>1
  <2> QED  BY <1>4, <2>2, <2>3
<1> QED  BY <1>4, <1>5, <1>6 DEF BeforeKinds

\* Merging in front of a good list keeps the order and the points.
LEMMA MergeBeforeGood ==
  ASSUME NEW C, C \subseteq Seq(Spans), NEW m, NEW d \in Seq(Kind(C)), NEW c \in Kind(C),
         NEW r, r = MergeNext[<<c>> \o d],
         Good(C, d), c.start < c.end, Ahead({c}, Range(d))
  PROVE  BeforeParts(C, m, c, d, r)
<1> DEFINE l == <<c>> \o d  f == Tail(r)  z == Head(r)
<1>1. l \in Seq(Kind(C)) /\ l # <<>> /\ Head(l) = c /\ Tail(l) = d
  BY FrontOf, Zenon
<1>2. Good(C, l) /\ \A p : p \in Area(m, Range(l)) <=> p \in Area(m, Range(d)) \/ p \in Block(m, c)
  <2>1. /\ Good(C, l) <=> Good(C, d) /\ c.start < c.end /\ Ahead({c}, Range(d))
        /\ \A p : p \in Area(m, Range(l)) <=> p \in Area(m, Range(d)) \/ p \in Block(m, c)
    BY OneBefore, Zenon
  <2> QED  BY <2>1
<1>3. r = MergeNext[l]
  OBVIOUS
<1> HIDE DEF l
<1>4. SameFromHead(C, m, l, r)
  BY <1>1, <1>2, <1>3, MergeNextKeeps, Zenon
<1>5. /\ Good(C, r) /\ c.end <= z.end /\ Range(f) \subseteq Range(d)
      /\ Area(m, Range(r)) = Area(m, Range(l))
  BY <1>1, <1>4 DEF SameFromHead
<1>6. f \in Seq(Kind(C)) /\ z \in Kind(C) /\ r = <<z>> \o f
  <2>1. r \in Seq(Kind(C)) /\ r # <<>>
    <3>1. BeforeKinds(C, c, d, r)
      BY MergeBeforeTyped
    <3> QED  BY <3>1 DEF BeforeKinds
  <2> QED  BY <2>1, AtFront, Zenon
<1> HIDE DEF f, z
<1>7. /\ Good(C, <<z>> \o f) <=> Good(C, f) /\ z.start < z.end /\ Ahead({z}, Range(f))
      /\ \A p : p \in Area(m, Range(<<z>> \o f)) <=> p \in Area(m, Range(f)) \/ p \in Block(m, z)
  BY <1>6, OneBefore, Zenon
<1>8. /\ Good(C, f) /\ z.start < z.end /\ Ahead({z}, Range(f))
      /\ \A p : p \in Area(m, Range(f)) \/ p \in Block(m, z)
                <=> p \in Area(m, Range(d)) \/ p \in Block(m, c)
  BY <1>2, <1>5, <1>6, <1>7
<1> QED  BY <1>5, <1>8 DEF f, z, BeforeParts

-----------------------------------------------------------------------------
(* The parts of two spans that overlap.                                      *)

\* What two lists put together are.
LEMMA ConcatParts ==
  ASSUME NEW C, NEW m, NEW a \in Seq(Kind(C)), NEW b \in Seq(Kind(C))
  PROVE  /\ a \o b \in Seq(Kind(C)) /\ \A x : x \in Range(a \o b) <=> x \in Range(a) \/ x \in Range(b)
         /\ Good(C, a \o b) <=> Good(C, a) /\ Good(C, b) /\ Ahead(Range(a), Range(b))
         /\ \A p : p \in Area(m, Range(a \o b)) <=> p \in Area(m, Range(a)) \/ p \in Area(m, Range(b))
         /\ Len(a \o b) = Len(a) + Len(b)
<1>1. a \o b \in Seq(Kind(C)) /\ Range(a \o b) = Range(a) \cup Range(b)
  BY GoodConcat
<1>2. Good(C, a \o b) <=> Good(C, a) /\ Good(C, b) /\ Ahead(Range(a), Range(b))
  BY GoodConcat
<1>3. Len(a \o b) = Len(a) + Len(b)
  BY ConcatProperties
<1>4. \A p : p \in Area(m, Range(a \o b)) <=> p \in Area(m, Range(a)) \/ p \in Area(m, Range(b))
  <2>1. Area(m, Range(a \o b)) = Area(m, Range(a)) \cup Area(m, Range(b))
    BY <1>1, AreaUnion
  <2> QED  BY <2>1
<1>5. \A x : x \in Range(a \o b) <=> x \in Range(a) \/ x \in Range(b)
  BY <1>1
<1> QED  BY <1>1, <1>2, <1>3, <1>4, <1>5

\* Two elements are appended one after the other.
LEMMA TwoMore ==
  ASSUME NEW S, NEW l \in Seq(S), NEW a \in S, NEW b \in S
  PROVE  l \o <<a, b>> = (l \o <<a>>) \o <<b>>
<1>1. <<a>> \in Seq(S) /\ <<b>> \in Seq(S)
  OBVIOUS
<1>3. <<a>> \o <<b>> = <<a, b>>
  <2> DEFINE k == <<a>> \o <<b>>  h == <<a, b>>
  <2>1. Len(<<a>>) = 1 /\ <<a>>[1] = a /\ Len(<<b>>) = 1 /\ <<b>>[1] = b
    OBVIOUS
  <2>2. k \in Seq(S) /\ Len(k) = 1 + 1 /\ \A i \in 1 .. 1 + 1 : k[i] = IF i <= 1 THEN <<a>>[i] ELSE <<b>>[i - 1]
    BY <1>1, <2>1, ConcatProperties
  <2>3. h \in Seq(S) /\ Len(h) = 2 /\ h[1] = a /\ h[2] = b
    OBVIOUS
  <2> HIDE DEF k, h
  <2>4. Len(k) = Len(h) /\ k[1] = a /\ k[2] = b
    BY <2>1, <2>2, <2>3
  <2>5. \A i \in 1 .. Len(k) : k[i] = h[i]
    <3>1. \A i \in 1 .. 2 : i = 1 \/ i = 2
      OBVIOUS
    <3> QED  BY <2>3, <2>4, <3>1
  <2>6. k = h
    BY <2>2, <2>3, <2>4, <2>5, SeqEqual
  <2> QED  BY <2>6 DEF k, h
<1>2. (l \o <<a>>) \o <<b>> = l \o (<<a>> \o <<b>>)
  BY <1>1, ConcatAssociative
<1> QED  BY <1>2, <1>3

\* Where the points of spans are.
LEMMA PointsOf ==
  ASSUME NEW m, NEW c, NEW p \in Block(m, c)
  PROVE  p[1] \in Int /\ c.start <= p[1] /\ p[1] < c.end /\ p[2] \in m[c.subspan]
BY DEF Block

\* Where the points of spans ahead of c, and behind c, lie.
LEMMA PointsBefore ==
  ASSUME NEW C, NEW m, NEW A \in SUBSET Kind(C), NEW c \in Kind(C), Ahead(A, {c}), NEW p \in Area(m, A)
  PROVE  p[1] \in Int /\ p[1] < c.start
<1>1. PICK x \in A : p \in Block(m, x)
  BY DEF Area
<1>2. x.end <= c.start /\ x.end \in Int /\ c.start \in Int /\ p[1] \in Int /\ p[1] < x.end
  BY <1>1, PointsOf DEF Ahead, Kind
<1> QED  BY <1>2

LEMMA PointsAfter ==
  ASSUME NEW C, NEW m, NEW A \in SUBSET Kind(C), NEW c \in Kind(C), Ahead({c}, A), NEW p \in Area(m, A)
  PROVE  p[1] \in Int /\ c.end <= p[1]
<1>1. PICK x \in A : p \in Block(m, x)
  BY DEF Area
<1>2. c.end <= x.start /\ x.start \in Int /\ c.end \in Int /\ p[1] \in Int /\ x.start <= p[1]
  BY <1>1, PointsOf DEF Ahead, Kind
<1> QED  BY <1>2

\* A list of one span or none.
LEMMA AtMostOne ==
  ASSUME NEW C, NEW m, NEW c \in Kind(C), NEW there \in BOOLEAN, NEW l, l = IF there THEN <<c>> ELSE <<>>
  PROVE  /\ l \in Seq(Kind(C)) /\ \A x : x \in Range(l) <=> there /\ x = c
         /\ Good(C, l) <=> (there => c.start < c.end)
         /\ \A p : p \in Area(m, Range(l)) <=> there /\ p \in Block(m, c)
         /\ Len(l) = IF there THEN 1 ELSE 0
<1>1. CASE there
  <2>1. l = <<c>> /\ Len(l) = 1
    BY <1>1
  <2>2. <<c>> \in Seq(Kind(C)) /\ Range(<<c>>) = {c} /\ (Good(C, <<c>>) <=> c.start < c.end)
    BY GoodOne, Zenon
  <2>3. \A p : p \in Area(m, {c}) <=> p \in Block(m, c)
    BY DEF Area
  <2> QED  BY <1>1, <2>1, <2>2, <2>3
<1>2. CASE ~there
  <2>1. l = <<>> /\ Len(l) = 0
    BY <1>2
  <2>2. <<>> \in Seq(Kind(C)) /\ Range(<<>>) = {} /\ Good(C, <<>>)
    BY GoodNone, Zenon
  <2>3. \A p : p \notin Area(m, {})
    BY DEF Area
  <2>4. l \in Seq(Kind(C)) /\ Range(l) = {} /\ Good(C, l)
    BY <2>1, <2>2
  <2>5. (\A x : x \notin Range(l)) /\ \A p : p \notin Area(m, Range(l))
    BY <2>3, <2>4
  <2> QED  BY <1>2, <2>1, <2>4, <2>5
<1> QED  BY <1>1, <1>2

\* The points of c below x, and from x on.
Below(m, c, x) == {p \in Block(m, c) : p[1] < x}
From(m, c, x)  == {p \in Block(m, c) : x <= p[1]}
Overlap(c, t) == c.start < c.end /\ t.start < t.end /\ c.start < t.end /\ t.start < c.end

Spanning(A, a, b) == \A x \in A : x.start = a /\ x.end = b

\* What t leaves over of c, and what they share, are spans of the same kind.
LEMMA PiecesTyped ==
  ASSUME NEW C, NEW c \in Kind(C), NEW t \in Kind(C), NEW sub \in C
  PROVE  /\ InFront(c, t) \in Seq(Kind(C)) /\ Behind(c, t) \in Seq(Kind(C)) /\ Common(c, t, sub) \in Kind(C)
         /\ Common(c, t, sub).subspan = sub
         /\ Common(c, t, sub).start = Upper(c.start, t.start) /\ Common(c, t, sub).end = Lower(c.end, t.end)
         /\ t.end < c.end => Len(Behind(c, t)) = 1
         /\ ~(t.end < c.end) => Len(Behind(c, t)) = 0
         /\ Upper(c.start, t.start) \in Int /\ Lower(c.end, t.end) \in Int
<1>1. c.start \in Int /\ c.end \in Int /\ t.start \in Int /\ t.end \in Int /\ c.subspan \in C
  BY DEF Kind
<1>2. Span(c.start, t.start, c.subspan) \in Kind(C) /\ Span(t.end, c.end, c.subspan) \in Kind(C)
  BY <1>1 DEF Kind, Span
<1>3. InFront(c, t) \in Seq(Kind(C))
  BY <1>2 DEF InFront
<1>4. Behind(c, t) \in Seq(Kind(C))
  BY <1>2 DEF Behind
<1>5. /\ t.end < c.end => Len(Behind(c, t)) = 1
      /\ ~(t.end < c.end) => Len(Behind(c, t)) = 0
  BY DEF Behind
<1>6. Upper(c.start, t.start) \in Int /\ Lower(c.end, t.end) \in Int
  BY <1>1 DEF Upper, Lower
<1>7. /\ Common(c, t, sub) \in Kind(C) /\ Common(c, t, sub).subspan = sub
      /\ Common(c, t, sub).start = Upper(c.start, t.start) /\ Common(c, t, sub).end = Lower(c.end, t.end)
  BY <1>6 DEF Common, Span, Kind
<1> QED  BY <1>3, <1>4, <1>5, <1>6, <1>7

\* They lie side by side within c and have between them the points of c.
LEMMA PiecesGood ==
  ASSUME NEW C, NEW m, NEW c \in Kind(C), NEW t \in Kind(C), Overlap(c, t)
  PROVE  /\ Upper(c.start, t.start) < Lower(c.end, t.end)
         /\ c.start <= Upper(c.start, t.start) /\ Lower(c.end, t.end) <= c.end
         /\ t.start <= Upper(c.start, t.start) /\ Lower(c.end, t.end) <= t.end
         /\ Upper(c.start, t.start) = c.start \/ Upper(c.start, t.start) = t.start
         /\ Lower(c.end, t.end) = c.end \/ Lower(c.end, t.end) = t.end
         /\ Good(C, InFront(c, t)) /\ Good(C, Behind(c, t))
         /\ Spanning(Range(InFront(c, t)), c.start, Upper(c.start, t.start))
         /\ Spanning(Range(Behind(c, t)), Lower(c.end, t.end), c.end)
         /\ \A p : p \in Area(m, Range(InFront(c, t))) <=> p \in Below(m, c, Upper(c.start, t.start))
         /\ \A p : p \in Area(m, Range(Behind(c, t))) <=> p \in From(m, c, Lower(c.end, t.end))
<1> DEFINE f == InFront(c, t)  b == Behind(c, t)
           p0 == Upper(c.start, t.start)  p1 == Lower(c.end, t.end)
           x1 == Span(c.start, t.start, c.subspan)  x2 == Span(t.end, c.end, c.subspan)
           front == t.start > c.start  behind == t.end < c.end
<1>1. /\ c.start \in Int /\ c.end \in Int /\ t.start \in Int /\ t.end \in Int /\ c.subspan \in C
      /\ x1 \in Kind(C) /\ x1.start = c.start /\ x1.end = t.start /\ x1.subspan = c.subspan
      /\ x2 \in Kind(C) /\ x2.start = t.end /\ x2.end = c.end /\ x2.subspan = c.subspan
  BY DEF Kind, Span
<1>2. /\ front => p0 = t.start
      /\ ~front => p0 = c.start
      /\ behind => p1 = t.end
      /\ ~behind => p1 = c.end
  BY <1>1 DEF Upper, Lower
<1>3. f = (IF front THEN <<x1>> ELSE <<>>) /\ b = (IF behind THEN <<x2>> ELSE <<>>)
  BY DEF InFront, Behind
<1> HIDE DEF x1, x2, f, b, p0, p1
<1>4. /\ f \in Seq(Kind(C)) /\ \A x : x \in Range(f) <=> front /\ x = x1
      /\ Good(C, f) <=> (front => x1.start < x1.end)
      /\ \A p : p \in Area(m, Range(f)) <=> front /\ p \in Block(m, x1)
  <2> HIDE DEF front
  <2>1. front \in BOOLEAN
    BY DEF front
  <2>2. x1 \in Kind(C) /\ f = IF front THEN <<x1>> ELSE <<>>
    BY <1>1, <1>3
  <2> QED  BY <2>1, <2>2, AtMostOne
<1>5. /\ b \in Seq(Kind(C)) /\ \A x : x \in Range(b) <=> behind /\ x = x2
      /\ Good(C, b) <=> (behind => x2.start < x2.end)
      /\ \A p : p \in Area(m, Range(b)) <=> behind /\ p \in Block(m, x2)
  <2> HIDE DEF behind
  <2>1. behind \in BOOLEAN
    BY DEF behind
  <2>2. x2 \in Kind(C) /\ b = IF behind THEN <<x2>> ELSE <<>>
    BY <1>1, <1>3
  <2> QED  BY <2>1, <2>2, AtMostOne
<1>6. /\ p0 < p1 /\ c.start <= p0 /\ p1 <= c.end /\ t.start <= p0 /\ p1 <= t.end
      /\ p0 = c.start \/ p0 = t.start
      /\ p1 = c.end \/ p1 = t.end
  BY <1>1, <1>2 DEF Overlap
<1>7. Good(C, f) /\ Good(C, b)
  BY <1>1, <1>2, <1>4, <1>5
<1>8. Spanning(Range(f), c.start, p0)
  BY <1>1, <1>2, <1>4 DEF Spanning
<1>9. Spanning(Range(b), p1, c.end)
  BY <1>1, <1>2, <1>5 DEF Spanning
<1>10. ASSUME NEW p PROVE p \in Area(m, Range(f)) <=> p \in Below(m, c, p0)
  <2>1. p \in Block(m, x1) <=> p \in Block(m, c) /\ p[1] < t.start
    BY <1>1 DEF Block, Overlap
  <2>2. CASE front
    BY <1>2, <1>4, <2>1, <2>2 DEF Below
  <2>3. CASE ~front
    <3>1. p \in Block(m, c) => ~(p[1] < c.start)
      BY <1>1 DEF Block
    <3> QED  BY <1>2, <1>4, <2>3, <3>1 DEF Below
  <2> QED  BY <2>2, <2>3
<1>11. ASSUME NEW p PROVE p \in Area(m, Range(b)) <=> p \in From(m, c, p1)
  <2>1. p \in Block(m, x2) <=> p \in Block(m, c) /\ t.end <= p[1]
    BY <1>1 DEF Block, Overlap
  <2>2. CASE behind
    BY <1>2, <1>5, <2>1, <2>2 DEF From
  <2>3. CASE ~behind
    <3>1. p \in Block(m, c) => ~(c.end <= p[1])
      BY <1>1 DEF Block
    <3> QED  BY <1>2, <1>5, <2>3, <3>1 DEF From
  <2> QED  BY <2>2, <2>3
<1> QED  BY <1>6, <1>7, <1>8, <1>9, <1>10, <1>11 DEF f, b, p0, p1

-----------------------------------------------------------------------------
(* What comes out of a turn in which two spans overlap: the part of e that t  *)
(* overlaps is given content sub and merged with what lies before and behind. *)

\* Span e between the spans of lists F and E, all of them in order.
Among(C, F, e, E) ==
  /\ Good(C, F) /\ Good(C, E) /\ e.start < e.end
  /\ Ahead(Range(F), {e}) /\ Ahead({e}, Range(E))

Merged(F, e, t, sub, E, k, right) ==
  /\ k = MergePrevious[F \o InFront(e, t) \o <<Common(e, t, sub)>>]
  /\ right = MergeNext[<<Last(k)>> \o (Behind(e, t) \o E)]

TurnKinds(C, E, t, sub, k, right) ==
  /\ Front(k) \in Seq(Kind(C)) /\ right = <<Head(right)>> \o Tail(right)
  /\ Head(right) \in Kind(C) /\ Tail(right) \in Seq(Kind(C)) /\ Head(right).subspan = sub
  /\ Len(Tail(right)) <= Len(E) \/ (Head(right).end = t.end /\ Len(Tail(right)) = Len(E) + 1)
  /\ Len(Tail(right)) \in Nat
TurnParts(C, m, F, e, t, sub, E, k, right, p0, p1) ==
  /\ Among(C, Front(k), Head(right), Tail(right))
  /\ Head(right).start <= p0 /\ p1 <= Head(right).end
  /\ \A p : \/ p \in Area(m, Range(Front(k))) \/ p \in Block(m, Head(right))
            \/ p \in Area(m, Range(Tail(right)))
            <=> \/ p \in Area(m, Range(F)) \/ p \in Area(m, Range(E))
                \/ p \in Block(m, Common(e, t, sub)) \/ p \in Below(m, e, p0) \/ p \in From(m, e, p1)

\* A turn that merges keeps the kinds, of any lists.
LEMMA TurnTyped ==
  ASSUME NEW C, C \subseteq Seq(Spans), NEW F \in Seq(Kind(C)), NEW E \in Seq(Kind(C)),
         NEW e \in Kind(C), NEW t \in Kind(C), NEW sub \in C,
         NEW k, NEW right, Merged(F, e, t, sub, E, k, right)
  PROVE  TurnKinds(C, E, t, sub, k, right)
<1> DEFINE z     == Common(e, t, sub)
           f     == InFront(e, t)
           b     == Behind(e, t)
           g     == F \o f
           rest  == b \o E
           lm    == Last(k)
           hd    == Head(right)
           tl    == Tail(right)
<1>1. /\ f \in Seq(Kind(C)) /\ b \in Seq(Kind(C)) /\ z \in Kind(C) /\ z.subspan = sub
      /\ z.end = Lower(e.end, t.end)
      /\ t.end < e.end => Len(b) = 1
      /\ ~(t.end < e.end) => Len(b) = 0
  BY PiecesTyped
<1> HIDE DEF z, f, b
<1>2. g \in Seq(Kind(C)) /\ rest \in Seq(Kind(C)) /\ Len(rest) = Len(b) + Len(E)
  <2>1. g \in Seq(Kind(C))
    BY <1>1, ConcatProperties
  <2>2. rest \in Seq(Kind(C)) /\ Len(rest) = Len(b) + Len(E)
    BY <1>1, ConcatProperties
  <2> QED  BY <2>1, <2>2
<1>3. k = MergePrevious[g \o <<z>>] /\ right = MergeNext[<<lm>> \o rest]
  BY DEF g, z, f, rest, b, Merged
<1> HIDE DEF g, rest
<1>4. Front(k) \in Seq(Kind(C)) /\ lm \in Kind(C) /\ lm.end = z.end /\ lm.subspan = z.subspan
  <2>1. g \in Seq(Kind(C)) /\ z \in Kind(C) /\ k = MergePrevious[g \o <<z>>]
    BY <1>1, <1>2, <1>3
  <2>2. BehindKinds(C, z, k)
    BY <2>1, MergeBehindTyped
  <2> QED  BY <2>2 DEF BehindKinds
<1> HIDE DEF lm
<1>5. /\ right \in Seq(Kind(C)) /\ right # <<>> /\ hd \in Kind(C) /\ tl \in Seq(Kind(C)) /\ hd.subspan = lm.subspan
      /\ (hd = lm /\ tl = rest) \/ Len(tl) < Len(rest)
  <2>1. rest \in Seq(Kind(C)) /\ lm \in Kind(C) /\ right = MergeNext[<<lm>> \o rest]
    BY <1>2, <1>3, <1>4
  <2>2. BeforeKinds(C, lm, rest, right)
    BY <2>1, MergeBeforeTyped
  <2> QED  BY <2>2 DEF BeforeKinds
<1>8. right = <<hd>> \o tl
  BY <1>5, AtFront, Zenon
<1> HIDE DEF hd, tl
<1>6. Len(tl) \in Nat /\ Len(E) \in Nat /\ Len(rest) \in Nat
  BY <1>2, <1>5, LenProperties
<1>7. Len(tl) <= Len(E) \/ (hd.end = t.end /\ Len(tl) = Len(E) + 1)
  <2>1. CASE t.end < e.end
    <3>1. z.end = t.end
      <4>1. t.end \in Int /\ e.end \in Int
        BY DEF Kind
      <4> QED  BY <1>1, <2>1, <4>1 DEF Lower
    <3>2. Len(rest) = Len(E) + 1
      <4>1. Len(b) = 1 /\ Len(rest) = Len(b) + Len(E)
        BY <1>1, <1>2, <2>1
      <4> QED  BY <1>6, <4>1
    <3> QED  BY <1>4, <1>5, <1>6, <3>1, <3>2
  <2>2. CASE ~(t.end < e.end)
    <3>1. Len(rest) = Len(E)
      BY <1>1, <1>2, <1>6, <2>2
    <3> QED  BY <1>5, <1>6, <3>1
  <2> QED  BY <2>1, <2>2
<1> QED  BY <1>1, <1>4, <1>5, <1>6, <1>7, <1>8 DEF hd, tl, TurnKinds

\* A turn that merges good lists keeps the order, and all points outside t.
LEMMA TurnGood ==
  ASSUME NEW C, C \subseteq Seq(Spans), NEW m, NEW F \in Seq(Kind(C)), NEW E \in Seq(Kind(C)),
         NEW e \in Kind(C), NEW t \in Kind(C), NEW sub \in C,
         NEW k, NEW right, Merged(F, e, t, sub, E, k, right),
         Among(C, F, e, E), Overlap(e, t),
         NEW p0, p0 = Upper(e.start, t.start), NEW p1, p1 = Lower(e.end, t.end)
  PROVE  TurnParts(C, m, F, e, t, sub, E, k, right, p0, p1)
<1> DEFINE z     == Common(e, t, sub)
           f     == InFront(e, t)
           b     == Behind(e, t)
           g     == F \o f
           rest  == b \o E
           lm    == Last(k)
           hd    == Head(right)
           tl    == Tail(right)
<1>1. /\ f \in Seq(Kind(C)) /\ b \in Seq(Kind(C)) /\ z \in Kind(C)
      /\ z.start = p0 /\ z.end = p1 /\ p0 \in Int /\ p1 \in Int
  BY PiecesTyped
<1>2. /\ p0 < p1 /\ e.start <= p0 /\ p1 <= e.end
      /\ Good(C, f) /\ Good(C, b)
      /\ \A x \in Range(f) : x.start = e.start /\ x.end = p0
      /\ \A x \in Range(b) : x.start = p1 /\ x.end = e.end
      /\ \A p : p \in Area(m, Range(f)) <=> p \in Below(m, e, p0)
      /\ \A p : p \in Area(m, Range(b)) <=> p \in From(m, e, p1)
  <2>1. /\ Upper(e.start, t.start) < Lower(e.end, t.end)
        /\ e.start <= Upper(e.start, t.start) /\ Lower(e.end, t.end) <= e.end
        /\ Good(C, InFront(e, t)) /\ Good(C, Behind(e, t))
        /\ Spanning(Range(InFront(e, t)), e.start, Upper(e.start, t.start))
        /\ Spanning(Range(Behind(e, t)), Lower(e.end, t.end), e.end)
        /\ \A p : p \in Area(m, Range(InFront(e, t))) <=> p \in Below(m, e, Upper(e.start, t.start))
        /\ \A p : p \in Area(m, Range(Behind(e, t))) <=> p \in From(m, e, Lower(e.end, t.end))
    <3>1. Upper(e.start, t.start) < Lower(e.end, t.end) /\ e.start <= Upper(e.start, t.start) /\ Lower(e.end, t.end) <= e.end
      BY PiecesGood, Zenon
    <3>2. Good(C, InFront(e, t)) /\ Good(C, Behind(e, t))
      BY PiecesGood, Zenon
    <3>3. Spanning(Range(InFront(e, t)), e.start, Upper(e.start, t.start))
      BY PiecesGood, Zenon
    <3>4. Spanning(Range(Behind(e, t)), Lower(e.end, t.end), e.end)
      BY PiecesGood, Zenon
    <3>5. \A p : p \in Area(m, Range(InFront(e, t))) <=> p \in Below(m, e, Upper(e.start, t.start))
      BY PiecesGood, Zenon
    <3>6. \A p : p \in Area(m, Range(Behind(e, t))) <=> p \in From(m, e, Lower(e.end, t.end))
      BY PiecesGood, Zenon
    <3> QED  BY <3>1, <3>2, <3>3, <3>4, <3>5, <3>6
  <2> QED  BY <2>1 DEF Spanning
<1> HIDE DEF z, f, b
<1>3. /\ g \in Seq(Kind(C)) /\ \A x : x \in Range(g) <=> x \in Range(F) \/ x \in Range(f)
      /\ Good(C, g) <=> Good(C, F) /\ Good(C, f) /\ Ahead(Range(F), Range(f))
      /\ \A p : p \in Area(m, Range(g)) <=> p \in Area(m, Range(F)) \/ p \in Area(m, Range(f))
  BY <1>1, ConcatParts, Zenon
<1>4. /\ rest \in Seq(Kind(C)) /\ \A x : x \in Range(rest) <=> x \in Range(b) \/ x \in Range(E)
      /\ Good(C, rest) <=> Good(C, b) /\ Good(C, E) /\ Ahead(Range(b), Range(E))
      /\ \A p : p \in Area(m, Range(rest)) <=> p \in Area(m, Range(b)) \/ p \in Area(m, Range(E))
  BY <1>1, ConcatParts, Zenon
<1>5. k = MergePrevious[g \o <<z>>] /\ right = MergeNext[<<lm>> \o rest]
  BY DEF g, z, f, rest, b, Merged
<1> HIDE DEF g, rest
<1>6. /\ Range(F) \subseteq Kind(C) /\ Range(E) \subseteq Kind(C)
      /\ (\A x \in Kind(C) : x.start \in Int /\ x.end \in Int) /\ e.start \in Int /\ e.end \in Int
  BY RangeOfSeq DEF Kind
<1>7. (\A x \in Range(F) : x.end <= e.start) /\ \A y \in Range(E) : e.end <= y.start
  BY DEF Among, Ahead
<1>8. Ahead(Range(F), Range(f)) /\ Ahead(Range(g), {z})
  <2>1. \A x \in Range(F), y \in Range(f) : x.end <= y.start
    BY <1>2, <1>7
  <2>2. \A x \in Range(F) : x.end <= z.start
    BY <1>1, <1>2, <1>6, <1>7
  <2>3. \A x \in Range(f) : x.end <= z.start
    BY <1>1, <1>2
  <2> QED  BY <1>3, <2>1, <2>2, <2>3 DEF Ahead
<1>9. Good(C, g) /\ z.start < z.end
  BY <1>1, <1>2, <1>3, <1>8 DEF Among
<1>10. /\ Front(k) \in Seq(Kind(C)) /\ lm \in Kind(C) /\ lm.end = p1
       /\ Good(C, Front(k)) /\ lm.start < lm.end /\ lm.start <= p0
       /\ Ahead(Range(Front(k)), {lm})
       /\ \A p : p \in Area(m, Range(Front(k))) \/ p \in Block(m, lm)
                 <=> p \in Area(m, Range(g)) \/ p \in Block(m, z)
  <2>1. Front(k) \in Seq(Kind(C)) /\ lm \in Kind(C) /\ lm.end = z.end
    <3>1. g \in Seq(Kind(C)) /\ z \in Kind(C) /\ k = MergePrevious[g \o <<z>>]
      BY <1>1, <1>3, <1>5
    <3>2. BehindKinds(C, z, k)
      BY <3>1, MergeBehindTyped
    <3> QED  BY <3>2 DEF BehindKinds
  <2>2. /\ Good(C, Front(k)) /\ lm.start < lm.end /\ lm.start <= z.start
        /\ Ahead(Range(Front(k)), {lm})
        /\ \A p : p \in Area(m, Range(Front(k))) \/ p \in Block(m, lm)
                  <=> p \in Area(m, Range(g)) \/ p \in Block(m, z)
    <3>1. g \in Seq(Kind(C)) /\ z \in Kind(C) /\ k = MergePrevious[g \o <<z>>]
      BY <1>1, <1>3, <1>5
    <3>2. Good(C, g) /\ z.start < z.end /\ Ahead(Range(g), {z})
      BY <1>8, <1>9
    <3>3. BehindParts(C, m, g, z, k)
      BY <3>1, <3>2, MergeBehindGood, Zenon
    <3> QED  BY <3>3 DEF BehindParts
  <2> QED  BY <1>1, <2>1, <2>2
<1> HIDE DEF lm
<1>11. Ahead({lm}, Range(rest)) /\ Good(C, rest)
  <2>1. \A y \in Range(E) : p1 <= y.start
    BY <1>1, <1>2, <1>6, <1>7
  <2>2. \A y \in Range(b) : p1 <= y.start
    BY <1>1, <1>2
  <2>3. Ahead(Range(b), Range(E))
    BY <1>2, <1>7 DEF Ahead
  <2>4. Ahead({lm}, Range(rest))
    BY <1>4, <1>10, <2>1, <2>2 DEF Ahead
  <2> QED  BY <1>2, <1>4, <2>3, <2>4 DEF Among
<1>12. /\ hd \in Kind(C) /\ tl \in Seq(Kind(C)) /\ hd.start = lm.start
       /\ Good(C, tl) /\ hd.start < hd.end /\ lm.end <= hd.end /\ Ahead({hd}, Range(tl))
       /\ \A p : p \in Area(m, Range(tl)) \/ p \in Block(m, hd)
                 <=> p \in Area(m, Range(rest)) \/ p \in Block(m, lm)
  <2>1. hd \in Kind(C) /\ tl \in Seq(Kind(C)) /\ hd.start = lm.start
    <3>1. rest \in Seq(Kind(C)) /\ lm \in Kind(C) /\ right = MergeNext[<<lm>> \o rest]
      BY <1>4, <1>5, <1>10
    <3>2. BeforeKinds(C, lm, rest, right)
      BY <3>1, MergeBeforeTyped
    <3> QED  BY <3>2 DEF BeforeKinds
  <2>2. /\ Good(C, tl) /\ hd.start < hd.end /\ lm.end <= hd.end /\ Ahead({hd}, Range(tl))
        /\ \A p : p \in Area(m, Range(tl)) \/ p \in Block(m, hd)
                  <=> p \in Area(m, Range(rest)) \/ p \in Block(m, lm)
    <3>1. rest \in Seq(Kind(C)) /\ lm \in Kind(C) /\ right = MergeNext[<<lm>> \o rest]
      BY <1>4, <1>5, <1>10
    <3>2. Good(C, rest) /\ lm.start < lm.end /\ Ahead({lm}, Range(rest))
      BY <1>10, <1>11
    <3>3. BeforeParts(C, m, lm, rest, right)
      BY <3>1, <3>2, MergeBeforeGood, Zenon
    <3> QED  BY <3>3 DEF BeforeParts
  <2> QED  BY <2>1, <2>2
<1> HIDE DEF hd, tl
<1>13. Among(C, Front(k), hd, tl)
  <2>1. Ahead(Range(Front(k)), {hd})
    BY <1>10, <1>12 DEF Ahead
  <2> QED  BY <1>10, <1>12, <2>1 DEF Among
<1>14. hd.start <= p0 /\ p1 <= hd.end
  BY <1>10, <1>12
<1>15. \A p : \/ p \in Area(m, Range(Front(k))) \/ p \in Block(m, hd) \/ p \in Area(m, Range(tl))
              <=> \/ p \in Area(m, Range(F)) \/ p \in Area(m, Range(E))
                  \/ p \in Block(m, z) \/ p \in Below(m, e, p0) \/ p \in From(m, e, p1)
  BY <1>2, <1>3, <1>4, <1>10, <1>12
<1> QED  BY <1>13, <1>14, <1>15 DEF hd, tl, z, TurnParts

-----------------------------------------------------------------------------
(* Walks.                                                                    *)

WalksOf(C) == [done : Seq(Kind(C)), d : Seq(Kind(C)), s : Seq(Kind(C))]

\* Every turn lowers the rank of the walk.
Meet(w) == IF w.d # <<>> /\ w.s # <<>> /\ Head(w.d).start < Head(w.s).end THEN 1 ELSE 0
Rank(w) == 2 * Len(w.d) + 5 * Len(w.s) + Meet(w)

\* The parts of a walk.
LEMMA WalkTyped ==
  ASSUME NEW C, NEW done \in Seq(Kind(C)), NEW d \in Seq(Kind(C)), NEW s \in Seq(Kind(C))
  PROVE  /\ Walk(done, d, s) \in WalksOf(C)
         /\ Walk(done, d, s).done = done /\ Walk(done, d, s).d = d /\ Walk(done, d, s).s = s
BY DEF Walk, WalksOf

\* The rank is a natural number, and when it gets less.
LEMMA RankTyped ==
  ASSUME NEW C, NEW w \in WalksOf(C)
  PROVE  Rank(w) \in Nat
<1>1. Len(w.d) \in Nat /\ Len(w.s) \in Nat
  BY LenProperties DEF WalksOf
<1>2. Meet(w) \in {0, 1}
  BY DEF Meet
<1>3. \A a, b \in Nat, c \in {0, 1} : 2 * a + 5 * b + c \in Nat
  OBVIOUS
<1>4. 2 * Len(w.d) + 5 * Len(w.s) + Meet(w) \in Nat
  BY <1>1, <1>2, <1>3
<1> QED  BY <1>4 DEF Rank

LEMMA RankLess ==
  ASSUME NEW C, NEW v \in WalksOf(C), NEW w \in WalksOf(C),
         \/ Len(v.s) < Len(w.s) /\ Len(v.d) <= Len(w.d) + 1
         \/ Len(v.s) <= Len(w.s) /\ Len(v.d) < Len(w.d)
         \/ Len(v.s) <= Len(w.s) /\ Len(v.d) <= Len(w.d) /\ Meet(w) = 1 /\ Meet(v) = 0
  PROVE  Rank(v) < Rank(w)
<1>1. Len(v.d) \in Nat /\ Len(v.s) \in Nat /\ Len(w.d) \in Nat /\ Len(w.s) \in Nat
  BY LenProperties DEF WalksOf
<1>2. Meet(v) \in {0, 1} /\ Meet(w) \in {0, 1}
  BY DEF Meet
<1>3. ASSUME NEW a \in Nat, NEW b \in Nat, NEW c \in {0, 1}, NEW x \in Nat, NEW y \in Nat, NEW z \in {0, 1},
             (b < y /\ a <= x + 1) \/ (b <= y /\ a < x) \/ (b <= y /\ a <= x /\ z = 1 /\ c = 0)
      PROVE  2 * a + 5 * b + c < 2 * x + 5 * y + z
  BY <1>3
<1>4. 2 * Len(v.d) + 5 * Len(v.s) + Meet(v) < 2 * Len(w.d) + 5 * Len(w.s) + Meet(w)
  BY <1>1, <1>2, <1>3
<1> QED  BY <1>4 DEF Rank

\* What a list is in terms of its head and tail.
LEMMA HeadParts ==
  ASSUME NEW C, NEW m, NEW l \in Seq(Kind(C)), l # <<>>
  PROVE  /\ Head(l) \in Kind(C) /\ Tail(l) \in Seq(Kind(C)) /\ Len(Tail(l)) = Len(l) - 1 /\ Len(l) \in Nat \ {0}
         /\ \A x : x \in Range(l) <=> x \in Range(Tail(l)) \/ x = Head(l)
         /\ Good(C, l) <=> Good(C, Tail(l)) /\ Head(l).start < Head(l).end /\ Ahead({Head(l)}, Range(Tail(l)))
         /\ \A p : p \in Area(m, Range(l)) <=> p \in Area(m, Range(Tail(l))) \/ p \in Block(m, Head(l))
<1> DEFINE c == Head(l)  t == Tail(l)
<1>1. /\ c \in Kind(C) /\ t \in Seq(Kind(C)) /\ Len(t) = Len(l) - 1 /\ Len(l) \in Nat \ {0} /\ l = <<c>> \o t
  BY AtFront, Zenon
<1> HIDE DEF c, t
<1>2. /\ \A x : x \in Range(<<c>> \o t) <=> x \in Range(t) \/ x = c
      /\ Good(C, <<c>> \o t) <=> Good(C, t) /\ c.start < c.end /\ Ahead({c}, Range(t))
      /\ \A p : p \in Area(m, Range(<<c>> \o t)) <=> p \in Area(m, Range(t)) \/ p \in Block(m, c)
  BY <1>1, OneBefore, Zenon
<1> DEFINE k == <<c>> \o t
<1>3. l = k
  BY <1>1
<1> HIDE DEF k
<1>4. /\ \A x : x \in Range(k) <=> x \in Range(t) \/ x = c
      /\ Good(C, k) <=> Good(C, t) /\ c.start < c.end /\ Ahead({c}, Range(t))
      /\ \A p : p \in Area(m, Range(k)) <=> p \in Area(m, Range(t)) \/ p \in Block(m, c)
  BY <1>2 DEF k
<1>5. /\ \A x : x \in Range(l) <=> x \in Range(t) \/ x = c
      /\ Good(C, l) <=> Good(C, t) /\ c.start < c.end /\ Ahead({c}, Range(t))
      /\ \A p : p \in Area(m, Range(l)) <=> p \in Area(m, Range(t)) \/ p \in Block(m, c)
  BY <1>3, <1>4, Zenon
<1> QED  BY <1>1, <1>5 DEF c, t

-----------------------------------------------------------------------------
(* sraSpanListOr.                                                            *)

OrLeft(done, c, t, left) ==
  left = IF t.start < c.start
           THEN MergePrevious[done \o <<Span(t.start, c.start, t.subspan), c>>]
           ELSE Append(done, c)

\* OrStep for two spans that overlap, in the terms of the lemmas above.
LEMMA OrStepOverlaps ==
  ASSUME NEW w, NEW below, w.d # <<>>, ~(Head(w.d).start >= Head(w.s).end), ~(Head(w.s).start >= Head(w.d).end)
  PROVE  \E left, k, right :
           /\ OrLeft(w.done, Head(w.d), Head(w.s), left)
           /\ Merged(Front(left), Last(left), Head(w.s),
                     below[Walk(<<>>, Last(left).subspan, Head(w.s).subspan)], Tail(w.d), k, right)
           /\ OrStep(w, below) = IF Head(w.s).end > Head(right).end
                THEN Walk(Append(Front(k), Head(right)), Tail(right),
                          <<[Head(w.s) EXCEPT !.start = Head(right).end]>> \o Tail(w.s))
                ELSE Walk(Front(k), right, Tail(w.s))
<1> DEFINE c     == Head(w.d)
           t     == Head(w.s)
           left  == IF t.start < c.start
                      THEN MergePrevious[w.done \o <<Span(t.start, c.start, t.subspan), c>>]
                      ELSE Append(w.done, c)
           e     == Last(left)
           sub   == below[Walk(<<>>, e.subspan, t.subspan)]
           rest  == Behind(e, t) \o Tail(w.d)
           k     == MergePrevious[Front(left) \o InFront(e, t) \o <<Common(e, t, sub)>>]
           right == MergeNext[<<Last(k)>> \o rest]
           next  == IF t.end > Head(right).end
                      THEN Walk(Append(Front(k), Head(right)), Tail(right),
                                <<[t EXCEPT !.start = Head(right).end]>> \o Tail(w.s))
                      ELSE Walk(Front(k), right, Tail(w.s))
<1>1. OrStep(w, below) = next
  BY Zenon DEF OrStep
<1>2. OrLeft(w.done, c, t, left)
  BY DEF OrLeft
<1>3. Merged(Front(left), e, t, sub, Tail(w.d), k, right)
  BY DEF Merged
<1> HIDE DEF left, k, right
<1> QED  BY <1>1, <1>2, <1>3

LeftKinds(C, c, left) ==
  /\ Front(left) \in Seq(Kind(C)) /\ Last(left) \in Kind(C)
  /\ Last(left).end = c.end /\ Last(left).subspan = c.subspan
LeftParts(C, m, done, c, t, left) ==
  /\ Good(C, Front(left)) /\ Last(left).start < Last(left).end
  /\ Ahead(Range(Front(left)), {Last(left)}) /\ Last(left).start <= c.start
  /\ ~(t.start < c.start) => Last(left).start = c.start
  /\ \A p : p \in Area(m, Range(Front(left))) \/ p \in Block(m, Last(left))
            <=> p \in Area(m, Range(done)) \/ p \in Block(m, c) \/ p \in Below(m, t, c.start)

\* What the source adds in front of the span keeps the kinds.
LEMMA OrLeftTyped ==
  ASSUME NEW C, C \subseteq Seq(Spans), NEW done \in Seq(Kind(C)), NEW c \in Kind(C), NEW t \in Kind(C),
         NEW left, OrLeft(done, c, t, left)
  PROVE  LeftKinds(C, c, left)
<1> DEFINE x == Span(t.start, c.start, t.subspan)
           g == done \o <<x>>
<1>1. x \in Kind(C)
  BY DEF Kind, Span
<1> HIDE DEF x
<1>2. g \in Seq(Kind(C)) /\ done \o <<x, c>> = g \o <<c>>
  <2>1. g \in Seq(Kind(C))
    BY <1>1, EndOf, ZenonT(60)
  <2>2. done \o <<x, c>> = (done \o <<x>>) \o <<c>>
    BY <1>1, TwoMore
  <2> QED  BY <2>1, <2>2
<1> HIDE DEF g
<1>3. CASE t.start < c.start
  <2>1. left = MergePrevious[g \o <<c>>]
    BY <1>2, <1>3 DEF OrLeft, x
  <2>2. BehindKinds(C, c, left)
    BY <1>2, <2>1, MergeBehindTyped
  <2> QED  BY <2>2 DEF BehindKinds, LeftKinds
<1>4. CASE ~(t.start < c.start)
  <2>1. left = Append(done, c)
    BY <1>4 DEF OrLeft
  <2>2. Front(left) = done /\ Last(left) = c
    <3>1. Append(done, c) = done \o <<c>> /\ Front(done \o <<c>>) = done /\ Last(done \o <<c>>) = c
      BY EndOf, ZenonT(60)
    <3> QED  BY <2>1, <3>1
  <2> QED  BY <2>2 DEF LeftKinds
<1> QED  BY <1>3, <1>4

\* It keeps the order, and adds the points that the source has in front of it.
LEMMA OrLeftGood ==
  ASSUME NEW C, C \subseteq Seq(Spans), NEW m, NEW done \in Seq(Kind(C)), NEW c \in Kind(C), NEW t \in Kind(C),
         NEW left, OrLeft(done, c, t, left),
         Good(C, done), c.start < c.end, t.start < t.end, c.start < t.end,
         Ahead(Range(done), {c}), Ahead(Range(done), {t})
  PROVE  LeftParts(C, m, done, c, t, left)
<1> DEFINE x == Span(t.start, c.start, t.subspan)
           g == done \o <<x>>
<1>1. /\ x \in Kind(C) /\ x.start = t.start /\ x.end = c.start /\ x.subspan = t.subspan
      /\ c.start \in Int /\ c.end \in Int /\ t.start \in Int /\ t.end \in Int
  BY DEF Kind, Span
<1>2. CASE t.start < c.start
  <2>0. left = MergePrevious[done \o <<x, c>>]
    BY <1>2 DEF OrLeft
  <2> HIDE DEF x
  <2>1. /\ g \in Seq(Kind(C)) /\ \A y : y \in Range(g) <=> y \in Range(done) \/ y = x
        /\ Good(C, g) <=> Good(C, done) /\ x.start < x.end /\ Ahead(Range(done), {x})
        /\ \A p : p \in Area(m, Range(g)) <=> p \in Area(m, Range(done)) \/ p \in Block(m, x)
    BY <1>1, OneMore, Zenon
  <2>2. done \o <<x, c>> = g \o <<c>>
    BY <1>1, TwoMore
  <2> HIDE DEF g
  <2>3. left = MergePrevious[g \o <<c>>]
    BY <2>0, <2>2
  <2>4. Good(C, g) /\ Ahead(Range(g), {c})
    <3>1. Ahead(Range(done), {x})
      BY <1>1 DEF Ahead
    <3>2. Ahead(Range(g), {c})
      BY <1>1, <2>1 DEF Ahead
    <3> QED  BY <1>1, <1>2, <2>1, <3>1, <3>2
  <2>5. /\ Good(C, Front(left)) /\ Last(left).start < Last(left).end
        /\ Ahead(Range(Front(left)), {Last(left)}) /\ Last(left).start <= c.start
        /\ \A p : p \in Area(m, Range(Front(left))) \/ p \in Block(m, Last(left))
                  <=> p \in Area(m, Range(g)) \/ p \in Block(m, c)
    <3>1. BehindParts(C, m, g, c, left)
      BY <2>1, <2>3, <2>4, MergeBehindGood, Zenon
    <3> QED  BY <3>1 DEF BehindParts
  <2>6. \A p : p \in Block(m, x) <=> p \in Below(m, t, c.start)
    BY <1>1 DEF Block, Below
  <2> QED  BY <1>2, <2>1, <2>5, <2>6 DEF LeftParts
<1>3. CASE ~(t.start < c.start)
  <2>1. left = Append(done, c)
    BY <1>3 DEF OrLeft
  <2>2. Front(left) = done /\ Last(left) = c
    <3>1. Append(done, c) = done \o <<c>> /\ Front(done \o <<c>>) = done /\ Last(done \o <<c>>) = c
      BY EndOf, ZenonT(60)
    <3> QED  BY <2>1, <3>1
  <2>3. \A p : p \notin Below(m, t, c.start)
    BY <1>1, <1>3 DEF Block, Below
  <2>4. c.start <= c.start
    BY <1>1
  <2> QED  BY <2>2, <2>3, <2>4 DEF LeftParts
<1> QED  BY <1>2, <1>3

\* What is between the ends of a span gets smaller when its start moves.
ShortParts(C, m, t, x, n) ==
  /\ n \in Kind(C) /\ n.start = x /\ n.end = t.end /\ n.subspan = t.subspan
  /\ t.start <= x => \A p : p \in Block(m, n) <=> p \in From(m, t, x)

\* The source's span with a later start.
LEMMA Shortened ==
  ASSUME NEW C, NEW m, NEW t \in Kind(C), NEW x \in Int, NEW n, n = [t EXCEPT !.start = x]
  PROVE  ShortParts(C, m, t, x, n)
<1>1. n \in Kind(C) /\ n.start = x /\ n.end = t.end /\ n.subspan = t.subspan /\ t.start \in Int
  BY DEF Kind
<1>2. ASSUME t.start <= x PROVE \A p : p \in Block(m, n) <=> p \in From(m, t, x)
  BY <1>1, <1>2 DEF Block, From
<1> QED  BY <1>1, <1>2 DEF ShortParts

\* A turn of OrStep leads from walk to walk and lowers the rank.
LEMMA OrStepTyped ==
  ASSUME NEW C, C \subseteq Seq(Spans), NEW below, \A x, y \in C : below[Walk(<<>>, x, y)] \in C,
         NEW w \in WalksOf(C), w.s # <<>>
  PROVE  OrStep(w, below) \in WalksOf(C) /\ Rank(OrStep(w, below)) < Rank(w)
<1> DEFINE c == Head(w.d)  t == Head(w.s)  v == OrStep(w, below)
<1>1. w.done \in Seq(Kind(C)) /\ w.d \in Seq(Kind(C)) /\ w.s \in Seq(Kind(C))
  BY DEF WalksOf
<1>2. t \in Kind(C) /\ Tail(w.s) \in Seq(Kind(C)) /\ Len(Tail(w.s)) = Len(w.s) - 1 /\ Len(w.s) \in Nat \ {0}
  BY <1>1, AtFront, Zenon
<1>3. SUFFICES \E done \in Seq(Kind(C)), d \in Seq(Kind(C)), s \in Seq(Kind(C)) :
                 /\ v = Walk(done, d, s)
                 /\ (Len(s) < Len(w.s) /\ Len(d) <= Len(w.d) + 1) \/ (Len(s) <= Len(w.s) /\ Len(d) < Len(w.d))
  <2>1. PICK done \in Seq(Kind(C)), d \in Seq(Kind(C)), s \in Seq(Kind(C)) :
               /\ v = Walk(done, d, s)
               /\ (Len(s) < Len(w.s) /\ Len(d) <= Len(w.d) + 1) \/ (Len(s) <= Len(w.s) /\ Len(d) < Len(w.d))
    BY <1>3
  <2> HIDE DEF v
  <2>2. v \in WalksOf(C) /\ v.d = d /\ v.s = s
    BY <2>1, WalkTyped
  <2>3. Rank(v) < Rank(w)
    BY <2>1, <2>2, RankLess
  <2> QED  BY <2>2, <2>3 DEF v
<1>4. CASE w.d = <<>>
  <2>1. v = Walk(Append(w.done, t), w.d, Tail(w.s))
    BY <1>4 DEF OrStep
  <2>2. Append(w.done, t) \in Seq(Kind(C))
    BY <1>1, <1>2, AppendProperties
  <2>3. Len(Tail(w.s)) < Len(w.s) /\ Len(w.d) <= Len(w.d) + 1
    <3>1. Len(w.d) \in Nat
      BY <1>1, LenProperties
    <3> QED  BY <1>2, <3>1
  <2> HIDE DEF v, t
  <2> QED  BY <1>1, <1>2, <2>1, <2>2, <2>3
<1>5. CASE w.d # <<>>
  <2>1. c \in Kind(C) /\ Tail(w.d) \in Seq(Kind(C)) /\ Len(Tail(w.d)) = Len(w.d) - 1 /\ Len(w.d) \in Nat \ {0}
    BY <1>1, <1>5, AtFront, Zenon
  <2>2. CASE c.start >= t.end
    <3> DEFINE k == MergePrevious[w.done \o <<t, c>>]
    <3>1. v = Walk(Front(k), <<Last(k)>> \o Tail(w.d), Tail(w.s))
      BY <1>5, <2>2, Zenon DEF OrStep
    <3>2. Front(k) \in Seq(Kind(C)) /\ Last(k) \in Kind(C)
      <4> HIDE DEF c, t
      <4>1. w.done \o <<t>> \in Seq(Kind(C))
        BY <1>1, <1>2, EndOf, ZenonT(60)
      <4>2. w.done \o <<t, c>> = (w.done \o <<t>>) \o <<c>>
        <5>1. w.done \in Seq(Kind(C)) /\ t \in Kind(C) /\ c \in Kind(C)
          BY <1>1, <1>2, <2>1
        <5> QED  BY <5>1, TwoMore
      <4> DEFINE g == w.done \o <<t>>
      <4>3. k = MergePrevious[g \o <<c>>] /\ g \in Seq(Kind(C))
        BY <4>1, <4>2
      <4> HIDE DEF k, g
      <4>4. BehindKinds(C, c, k)
        BY <2>1, <4>3, MergeBehindTyped
      <4> QED  BY <4>4 DEF BehindKinds
    <3> HIDE DEF k
    <3>3. <<Last(k)>> \o Tail(w.d) \in Seq(Kind(C)) /\ Len(<<Last(k)>> \o Tail(w.d)) = Len(Tail(w.d)) + 1
      BY <2>1, <3>2, FrontOf, Zenon
    <3>4. Len(Tail(w.s)) < Len(w.s) /\ Len(<<Last(k)>> \o Tail(w.d)) <= Len(w.d) + 1
      BY <1>2, <2>1, <3>3
    <3> HIDE DEF v
    <3> QED  BY <1>2, <3>1, <3>2, <3>3, <3>4
  <2>3. CASE ~(c.start >= t.end) /\ t.start >= c.end
    <3>1. v = Walk(Append(w.done, c), Tail(w.d), w.s)
      BY <1>5, <2>3, Zenon DEF OrStep
    <3>2. Append(w.done, c) \in Seq(Kind(C))
      BY <1>1, <2>1, AppendProperties
    <3>3. Len(w.s) <= Len(w.s) /\ Len(Tail(w.d)) < Len(w.d)
      BY <1>2, <2>1
    <3> HIDE DEF v, c
    <3> QED  BY <1>1, <2>1, <3>1, <3>2, <3>3
  <2>4. CASE ~(c.start >= t.end) /\ ~(t.start >= c.end)
    <3>1. PICK left, k, right :
            /\ OrLeft(w.done, c, t, left)
            /\ Merged(Front(left), Last(left), t, below[Walk(<<>>, Last(left).subspan, t.subspan)],
                      Tail(w.d), k, right)
            /\ v = IF t.end > Head(right).end
                 THEN Walk(Append(Front(k), Head(right)), Tail(right),
                           <<[t EXCEPT !.start = Head(right).end]>> \o Tail(w.s))
                 ELSE Walk(Front(k), right, Tail(w.s))
      BY <1>5, <2>4, OrStepOverlaps
    <3> HIDE DEF v, c, t
    <3> DEFINE sub == below[Walk(<<>>, Last(left).subspan, t.subspan)]
    <3>2. /\ Front(left) \in Seq(Kind(C)) /\ Last(left) \in Kind(C)
          /\ Last(left).end = c.end /\ Last(left).subspan = c.subspan
      <4>1. LeftKinds(C, c, left)
        BY <1>1, <1>2, <2>1, <3>1, OrLeftTyped
      <4> QED  BY <4>1 DEF LeftKinds
    <3>3. sub \in C
      <4>1. c.subspan \in C /\ t.subspan \in C
        BY <1>2, <2>1 DEF Kind
      <4> QED  BY <3>2, <4>1
    <3>4. Merged(Front(left), Last(left), t, sub, Tail(w.d), k, right)
      BY <3>1
    <3> HIDE DEF sub
    <3> DEFINE hd == Head(right)  tl == Tail(right)
    <3>5. /\ Front(k) \in Seq(Kind(C)) /\ right = <<hd>> \o tl /\ hd \in Kind(C) /\ tl \in Seq(Kind(C))
          /\ Len(tl) <= Len(Tail(w.d)) \/ (hd.end = t.end /\ Len(tl) = Len(Tail(w.d)) + 1)
          /\ Len(tl) \in Nat
      <4> DEFINE F == Front(left)  e == Last(left)  E == Tail(w.d)
      <4>1. /\ F \in Seq(Kind(C)) /\ e \in Kind(C) /\ E \in Seq(Kind(C)) /\ t \in Kind(C) /\ sub \in C
            /\ Merged(F, e, t, sub, E, k, right)
        BY <1>2, <2>1, <3>2, <3>3, <3>4
      <4> HIDE DEF F, e, E
      <4>2. TurnKinds(C, E, t, sub, k, right)
        BY <4>1, TurnTyped
      <4> QED  BY <4>2 DEF E, TurnKinds
    <3>6. v = IF t.end > hd.end THEN Walk(Append(Front(k), hd), tl, <<[t EXCEPT !.start = hd.end]>> \o Tail(w.s))
              ELSE Walk(Front(k), right, Tail(w.s))
      BY <3>1
    <3> HIDE DEF hd, tl
    <3>7. hd.end \in Int /\ t.end \in Int
      BY <1>2, <3>5 DEF Kind
    <3>8. CASE t.end > hd.end
      <4> DEFINE n == [t EXCEPT !.start = hd.end]  s == <<n>> \o Tail(w.s)
      <4>1. Append(Front(k), hd) \in Seq(Kind(C))
        BY <3>5, AppendProperties
      <4>2. s \in Seq(Kind(C)) /\ Len(s) = Len(Tail(w.s)) + 1
        <5>1. n \in Kind(C)
          BY <1>2, <3>7 DEF Kind
        <5> HIDE DEF n
        <5> QED  BY <1>2, <5>1, FrontOf, Zenon
      <4>3. v = Walk(Append(Front(k), hd), tl, s)
        BY <3>6, <3>8
      <4> HIDE DEF s
      <4>4. Len(tl) <= Len(Tail(w.d))
        BY <3>5, <3>7, <3>8
      <4>5. Len(s) <= Len(w.s) /\ Len(tl) < Len(w.d)
        BY <1>2, <2>1, <3>5, <4>2, <4>4
      <4> QED  BY <3>5, <4>1, <4>2, <4>3, <4>5
    <3>9. CASE ~(t.end > hd.end)
      <4>1. v = Walk(Front(k), right, Tail(w.s))
        BY <3>6, <3>9
      <4>2. right \in Seq(Kind(C)) /\ Len(right) = Len(tl) + 1
        BY <3>5, FrontOf, Zenon
      <4>3. Len(Tail(w.s)) < Len(w.s) /\ Len(right) <= Len(w.d) + 1
        <5>1. Len(tl) <= Len(Tail(w.d)) + 1
          BY <2>1, <3>5
        <5> QED  BY <1>2, <2>1, <3>5, <4>2, <5>1
      <4> QED  BY <1>2, <3>5, <4>1, <4>2, <4>3
    <3> QED  BY <3>8, <3>9
  <2> QED  BY <2>2, <2>3, <2>4
<1> QED  BY <1>4, <1>5

-----------------------------------------------------------------------------
(* Walks in order.                                                           *)

\* What was done lies in front of what there is, and that of the source too.
Aligned(C, w) == Good(C, w.done) /\ Good(C, w.d) /\ Good(C, w.s) /\ Ahead(Range(w.done), Range(w.d))
Abreast(C, w) == Aligned(C, w) /\ Ahead(Range(w.done), Range(w.s))
Standing(m, w, p) ==
  p \in Area(m, Range(w.done)) \/ p \in Area(m, Range(w.d)) \/ p \in Area(m, Range(w.s))

\* The same with the current spans, c and t, apart from the rest.
Facing(C, done, c, D, t, S) ==
  /\ done \in Seq(Kind(C)) /\ c \in Kind(C) /\ D \in Seq(Kind(C)) /\ t \in Kind(C) /\ S \in Seq(Kind(C))
  /\ c.start \in Int /\ c.end \in Int /\ t.start \in Int /\ t.end \in Int
  /\ Good(C, done) /\ Good(C, D) /\ Good(C, S) /\ c.start < c.end /\ t.start < t.end
  /\ Ahead({c}, Range(D)) /\ Ahead({t}, Range(S)) /\ Ahead(Range(done), {c}) /\ Ahead(Range(done), Range(D))

\* A walk in order has its current spans facing each other.
LEMMA FacingParts ==
  ASSUME NEW C, NEW m, NEW w \in WalksOf(C), w.d # <<>>, w.s # <<>>, Aligned(C, w)
  PROVE  /\ Facing(C, w.done, Head(w.d), Tail(w.d), Head(w.s), Tail(w.s))
         /\ \A p : p \in Area(m, Range(w.d)) <=> p \in Area(m, Range(Tail(w.d))) \/ p \in Block(m, Head(w.d))
         /\ \A p : p \in Area(m, Range(w.s)) <=> p \in Area(m, Range(Tail(w.s))) \/ p \in Block(m, Head(w.s))
         /\ \A x : x \in Range(w.s) <=> x \in Range(Tail(w.s)) \/ x = Head(w.s)
<1> DEFINE c == Head(w.d)  D == Tail(w.d)  t == Head(w.s)  S == Tail(w.s)
<1>1. w.done \in Seq(Kind(C)) /\ w.d \in Seq(Kind(C)) /\ w.s \in Seq(Kind(C))
  BY DEF WalksOf
<1>2. /\ c \in Kind(C) /\ D \in Seq(Kind(C))
      /\ \A x : x \in Range(w.d) <=> x \in Range(D) \/ x = c
      /\ Good(C, w.d) <=> Good(C, D) /\ c.start < c.end /\ Ahead({c}, Range(D))
      /\ \A p : p \in Area(m, Range(w.d)) <=> p \in Area(m, Range(D)) \/ p \in Block(m, c)
  BY <1>1, HeadParts, Zenon
<1>3. /\ t \in Kind(C) /\ S \in Seq(Kind(C))
      /\ \A x : x \in Range(w.s) <=> x \in Range(S) \/ x = t
      /\ Good(C, w.s) <=> Good(C, S) /\ t.start < t.end /\ Ahead({t}, Range(S))
      /\ \A p : p \in Area(m, Range(w.s)) <=> p \in Area(m, Range(S)) \/ p \in Block(m, t)
  BY <1>1, HeadParts, Zenon
<1> HIDE DEF c, D, t, S
<1>4. Ahead(Range(w.done), {c}) /\ Ahead(Range(w.done), Range(D))
  BY <1>2 DEF Ahead, Aligned
<1>5. c.start \in Int /\ c.end \in Int /\ t.start \in Int /\ t.end \in Int
  BY <1>2, <1>3 DEF Kind
<1>6. Facing(C, w.done, c, D, t, S)
  BY <1>1, <1>2, <1>3, <1>4, <1>5 DEF Facing, Aligned
<1> QED  BY <1>2, <1>3, <1>6 DEF c, D, t, S

-----------------------------------------------------------------------------
(* A turn of sraSpanListOr.                                                  *)

\* The span of the source lies in front of the other.
PastParts(C, m, done, c, t, S, k) ==
  /\ Front(k) \in Seq(Kind(C)) /\ Last(k) \in Kind(C)
  /\ Good(C, Front(k)) /\ Last(k).start < Last(k).end /\ Last(k).end = c.end
  /\ Ahead(Range(Front(k)), {Last(k)}) /\ Ahead(Range(Front(k)), Range(S))
  /\ \A p : p \in Area(m, Range(Front(k))) \/ p \in Block(m, Last(k))
            <=> p \in Area(m, Range(done)) \/ p \in Block(m, t) \/ p \in Block(m, c)

\* A span of the source that lies in front is put in front.
LEMMA OrPast ==
  ASSUME NEW C, C \subseteq Seq(Spans), NEW m, NEW done, NEW c, NEW D, NEW t, NEW S,
         Facing(C, done, c, D, t, S), Ahead(Range(done), {t}), Ahead(Range(done), Range(S)), t.end <= c.start,
         NEW k, k = MergePrevious[done \o <<t, c>>]
  PROVE  PastParts(C, m, done, c, t, S, k)
<1> DEFINE g == done \o <<t>>
<1>1. /\ done \in Seq(Kind(C)) /\ c \in Kind(C) /\ t \in Kind(C)
      /\ Good(C, done) /\ c.start < c.end /\ t.start < t.end /\ Ahead({t}, Range(S)) /\ Ahead(Range(done), {c})
  BY DEF Facing
<1>2. /\ g \in Seq(Kind(C)) /\ \A x : x \in Range(g) <=> x \in Range(done) \/ x = t
      /\ Good(C, g) <=> Good(C, done) /\ t.start < t.end /\ Ahead(Range(done), {t})
      /\ \A p : p \in Area(m, Range(g)) <=> p \in Area(m, Range(done)) \/ p \in Block(m, t)
  BY <1>1, OneMore, Zenon
<1>3. done \o <<t, c>> = (done \o <<t>>) \o <<c>>
  BY <1>1, TwoMore
<1>4. k = MergePrevious[g \o <<c>>]
  BY <1>3
<1> HIDE DEF g
<1>5. Good(C, g) /\ Ahead(Range(g), {c})
  BY <1>1, <1>2 DEF Ahead
<1>6. Front(k) \in Seq(Kind(C)) /\ Last(k) \in Kind(C) /\ Last(k).end = c.end
  <2>1. BehindKinds(C, c, k)
    BY <1>1, <1>2, <1>4, MergeBehindTyped
  <2> QED  BY <2>1 DEF BehindKinds
<1>7. /\ Good(C, Front(k)) /\ Last(k).start < Last(k).end
      /\ Ahead(Range(Front(k)), {Last(k)}) /\ Range(Front(k)) \subseteq Range(g)
      /\ \A p : p \in Area(m, Range(Front(k))) \/ p \in Block(m, Last(k))
                <=> p \in Area(m, Range(g)) \/ p \in Block(m, c)
  <2>1. BehindParts(C, m, g, c, k)
    BY <1>1, <1>2, <1>4, <1>5, MergeBehindGood, Zenon
  <2> QED  BY <2>1 DEF BehindParts
<1>8. Ahead(Range(Front(k)), Range(S))
  BY <1>1, <1>2, <1>7 DEF Ahead
<1> QED  BY <1>2, <1>6, <1>7, <1>8 DEF PastParts

\* What the part that two spans share makes of them.
UnionOf(m, sub, x, y) == \A q : q \in m[sub] <=> q \in m[x] \/ q \in m[y]
MiddleFilled(m, e, t, sub, p0, p1) ==
  \A p : p \in Block(m, Common(e, t, sub)) \/ p \in Below(m, e, p0) \/ p \in From(m, e, p1)
         <=> p \in Block(m, e) \/ (p \in Below(m, t, p1) /\ p0 <= p[1])

\* The shared part has the points of both spans.
LEMMA MiddleOr ==
  ASSUME NEW C, NEW m, NEW e \in Kind(C), NEW t \in Kind(C), NEW sub \in C, Overlap(e, t),
         UnionOf(m, sub, e.subspan, t.subspan),
         NEW p0, p0 = Upper(e.start, t.start), NEW p1, p1 = Lower(e.end, t.end)
  PROVE  MiddleFilled(m, e, t, sub, p0, p1)
<1> DEFINE z == Common(e, t, sub)
<1>1. /\ z.start = p0 /\ z.end = p1 /\ z.subspan = sub
      /\ p0 \in Int /\ p1 \in Int /\ e.start \in Int /\ e.end \in Int /\ t.start \in Int /\ t.end \in Int
  <2>1. z.start = p0 /\ z.end = p1 /\ z.subspan = sub /\ p0 \in Int /\ p1 \in Int
    BY PiecesTyped
  <2> QED  BY <2>1 DEF Kind
<1>2. p0 < p1 /\ e.start <= p0 /\ p1 <= e.end /\ t.start <= p0 /\ p1 <= t.end
  BY PiecesGood
<1> HIDE DEF z
<1>3. ASSUME NEW p
      PROVE  p \in Block(m, z) \/ p \in Below(m, e, p0) \/ p \in From(m, e, p1)
             <=> p \in Block(m, e) \/ (p \in Below(m, t, p1) /\ p0 <= p[1])
  <2>1. CASE p \in Int \X Int
    <3>1. p \in Block(m, z) <=> p0 <= p[1] /\ p[1] < p1 /\ (p[2] \in m[e.subspan] \/ p[2] \in m[t.subspan])
      BY <1>1, <2>1 DEF Block, UnionOf
    <3>2. p \in Block(m, e) <=> e.start <= p[1] /\ p[1] < e.end /\ p[2] \in m[e.subspan]
      BY <2>1 DEF Block
    <3>3. p \in Block(m, t) <=> t.start <= p[1] /\ p[1] < t.end /\ p[2] \in m[t.subspan]
      BY <2>1 DEF Block
    <3>4. p[1] \in Int
      BY <2>1
    <3> QED  BY <1>1, <1>2, <3>1, <3>2, <3>3, <3>4 DEF Below, From
  <2>2. CASE p \notin Int \X Int
    BY <2>2 DEF Block, Below, From
  <2> QED  BY <2>1, <2>2
<1> QED  BY <1>3 DEF z, MiddleFilled

\* The spans overlap: what is left of the span of the source is what sticks out
\* behind the span they have become.
OverParts(C, m, done, c, D, t, k, right) ==
  /\ Among(C, Front(k), Head(right), Tail(right)) /\ Head(right).start < t.end /\ t.start < Head(right).end
  /\ \A p : \/ p \in Area(m, Range(Front(k))) \/ p \in Block(m, Head(right))
            \/ p \in Area(m, Range(Tail(right))) \/ p \in From(m, t, Head(right).end)
            <=> \/ p \in Area(m, Range(done)) \/ p \in Block(m, c)
                \/ p \in Area(m, Range(D)) \/ p \in Block(m, t)

\* Two spans that overlap become one with the points of both, but for what sticks out.
LEMMA OrOver ==
  ASSUME NEW C, C \subseteq Seq(Spans), NEW m, NEW done, NEW c, NEW D, NEW t, NEW S,
         Facing(C, done, c, D, t, S), Ahead(Range(done), {t}), Overlap(c, t),
         NEW left, OrLeft(done, c, t, left), NEW sub \in C,
         UnionOf(m, sub, c.subspan, t.subspan),
         NEW k, NEW right, Merged(Front(left), Last(left), t, sub, D, k, right)
  PROVE  OverParts(C, m, done, c, D, t, k, right)
<1> DEFINE F == Front(left)  e == Last(left)  hd == Head(right)  tl == Tail(right)
           p0 == Upper(e.start, t.start)  p1 == Lower(e.end, t.end)
<1>1. /\ done \in Seq(Kind(C)) /\ c \in Kind(C) /\ t \in Kind(C) /\ D \in Seq(Kind(C))
      /\ c.start \in Int /\ c.end \in Int /\ t.start \in Int /\ t.end \in Int
      /\ Good(C, done) /\ Good(C, D) /\ Ahead({c}, Range(D)) /\ Ahead(Range(done), {c})
  BY DEF Facing
<1>2. c.start < c.end /\ t.start < t.end /\ c.start < t.end /\ t.start < c.end
  BY DEF Overlap
<1>3. F \in Seq(Kind(C)) /\ e \in Kind(C) /\ e.end = c.end /\ e.subspan = c.subspan
  <2>1. LeftKinds(C, c, left)
    BY <1>1, OrLeftTyped, Zenon
  <2> QED  BY <2>1 DEF LeftKinds
<1>4. /\ Good(C, F) /\ e.start < e.end /\ Ahead(Range(F), {e}) /\ e.start <= c.start
      /\ ~(t.start < c.start) => e.start = c.start
      /\ \A p : p \in Area(m, Range(F)) \/ p \in Block(m, e)
                <=> p \in Area(m, Range(done)) \/ p \in Block(m, c) \/ p \in Below(m, t, c.start)
  <2>1. LeftParts(C, m, done, c, t, left)
    BY <1>1, <1>2, OrLeftGood, Zenon
  <2> QED  BY <2>1 DEF LeftParts
<1>5. Merged(F, e, t, sub, D, k, right)
  OBVIOUS
<1> HIDE DEF F, e
<1>6. Among(C, F, e, D)
  <2>1. Ahead({e}, Range(D))
    BY <1>1, <1>3 DEF Ahead
  <2> QED  BY <1>1, <1>4, <2>1 DEF Among
<1>7. Overlap(e, t)
  <2>1. e.start \in Int
    BY <1>3 DEF Kind
  <2> QED  BY <1>1, <1>2, <1>3, <1>4, <2>1 DEF Overlap
<1>8. /\ Among(C, Front(k), hd, tl) /\ hd.start <= p0 /\ p1 <= hd.end
      /\ \A p : \/ p \in Area(m, Range(Front(k))) \/ p \in Block(m, hd) \/ p \in Area(m, Range(tl))
                <=> \/ p \in Area(m, Range(F)) \/ p \in Area(m, Range(D))
                    \/ p \in Block(m, Common(e, t, sub)) \/ p \in Below(m, e, p0) \/ p \in From(m, e, p1)
  <2>1. TurnParts(C, m, F, e, t, sub, D, k, right, p0, p1)
    BY <1>1, <1>3, <1>5, <1>6, <1>7, TurnGood, Zenon
  <2> QED  BY <2>1 DEF TurnParts
<1>9. \A p : p \in Block(m, Common(e, t, sub)) \/ p \in Below(m, e, p0) \/ p \in From(m, e, p1)
             <=> p \in Block(m, e) \/ (p \in Below(m, t, p1) /\ p0 <= p[1])
  <2>1. UnionOf(m, sub, e.subspan, t.subspan)
    BY <1>3
  <2>2. MiddleFilled(m, e, t, sub, p0, p1)
    BY <1>1, <1>3, <1>7, <2>1, MiddleOr, Zenon
  <2> QED  BY <2>2 DEF MiddleFilled
<1>10. hd \in Kind(C) /\ hd.subspan = sub /\ hd.start \in Int /\ hd.end \in Int
  <2>1. hd \in Kind(C) /\ hd.subspan = sub
    <3>1. TurnKinds(C, D, t, sub, k, right)
      BY <1>1, <1>3, <1>5, TurnTyped, Zenon
    <3> QED  BY <3>1 DEF TurnKinds
  <2> QED  BY <2>1 DEF Kind
<1>11. /\ p0 \in Int /\ p1 \in Int /\ p0 < p1 /\ p1 <= t.end /\ t.start <= p0
       /\ t.start < c.start => p0 <= c.start
       /\ ~(t.start < c.start) => p0 = t.start
       /\ p1 = c.end \/ p1 = t.end
  <2>1. e.start \in Int /\ e.end \in Int
    BY <1>3 DEF Kind
  <2> QED  BY <1>1, <1>2, <1>3, <1>4, <1>7, <2>1 DEF Upper, Lower, Overlap
<1> HIDE DEF p0, p1, hd, tl
<1>12. hd.start < t.end /\ t.start < hd.end
  BY <1>1, <1>8, <1>10, <1>11
<1>13. ASSUME NEW p
       PROVE  \/ p \in Area(m, Range(Front(k))) \/ p \in Block(m, hd) \/ p \in Area(m, Range(tl))
              <=> \/ p \in Area(m, Range(done)) \/ p \in Block(m, c) \/ p \in Area(m, Range(D))
                  \/ p \in Below(m, t, p1)
  <2>1. p \in Below(m, t, p1) => p[1] \in Int /\ p \in Block(m, t) /\ p[1] < p1 /\ t.start <= p[1]
    BY DEF Below, Block
  <2>2. p \in Below(m, t, p1) <=> p \in Block(m, t) /\ p[1] < p1
    BY DEF Below
  <2>3. p \in Below(m, t, c.start) <=> p \in Block(m, t) /\ p[1] < c.start
    BY DEF Below
  <2>4. p \in Below(m, t, p1) <=> p \in Below(m, t, c.start) \/ (p \in Below(m, t, p1) /\ p0 <= p[1])
    <3>1. c.start <= p1
      BY <1>1, <1>2, <1>11
    <3>2. p \in Block(m, t) => p[1] \in Int /\ t.start <= p[1]
      BY DEF Block
    <3> QED  BY <1>1, <1>11, <2>2, <2>3, <3>1, <3>2
  <2> QED  BY <1>4, <1>8, <1>9, <2>4
<1>14. ASSUME NEW p
       PROVE  p \in Block(m, t) <=> \/ p \in Below(m, t, p1) \/ p \in From(m, t, hd.end)
                                    \/ (p \in Block(m, t) /\ p1 <= p[1] /\ p[1] < hd.end)
  <2>1. p \in Block(m, t) => p[1] \in Int
    BY DEF Block
  <2> QED  BY <1>10, <1>11, <2>1 DEF Below, From
<1>15. ASSUME NEW p, p \in Block(m, t), p1 <= p[1], p[1] < hd.end PROVE p \in Block(m, hd)
  <2>1. p \in Int \X Int /\ p[1] \in Int /\ p[2] \in m[t.subspan]
    BY <1>15 DEF Block
  <2>2. hd.start <= p[1] /\ p[2] \in m[hd.subspan]
    BY <1>8, <1>10, <1>11, <1>15, <2>1 DEF UnionOf
  <2> QED  BY <1>15, <2>1, <2>2 DEF Block
<1>16. \A p : \/ p \in Area(m, Range(Front(k))) \/ p \in Block(m, hd)
              \/ p \in Area(m, Range(tl)) \/ p \in From(m, t, hd.end)
              <=> \/ p \in Area(m, Range(done)) \/ p \in Block(m, c)
                  \/ p \in Area(m, Range(D)) \/ p \in Block(m, t)
  BY <1>13, <1>14, <1>15
<1> QED  BY <1>8, <1>12, <1>16 DEF hd, tl, OverParts

\* A good list with a span before it, and behind it.
LEMMA ConsParts ==
  ASSUME NEW C, NEW m, NEW c \in Kind(C), NEW l \in Seq(Kind(C)), Good(C, l), c.start < c.end, Ahead({c}, Range(l))
  PROVE  /\ Good(C, <<c>> \o l) /\ \A x : x \in Range(<<c>> \o l) <=> x \in Range(l) \/ x = c
         /\ \A p : p \in Area(m, Range(<<c>> \o l)) <=> p \in Area(m, Range(l)) \/ p \in Block(m, c)
<1>1. Good(C, <<c>> \o l)
  BY OneBefore, Zenon
<1>2. \A x : x \in Range(<<c>> \o l) <=> x \in Range(l) \/ x = c
  BY OneBefore, Zenon
<1>3. \A p : p \in Area(m, Range(<<c>> \o l)) <=> p \in Area(m, Range(l)) \/ p \in Block(m, c)
  BY OneBefore, Zenon
<1> QED  BY <1>1, <1>2, <1>3

LEMMA AppendParts ==
  ASSUME NEW C, NEW m, NEW c \in Kind(C), NEW l \in Seq(Kind(C)), Good(C, l), c.start < c.end, Ahead(Range(l), {c})
  PROVE  /\ Good(C, Append(l, c)) /\ \A x : x \in Range(Append(l, c)) <=> x \in Range(l) \/ x = c
         /\ \A p : p \in Area(m, Range(Append(l, c))) <=> p \in Area(m, Range(l)) \/ p \in Block(m, c)
<1>1. Append(l, c) = l \o <<c>>
  BY EndOf, ZenonT(60)
<1> DEFINE k == l \o <<c>>
<1>2. Good(C, k)
  BY OneMore, Zenon
<1>3. \A x : x \in Range(k) <=> x \in Range(l) \/ x = c
  BY OneMore, Zenon
<1>4. \A p : p \in Area(m, Range(k)) <=> p \in Area(m, Range(l)) \/ p \in Block(m, c)
  BY OneMore, Zenon
<1>5. Append(l, c) = k
  BY <1>1
<1> HIDE DEF k
<1> QED  BY <1>2, <1>3, <1>4, <1>5

\* What the walks need to be in order after a turn.
LEMMA AbreastWhen ==
  ASSUME NEW C, NEW done, NEW d, NEW s, Good(C, done), Good(C, d), Good(C, s),
         Ahead(Range(done), Range(d)), Ahead(Range(done), Range(s))
  PROVE  Abreast(C, Walk(done, d, s))
BY DEF Abreast, Aligned, Walk

\* The points of a walk, part by part.
LEMMA StandingParts ==
  ASSUME NEW m, NEW done, NEW d, NEW s, NEW p
  PROVE  Standing(m, Walk(done, d, s), p)
         <=> p \in Area(m, Range(done)) \/ p \in Area(m, Range(d)) \/ p \in Area(m, Range(s))
BY DEF Standing, Walk

\* `below' is the union of two contents.
Unites(C, m, below) ==
  \A x, y \in C : /\ below[Walk(<<>>, x, y)] \in C
                  /\ UnionOf(m, below[Walk(<<>>, x, y)], x, y)

\* A turn of OrStep keeps the order and loses or adds no point.
LEMMA OrStepGood ==
  ASSUME NEW C, C \subseteq Seq(Spans), NEW m, NEW below, Unites(C, m, below),
         NEW w \in WalksOf(C), w.s # <<>>, Abreast(C, w)
  PROVE  /\ Abreast(C, OrStep(w, below))
         /\ \A p : Standing(m, OrStep(w, below), p) <=> Standing(m, w, p)
<1> DEFINE c == Head(w.d)  D == Tail(w.d)  t == Head(w.s)  S == Tail(w.s)  done == w.done
           v == OrStep(w, below)
<1>0. Good(C, done) /\ Good(C, w.d) /\ Good(C, w.s) /\ Ahead(Range(done), Range(w.d)) /\ Ahead(Range(done), Range(w.s))
  BY DEF Abreast, Aligned
<1>1. CASE w.d = <<>>
  <2>1. v = Walk(Append(done, t), w.d, S)
    BY <1>1 DEF OrStep
  <2>2. w.s \in Seq(Kind(C)) /\ done \in Seq(Kind(C))
    BY DEF WalksOf
  <2>3. /\ t \in Kind(C) /\ S \in Seq(Kind(C))
        /\ \A x : x \in Range(w.s) <=> x \in Range(S) \/ x = t
        /\ Good(C, w.s) <=> Good(C, S) /\ t.start < t.end /\ Ahead({t}, Range(S))
        /\ \A p : p \in Area(m, Range(w.s)) <=> p \in Area(m, Range(S)) \/ p \in Block(m, t)
    BY <2>2, HeadParts, Zenon
  <2> HIDE DEF v, t, S, done
  <2>4. Good(C, S) /\ t.start < t.end /\ Ahead({t}, Range(S)) /\ Ahead(Range(done), {t})
    BY <1>0, <2>3 DEF Ahead
  <2>5. /\ Good(C, Append(done, t)) /\ \A x : x \in Range(Append(done, t)) <=> x \in Range(done) \/ x = t
        /\ \A p : p \in Area(m, Range(Append(done, t))) <=> p \in Area(m, Range(done)) \/ p \in Block(m, t)
    BY <1>0, <2>2, <2>3, <2>4, AppendParts, Zenon
  <2>6. Ahead(Range(Append(done, t)), Range(w.d)) /\ Ahead(Range(Append(done, t)), Range(S))
    <3>1. Range(w.d) = {}
      BY <1>1, RangeNone
    <3>2. Ahead(Range(done), Range(S))
      BY <1>0, <2>3 DEF Ahead
    <3> QED  BY <2>4, <2>5, <3>1, <3>2 DEF Ahead
  <2>7. Abreast(C, v)
    BY <1>0, <2>1, <2>4, <2>5, <2>6, AbreastWhen
  <2>8. ASSUME NEW p PROVE Standing(m, v, p) <=> Standing(m, w, p)
    <3>1. Standing(m, v, p) <=> p \in Area(m, Range(Append(done, t))) \/ p \in Area(m, Range(w.d)) \/ p \in Area(m, Range(S))
      BY <2>1, StandingParts
    <3> QED  BY <2>3, <2>5, <3>1 DEF Standing, done
  <2> QED  BY <2>7, <2>8 DEF v
<1>2. CASE w.d # <<>>
  <2>1. /\ Facing(C, done, c, D, t, S)
        /\ \A p : p \in Area(m, Range(w.d)) <=> p \in Area(m, Range(D)) \/ p \in Block(m, c)
        /\ \A p : p \in Area(m, Range(w.s)) <=> p \in Area(m, Range(S)) \/ p \in Block(m, t)
        /\ \A x : x \in Range(w.s) <=> x \in Range(S) \/ x = t
    <3>1. Aligned(C, w)
      BY DEF Abreast
    <3> QED  BY <1>2, <3>1, FacingParts, Zenon
  <2>2. CASE c.start >= t.end
    <3> DEFINE k == MergePrevious[done \o <<t, c>>]
    <3>1. v = Walk(Front(k), <<Last(k)>> \o D, S)
      BY <1>2, <2>2, Zenon DEF OrStep
    <3>2. k = MergePrevious[done \o <<t, c>>]
      OBVIOUS
    <3> HIDE DEF v, t, S, done, c, D, k
    <3>3. /\ D \in Seq(Kind(C)) /\ Good(C, D) /\ Good(C, S) /\ Ahead({c}, Range(D)) /\ c.start \in Int /\ t.end \in Int
      BY <2>1 DEF Facing
    <3>4. Ahead(Range(done), {t}) /\ Ahead(Range(done), Range(S)) /\ t.end <= c.start
      BY <1>0, <2>1, <2>2, <3>3 DEF Ahead
    <3>5. /\ Front(k) \in Seq(Kind(C)) /\ Last(k) \in Kind(C)
          /\ Good(C, Front(k)) /\ Last(k).start < Last(k).end /\ Last(k).end = c.end
          /\ Ahead(Range(Front(k)), {Last(k)}) /\ Ahead(Range(Front(k)), Range(S))
          /\ \A p : p \in Area(m, Range(Front(k))) \/ p \in Block(m, Last(k))
                    <=> p \in Area(m, Range(done)) \/ p \in Block(m, t) \/ p \in Block(m, c)
      <4>1. PastParts(C, m, done, c, t, S, k)
        BY <2>1, <3>2, <3>4, OrPast, Zenon
      <4> QED  BY <4>1 DEF PastParts
    <3> DEFINE f == Front(k)  z == Last(k)
    <3> HIDE DEF f, z
    <3>6. /\ f \in Seq(Kind(C)) /\ z \in Kind(C) /\ Good(C, f) /\ z.start < z.end /\ z.end = c.end
          /\ Ahead(Range(f), {z}) /\ Ahead(Range(f), Range(S))
          /\ \A p : p \in Area(m, Range(f)) \/ p \in Block(m, z)
                    <=> p \in Area(m, Range(done)) \/ p \in Block(m, t) \/ p \in Block(m, c)
      BY <3>5 DEF f, z
    <3>7. Ahead({z}, Range(D))
      BY <3>3, <3>6 DEF Ahead
    <3>8. /\ Good(C, <<z>> \o D) /\ \A x : x \in Range(<<z>> \o D) <=> x \in Range(D) \/ x = z
          /\ \A p : p \in Area(m, Range(<<z>> \o D)) <=> p \in Area(m, Range(D)) \/ p \in Block(m, z)
      BY <3>3, <3>6, <3>7, ConsParts, Zenon
    <3>9. v = Walk(f, <<z>> \o D, S)
      BY <3>1 DEF f, z
    <3>10. Ahead(Range(f), Range(<<z>> \o D))
      <4>1. \A x \in Range(f), y \in Range(D) : x.end <= z.start /\ z.start <= z.end /\ z.end <= y.start
        <5>1. z.start \in Int /\ z.end \in Int
          BY <3>6 DEF Kind
        <5> QED  BY <3>6, <3>7, <5>1 DEF Ahead
      <4>2. \A x \in Range(f), y \in Range(D) : x.end \in Int /\ z.start \in Int /\ z.end \in Int /\ y.start \in Int
        <5>1. Range(f) \subseteq Kind(C) /\ Range(D) \subseteq Kind(C)
          BY <3>3, <3>6, RangeOfSeq
        <5> QED  BY <3>6, <5>1 DEF Kind
      <4>3. \A x \in Range(f), y \in Range(D) : x.end <= y.start
        BY <4>1, <4>2
      <4> QED  BY <3>6, <3>8, <4>3 DEF Ahead
    <3>11. Abreast(C, v)
      BY <3>3, <3>6, <3>8, <3>9, <3>10, AbreastWhen
    <3>12. ASSUME NEW p PROVE Standing(m, v, p) <=> Standing(m, w, p)
      <4>1. Standing(m, v, p) <=> p \in Area(m, Range(f)) \/ p \in Area(m, Range(<<z>> \o D)) \/ p \in Area(m, Range(S))
        BY <3>9, StandingParts
      <4> QED  BY <2>1, <3>6, <3>8, <4>1 DEF Standing, done
    <3> QED  BY <3>11, <3>12 DEF v
  <2>3. CASE ~(c.start >= t.end) /\ t.start >= c.end
    <3>1. v = Walk(Append(done, c), D, w.s)
      BY <1>2, <2>3, Zenon DEF OrStep
    <3> HIDE DEF v, t, S, done, c, D
    <3>2. /\ done \in Seq(Kind(C)) /\ c \in Kind(C) /\ Good(C, D) /\ c.start < c.end /\ t.start < t.end
          /\ Ahead({c}, Range(D)) /\ Ahead(Range(done), {c}) /\ Ahead(Range(done), Range(D)) /\ Ahead({t}, Range(S))
          /\ c.end \in Int /\ t.start \in Int /\ t.end \in Int /\ S \in Seq(Kind(C))
      BY <2>1 DEF Facing
    <3>3. /\ Good(C, Append(done, c)) /\ \A x : x \in Range(Append(done, c)) <=> x \in Range(done) \/ x = c
          /\ \A p : p \in Area(m, Range(Append(done, c))) <=> p \in Area(m, Range(done)) \/ p \in Block(m, c)
      BY <1>0, <3>2, AppendParts, Zenon
    <3>4. Ahead({c}, Range(w.s))
      <4>1. \A y \in Range(S) : t.end <= y.start /\ y.start \in Int
        <5>1. Range(S) \subseteq Kind(C)
          BY <3>2, RangeOfSeq
        <5> QED  BY <3>2, <5>1 DEF Kind, Ahead
      <4>2. \A y \in Range(S) : c.end <= y.start
        BY <2>3, <3>2, <4>1
      <4>3. c.end <= t.start
        BY <2>3, <3>2
      <4> QED  BY <2>1, <4>2, <4>3 DEF Ahead
    <3>5. Ahead(Range(Append(done, c)), Range(D)) /\ Ahead(Range(Append(done, c)), Range(w.s))
      BY <1>0, <3>2, <3>3, <3>4 DEF Ahead
    <3>6. Abreast(C, v)
      BY <1>0, <3>1, <3>2, <3>3, <3>5, AbreastWhen
    <3>7. ASSUME NEW p PROVE Standing(m, v, p) <=> Standing(m, w, p)
      <4>1. Standing(m, v, p) <=> p \in Area(m, Range(Append(done, c))) \/ p \in Area(m, Range(D)) \/ p \in Area(m, Range(w.s))
        BY <3>1, StandingParts
      <4> QED  BY <2>1, <3>3, <4>1 DEF Standing, done
    <3> QED  BY <3>6, <3>7 DEF v
  <2>4. CASE ~(c.start >= t.end) /\ ~(t.start >= c.end)
    <3>1. PICK left, k, right :
            /\ OrLeft(done, c, t, left)
            /\ Merged(Front(left), Last(left), t, below[Walk(<<>>, Last(left).subspan, t.subspan)], D, k, right)
            /\ v = IF t.end > Head(right).end
                 THEN Walk(Append(Front(k), Head(right)), Tail(right), <<[t EXCEPT !.start = Head(right).end]>> \o S)
                 ELSE Walk(Front(k), right, S)
      BY <1>2, <2>4, OrStepOverlaps
    <3> HIDE DEF v, t, S, done, c, D
    <3>2. /\ done \in Seq(Kind(C)) /\ c \in Kind(C) /\ t \in Kind(C) /\ D \in Seq(Kind(C)) /\ S \in Seq(Kind(C))
          /\ Good(C, S) /\ c.start < c.end /\ t.start < t.end /\ Ahead({t}, Range(S))
          /\ c.start \in Int /\ c.end \in Int /\ t.start \in Int /\ t.end \in Int
      BY <2>1 DEF Facing
    <3>3. Overlap(c, t)
      BY <2>4, <3>2 DEF Overlap
    <3>4. Last(left).subspan = c.subspan
      <4>1. LeftKinds(C, c, left)
        <5>1. LeftKinds(C, c, left)
          BY <3>1, <3>2, OrLeftTyped, Zenon
        <5> QED  BY <5>1 DEF LeftKinds
      <4> QED  BY <4>1 DEF LeftKinds
    <3> DEFINE sub == below[Walk(<<>>, c.subspan, t.subspan)]
    <3>5. sub \in C /\ UnionOf(m, sub, c.subspan, t.subspan)
      <4>1. c.subspan \in C /\ t.subspan \in C
        BY <3>2 DEF Kind
      <4> QED  BY <4>1 DEF Unites
    <3>6. Merged(Front(left), Last(left), t, sub, D, k, right)
      BY <3>1, <3>4
    <3> HIDE DEF sub
    <3>7. Ahead(Range(done), {t})
      BY <1>0, <2>1 DEF Ahead
    <3> DEFINE f == Front(k)  hd == Head(right)  tl == Tail(right)
    <3>8. /\ Among(C, f, hd, tl) /\ hd.start < t.end /\ t.start < hd.end
          /\ \A p : \/ p \in Area(m, Range(f)) \/ p \in Block(m, hd)
                    \/ p \in Area(m, Range(tl)) \/ p \in From(m, t, hd.end)
                    <=> \/ p \in Area(m, Range(done)) \/ p \in Block(m, c)
                        \/ p \in Area(m, Range(D)) \/ p \in Block(m, t)
      <4>1. OverParts(C, m, done, c, D, t, k, right)
        BY <2>1, <3>1, <3>3, <3>5, <3>6, <3>7, OrOver, Zenon
      <4> QED  BY <4>1 DEF OverParts
    <3>9. f \in Seq(Kind(C)) /\ right = <<hd>> \o tl /\ hd \in Kind(C) /\ tl \in Seq(Kind(C))
      <4> DEFINE F == Front(left)  e == Last(left)
      <4>1. F \in Seq(Kind(C)) /\ e \in Kind(C)
        <5>1. LeftKinds(C, c, left)
          BY <3>1, <3>2, OrLeftTyped, Zenon
        <5> QED  BY <5>1 DEF LeftKinds
      <4>2. Merged(F, e, t, sub, D, k, right)
        BY <3>6
      <4> HIDE DEF F, e
      <4>3. TurnKinds(C, D, t, sub, k, right)
        BY <3>2, <3>5, <4>1, <4>2, TurnTyped, Zenon
      <4> QED  BY <4>3 DEF TurnKinds
    <3>10. v = IF t.end > hd.end THEN Walk(Append(f, hd), tl, <<[t EXCEPT !.start = hd.end]>> \o S)
               ELSE Walk(f, right, S)
      BY <3>1
    <3> HIDE DEF f, hd, tl
    <3>11. /\ Good(C, f) /\ Good(C, tl) /\ hd.start < hd.end /\ Ahead(Range(f), {hd}) /\ Ahead({hd}, Range(tl))
           /\ hd.start \in Int /\ hd.end \in Int /\ Range(f) \subseteq Kind(C) /\ Range(S) \subseteq Kind(C)
           /\ Range(tl) \subseteq Kind(C)
      BY <3>2, <3>8, <3>9, RangeOfSeq DEF Among, Kind
    <3>12. \A x \in Range(f) : x.end <= hd.start /\ x.end \in Int
      BY <3>11 DEF Ahead, Kind
    <3>13. \A y \in Range(S) : t.end <= y.start /\ y.start \in Int
      BY <3>2, <3>11 DEF Ahead, Kind
    <3>14. \A y \in Range(tl) : hd.end <= y.start /\ y.start \in Int
      BY <3>11 DEF Ahead, Kind
    <3>15. CASE t.end > hd.end
      <4> DEFINE n == [t EXCEPT !.start = hd.end]  s == <<n>> \o S
      <4>1. v = Walk(Append(f, hd), tl, s)
        BY <3>10, <3>15
      <4>2. /\ n \in Kind(C) /\ n.start = hd.end /\ n.end = t.end
            /\ \A p : p \in Block(m, n) <=> p \in From(m, t, hd.end)
        <5>1. t.start <= hd.end
          BY <3>2, <3>8, <3>11
        <5>2. ShortParts(C, m, t, hd.end, n)
          BY <3>2, <3>11, Shortened
        <5> HIDE DEF n
        <5> QED  BY <5>1, <5>2 DEF ShortParts
      <4> HIDE DEF n
      <4>3. n.start < n.end /\ Ahead({n}, Range(S))
        BY <3>2, <3>11, <3>13, <3>15, <4>2 DEF Ahead
      <4>4. /\ Good(C, s) /\ \A x : x \in Range(s) <=> x \in Range(S) \/ x = n
            /\ \A p : p \in Area(m, Range(s)) <=> p \in Area(m, Range(S)) \/ p \in Block(m, n)
        BY <3>2, <4>2, <4>3, ConsParts, Zenon
      <4> HIDE DEF s
      <4> DEFINE g == Append(f, hd)
      <4>5. /\ Good(C, g) /\ \A x : x \in Range(g) <=> x \in Range(f) \/ x = hd
            /\ \A p : p \in Area(m, Range(g)) <=> p \in Area(m, Range(f)) \/ p \in Block(m, hd)
        BY <3>9, <3>11, AppendParts, Zenon
      <4>6. v = Walk(g, tl, s)
        BY <4>1
      <4> HIDE DEF g
      <4>7. Ahead(Range(g), Range(tl))
        <5>1. \A x \in Range(f), y \in Range(tl) : x.end <= y.start
          BY <3>11, <3>12, <3>14
        <5> QED  BY <3>14, <4>5, <5>1 DEF Ahead
      <4>8. Ahead(Range(g), Range(s))
        <5>1. \A x \in Range(f) : x.end <= n.start
          BY <3>11, <3>12, <4>2
        <5>2. hd.end <= n.start
          BY <3>11, <4>2
        <5>3. \A x \in Range(f), y \in Range(S) : x.end <= y.start
          BY <3>2, <3>11, <3>12, <3>13, <3>15
        <5>4. \A y \in Range(S) : hd.end <= y.start
          BY <3>2, <3>11, <3>13, <3>15
        <5> QED  BY <4>4, <4>5, <5>1, <5>2, <5>3, <5>4 DEF Ahead
      <4>9. Abreast(C, v)
        BY <3>11, <4>4, <4>5, <4>6, <4>7, <4>8, AbreastWhen
      <4>10. ASSUME NEW p PROVE Standing(m, v, p) <=> Standing(m, w, p)
        <5>1. Standing(m, v, p) <=> p \in Area(m, Range(g)) \/ p \in Area(m, Range(tl)) \/ p \in Area(m, Range(s))
          BY <4>6, StandingParts
        <5> QED  BY <2>1, <3>8, <4>2, <4>4, <4>5, <5>1 DEF Standing, done
      <4> QED  BY <4>9, <4>10 DEF v
    <3>16. CASE ~(t.end > hd.end)
      <4>1. v = Walk(f, right, S)
        BY <3>10, <3>16
      <4>2. /\ Good(C, <<hd>> \o tl) /\ \A x : x \in Range(<<hd>> \o tl) <=> x \in Range(tl) \/ x = hd
            /\ \A p : p \in Area(m, Range(<<hd>> \o tl)) <=> p \in Area(m, Range(tl)) \/ p \in Block(m, hd)
        BY <3>9, <3>11, ConsParts, Zenon
      <4> DEFINE d == <<hd>> \o tl
      <4>3. v = Walk(f, d, S)
        BY <3>9, <4>1
      <4> HIDE DEF d
      <4>4. /\ Good(C, d) /\ \A x : x \in Range(d) <=> x \in Range(tl) \/ x = hd
            /\ \A p : p \in Area(m, Range(d)) <=> p \in Area(m, Range(tl)) \/ p \in Block(m, hd)
        BY <4>2 DEF d
      <4>5. Ahead(Range(f), Range(d))
        <5>1. \A x \in Range(f), y \in Range(tl) : x.end <= y.start
          BY <3>11, <3>12, <3>14
        <5> QED  BY <3>12, <4>4, <5>1 DEF Ahead
      <4>6. Ahead(Range(f), Range(S))
        <5>1. \A x \in Range(f), y \in Range(S) : x.end <= y.start
          BY <3>2, <3>8, <3>11, <3>12, <3>13
        <5> QED  BY <5>1 DEF Ahead
      <4>7. Abreast(C, v)
        BY <3>2, <3>11, <4>3, <4>4, <4>5, <4>6, AbreastWhen
      <4>8. \A p : p \notin From(m, t, hd.end)
        <5>1. ASSUME NEW p, p \in From(m, t, hd.end) PROVE FALSE
          <6>1. p[1] \in Int /\ hd.end <= p[1] /\ p[1] < t.end
            BY <5>1 DEF From, Block
          <6> QED  BY <3>2, <3>11, <3>16, <6>1
        <5> QED  BY <5>1
      <4>9. ASSUME NEW p PROVE Standing(m, v, p) <=> Standing(m, w, p)
        <5>1. Standing(m, v, p) <=> p \in Area(m, Range(f)) \/ p \in Area(m, Range(d)) \/ p \in Area(m, Range(S))
          BY <4>3, StandingParts
        <5> QED  BY <2>1, <3>8, <4>4, <4>8, <5>1 DEF Standing, done
      <4> QED  BY <4>7, <4>9 DEF v
    <3> QED  BY <3>15, <3>16
  <2> QED  BY <2>2, <2>3, <2>4
<1> QED  BY <1>1, <1>2

-----------------------------------------------------------------------------
(* What lies where around the current spans.                                 *)

Placed(m, done, c, D, t, S, p) ==
  /\ p \in Area(m, Range(done)) => p[1] \in Int /\ p[1] < c.start
  /\ p \in Block(m, c) => p[1] \in Int /\ c.start <= p[1] /\ p[1] < c.end
  /\ p \in Area(m, Range(D)) => p[1] \in Int /\ c.end <= p[1]
  /\ p \in Block(m, t) => p[1] \in Int /\ t.start <= p[1] /\ p[1] < t.end
  /\ p \in Area(m, Range(S)) => p[1] \in Int /\ t.end <= p[1]

\* Points in front, within and behind the current spans.
LEMMA PointsPlaced ==
  ASSUME NEW C, NEW m, NEW done, NEW c, NEW D, NEW t, NEW S, Facing(C, done, c, D, t, S), NEW p
  PROVE  Placed(m, done, c, D, t, S, p)
<1>1. /\ Range(done) \in SUBSET Kind(C) /\ Range(D) \in SUBSET Kind(C) /\ Range(S) \in SUBSET Kind(C)
      /\ c \in Kind(C) /\ t \in Kind(C)
      /\ Ahead({c}, Range(D)) /\ Ahead({t}, Range(S)) /\ Ahead(Range(done), {c})
  BY RangeOfSeq DEF Facing
<1>2. p \in Area(m, Range(done)) => p[1] \in Int /\ p[1] < c.start
  BY <1>1, PointsBefore
<1>3. p \in Area(m, Range(D)) => p[1] \in Int /\ c.end <= p[1]
  BY <1>1, PointsAfter
<1>4. p \in Area(m, Range(S)) => p[1] \in Int /\ t.end <= p[1]
  BY <1>1, PointsAfter
<1>5. p \in Block(m, c) => p[1] \in Int /\ c.start <= p[1] /\ p[1] < c.end
  BY PointsOf
<1>6. p \in Block(m, t) => p[1] \in Int /\ t.start <= p[1] /\ p[1] < t.end
  BY PointsOf
<1> QED  BY <1>2, <1>3, <1>4, <1>5, <1>6 DEF Placed

\* What t leaves of the current span behind it, in front of the rest.
RestParts(C, m, c, D, p1, rest) ==
  /\ rest \in Seq(Kind(C)) /\ Good(C, rest) /\ \A x \in Range(rest) : p1 <= x.start
  /\ \A p : p \in Area(m, Range(rest)) <=> p \in From(m, c, p1) \/ p \in Area(m, Range(D))

\* The rest is in order, and has the points from the end of the shared part on.
LEMMA RestGood ==
  ASSUME NEW C, NEW m, NEW done, NEW c, NEW D, NEW t, NEW S, Facing(C, done, c, D, t, S), Overlap(c, t),
         NEW p1, p1 = Lower(c.end, t.end), NEW rest, rest = Behind(c, t) \o D
  PROVE  RestParts(C, m, c, D, p1, rest)
<1> DEFINE b == Behind(c, t)
<1>1. /\ c \in Kind(C) /\ t \in Kind(C) /\ D \in Seq(Kind(C)) /\ Good(C, D) /\ Ahead({c}, Range(D))
      /\ c.end \in Int /\ t.end \in Int
  BY DEF Facing
<1>2. b \in Seq(Kind(C))
  <2>1. c.subspan \in C
    BY <1>1 DEF Kind
  <2> QED  BY <1>1, <2>1, PiecesTyped, Zenon
<1>3. /\ Good(C, b) /\ Spanning(Range(b), p1, c.end) /\ p1 <= c.end
      /\ \A p : p \in Area(m, Range(b)) <=> p \in From(m, c, p1)
  <2>1. Good(C, b) /\ Spanning(Range(b), Lower(c.end, t.end), c.end) /\ Lower(c.end, t.end) <= c.end
    BY <1>1, PiecesGood, Zenon
  <2>2. \A p : p \in Area(m, Range(b)) <=> p \in From(m, c, Lower(c.end, t.end))
    BY <1>1, PiecesGood, Zenon
  <2> HIDE DEF b
  <2> QED  BY <2>1, <2>2
<1>4. p1 \in Int
  BY <1>1 DEF Lower
<1> HIDE DEF b
<1>5. /\ b \o D \in Seq(Kind(C)) /\ \A x : x \in Range(b \o D) <=> x \in Range(b) \/ x \in Range(D)
      /\ Good(C, b \o D) <=> Good(C, b) /\ Good(C, D) /\ Ahead(Range(b), Range(D))
      /\ \A p : p \in Area(m, Range(b \o D)) <=> p \in Area(m, Range(b)) \/ p \in Area(m, Range(D))
  BY <1>1, <1>2, ConcatParts, Zenon
<1>6. rest = b \o D
  BY DEF b
<1>7. Ahead(Range(b), Range(D))
  BY <1>1, <1>3 DEF Ahead, Spanning
<1>8. \A x \in Range(D) : p1 <= x.start
  <2>1. Range(D) \subseteq Kind(C)
    BY <1>1, RangeOfSeq
  <2>2. \A x \in Range(D) : c.end <= x.start /\ x.start \in Int
    BY <1>1, <2>1 DEF Ahead, Kind
  <2> QED  BY <1>1, <1>3, <1>4, <2>2
<1>9. \A x \in Range(b) : p1 <= x.start
  BY <1>3, <1>4 DEF Spanning
<1> DEFINE r == b \o D
<1>10. /\ r \in Seq(Kind(C)) /\ \A x : x \in Range(r) <=> x \in Range(b) \/ x \in Range(D)
       /\ Good(C, r)
       /\ \A p : p \in Area(m, Range(r)) <=> p \in Area(m, Range(b)) \/ p \in Area(m, Range(D))
       /\ rest = r
  BY <1>1, <1>3, <1>5, <1>6, <1>7
<1> HIDE DEF r
<1> QED  BY <1>3, <1>8, <1>9, <1>10 DEF RestParts

-----------------------------------------------------------------------------
(* A turn of sraSpanListAnd.                                                 *)

Meeting(m, w, p) ==
  p \in Area(m, Range(w.done)) \/ (p \in Area(m, Range(w.d)) /\ p \in Area(m, Range(w.s)))

MeetOf(m, sub, x, y) == \A q : q \in m[sub] <=> q \in m[x] /\ q \in m[y]
Apart(m, x, y)       == \A q : ~(q \in m[x] /\ q \in m[y])

\* What of two spans overlaps.
LEMMA MiddleAnd ==
  ASSUME NEW C, NEW m, NEW c \in Kind(C), NEW t \in Kind(C), NEW sub, Overlap(c, t), MeetOf(m, sub, c.subspan, t.subspan)
  PROVE  \A p : p \in Block(m, Common(c, t, sub)) <=> p \in Block(m, c) /\ p \in Block(m, t)
<1> DEFINE z == Common(c, t, sub)
<1>1. z.start = Upper(c.start, t.start) /\ z.end = Lower(c.end, t.end) /\ z.subspan = sub
  BY DEF Common, Span
<1>2. c.start \in Int /\ c.end \in Int /\ t.start \in Int /\ t.end \in Int
  BY DEF Kind
<1> HIDE DEF z
<1>3. ASSUME NEW p PROVE p \in Block(m, z) <=> p \in Block(m, c) /\ p \in Block(m, t)
  <2>1. CASE p \in Int \X Int
    <3>1. \A x \in Int : Upper(c.start, t.start) <= x <=> c.start <= x /\ t.start <= x
      BY <1>2 DEF Upper
    <3>2. \A x \in Int : x < Lower(c.end, t.end) <=> x < c.end /\ x < t.end
      BY <1>2 DEF Lower
    <3>3. p[1] \in Int
      BY <2>1
    <3> QED  BY <1>1, <2>1, <3>1, <3>2, <3>3 DEF Block, MeetOf
  <2>2. CASE p \notin Int \X Int
    BY <2>2 DEF Block
  <2> QED  BY <2>1, <2>2
<1> QED  BY <1>3 DEF z

\* A span merged behind those before it.
WholeParts(C, m, done, z, k) ==
  /\ k \in Seq(Kind(C)) /\ Good(C, k) /\ \A x \in Range(k) : x \in Range(done) \/ x.end = z.end
  /\ \A p : p \in Area(m, Range(k)) <=> p \in Area(m, Range(done)) \/ p \in Block(m, z)

\* Merging in front of it gives a good list with its points.
LEMMA WholeGood ==
  ASSUME NEW C, C \subseteq Seq(Spans), NEW m, NEW done \in Seq(Kind(C)), NEW z \in Kind(C),
         Good(C, done), z.start < z.end, Ahead(Range(done), {z}), NEW k, k = MergePrevious[done \o <<z>>]
  PROVE  WholeParts(C, m, done, z, k)
<1>1. BehindKinds(C, z, k)
  BY MergeBehindTyped
<1>2. BehindParts(C, m, done, z, k)
  BY MergeBehindGood, Zenon
<1> DEFINE f == Front(k)  e == Last(k)
<1>3. k \in Seq(Kind(C)) /\ k # <<>> /\ f \in Seq(Kind(C)) /\ e \in Kind(C) /\ e.end = z.end
  BY <1>1 DEF BehindKinds
<1>4. /\ Good(C, f) /\ e.start < e.end /\ Ahead(Range(f), {e}) /\ Range(f) \subseteq Range(done)
      /\ \A p : p \in Area(m, Range(f)) \/ p \in Block(m, e) <=> p \in Area(m, Range(done)) \/ p \in Block(m, z)
  BY <1>2 DEF BehindParts
<1>5. k = f \o <<e>>
  BY <1>3, AtEnd, Zenon
<1> HIDE DEF f, e
<1> DEFINE g == f \o <<e>>
<1>6. /\ \A x : x \in Range(g) <=> x \in Range(f) \/ x = e
      /\ Good(C, g) <=> Good(C, f) /\ e.start < e.end /\ Ahead(Range(f), {e})
      /\ \A p : p \in Area(m, Range(g)) <=> p \in Area(m, Range(f)) \/ p \in Block(m, e)
  BY <1>3, OneMore, Zenon
<1>7. k = g
  BY <1>5
<1> HIDE DEF g
<1> QED  BY <1>3, <1>4, <1>6, <1>7 DEF WholeParts

\* The turn in which two spans overlap.
LEMMA AndStepOverlaps ==
  ASSUME NEW w, NEW below, NEW c, c = Head(w.d), NEW t, t = Head(w.s), ~(c.start >= t.end), ~(c.end <= t.start),
         NEW sub, sub = below[Walk(<<>>, c.subspan, t.subspan)], NEW rest, rest = Behind(c, t) \o Tail(w.d)
  PROVE  /\ c.subspan # NoSubspan /\ sub = <<>> => AndStep(w, below) = Walk(w.done, rest, w.s)
         /\ ~(c.subspan # NoSubspan /\ sub = <<>>) =>
              AndStep(w, below) = Walk(MergePrevious[Append(w.done, Common(c, t, sub))], rest,
                                       IF t.end <= Common(c, t, sub).end THEN Tail(w.s) ELSE w.s)
BY DEF AndStep

\* `below' is what two contents have in common, or nothing for the content of a
\* band if they have nothing in common.
Shares(C, below) ==
  \A x, y \in C : below[Walk(<<>>, x, y)] \in C \/ (x # NoSubspan /\ below[Walk(<<>>, x, y)] = <<>>)

\* What t leaves over is shorter, or it does not meet t.
RestKinds(C, c, t, D, rest) ==
  /\ rest \in Seq(Kind(C)) /\ Len(D) \in Nat /\ Len(rest) \in Nat
  /\ t.end < c.end => Len(rest) = Len(D) + 1 /\ rest # <<>> /\ Head(rest).start = t.end
  /\ ~(t.end < c.end) => Len(rest) = Len(D)

\* The lengths of the rest.
LEMMA RestShorter ==
  ASSUME NEW C, NEW c \in Kind(C), NEW t \in Kind(C), NEW D \in Seq(Kind(C)), NEW rest, rest = Behind(c, t) \o D
  PROVE  RestKinds(C, c, t, D, rest)
<1> DEFINE b == Behind(c, t)
<1>1. /\ b \in Seq(Kind(C)) /\ t.end < c.end => Len(b) = 1
      /\ ~(t.end < c.end) => Len(b) = 0
  <2>1. c.subspan \in C
    BY DEF Kind
  <2>2. b \in Seq(Kind(C))
    BY <2>1, PiecesTyped, Zenon
  <2>3. (t.end < c.end => Len(b) = 1) /\ (~(t.end < c.end) => Len(b) = 0)
    BY DEF Behind
  <2> QED  BY <2>2, <2>3
<1>2. CASE t.end < c.end
  <2> DEFINE x == Span(t.end, c.end, c.subspan)
  <2>1. rest = <<x>> \o D
    BY <1>2 DEF Behind
  <2>2. x \in Kind(C) /\ x.start = t.end
    BY DEF Span, Kind
  <2> HIDE DEF x
  <2>3. /\ <<x>> \o D \in Seq(Kind(C)) /\ <<x>> \o D # <<>> /\ Len(<<x>> \o D) = Len(D) + 1 /\ Head(<<x>> \o D) = x
    BY <2>2, FrontOf, Zenon
  <2> QED  BY <1>2, <2>1, <2>2, <2>3, LenProperties DEF RestKinds
<1>3. CASE ~(t.end < c.end)
  <2>1. rest = <<>> \o D
    BY <1>3 DEF Behind
  <2>2. rest = D
    BY <2>1, ConcatEmptySeq
  <2> QED  BY <1>3, <2>2, LenProperties DEF RestKinds
<1> QED  BY <1>2, <1>3

\* A turn of AndStep leads from walk to walk and lowers the rank.
LEMMA AndStepTyped ==
  ASSUME NEW C, C \subseteq Seq(Spans), NEW below, Shares(C, below), NEW w \in WalksOf(C), w.d # <<>>, w.s # <<>>
  PROVE  AndStep(w, below) \in WalksOf(C) /\ Rank(AndStep(w, below)) < Rank(w)
<1> DEFINE c == Head(w.d)  t == Head(w.s)  v == AndStep(w, below)  D == Tail(w.d)  S == Tail(w.s)
           sub == below[Walk(<<>>, c.subspan, t.subspan)]  rest == Behind(c, t) \o D
<1>1. w.done \in Seq(Kind(C)) /\ w.d \in Seq(Kind(C)) /\ w.s \in Seq(Kind(C))
  BY DEF WalksOf
<1>2. t \in Kind(C) /\ S \in Seq(Kind(C)) /\ Len(S) = Len(w.s) - 1 /\ Len(w.s) \in Nat \ {0}
  BY <1>1, AtFront, Zenon
<1>3. c \in Kind(C) /\ D \in Seq(Kind(C)) /\ Len(D) = Len(w.d) - 1 /\ Len(w.d) \in Nat \ {0}
  BY <1>1, AtFront, Zenon
<1>4. SUFFICES \E done \in Seq(Kind(C)), d \in Seq(Kind(C)), s \in Seq(Kind(C)) :
                 /\ v = Walk(done, d, s)
                 /\ \/ (Len(s) < Len(w.s) /\ Len(d) <= Len(w.d) + 1)
                    \/ (Len(s) <= Len(w.s) /\ Len(d) < Len(w.d))
                    \/ (Len(s) <= Len(w.s) /\ Len(d) <= Len(w.d) /\ Meet(w) = 1 /\ Meet(v) = 0)
  <2>1. PICK done \in Seq(Kind(C)), d \in Seq(Kind(C)), s \in Seq(Kind(C)) :
               /\ v = Walk(done, d, s)
               /\ \/ (Len(s) < Len(w.s) /\ Len(d) <= Len(w.d) + 1)
                  \/ (Len(s) <= Len(w.s) /\ Len(d) < Len(w.d))
                  \/ (Len(s) <= Len(w.s) /\ Len(d) <= Len(w.d) /\ Meet(w) = 1 /\ Meet(v) = 0)
    BY <1>4
  <2> HIDE DEF v
  <2>2. v \in WalksOf(C) /\ v.d = d /\ v.s = s
    BY <2>1, WalkTyped
  <2>3. Rank(v) < Rank(w)
    BY <2>1, <2>2, RankLess
  <2> QED  BY <2>2, <2>3 DEF v
<1>5. CASE c.start >= t.end
  <2>1. v = Walk(w.done, w.d, S)
    BY <1>5, Zenon DEF AndStep
  <2>2. Len(S) < Len(w.s) /\ Len(w.d) <= Len(w.d) + 1
    BY <1>2, <1>3
  <2> HIDE DEF v, S
  <2> QED  BY <1>1, <1>2, <2>1, <2>2
<1>6. CASE ~(c.start >= t.end) /\ c.end <= t.start
  <2>1. v = Walk(w.done, D, w.s)
    BY <1>6, Zenon DEF AndStep
  <2>2. Len(w.s) <= Len(w.s) /\ Len(D) < Len(w.d)
    BY <1>2, <1>3
  <2> HIDE DEF v, D
  <2> QED  BY <1>1, <1>3, <2>1, <2>2
<1>7. CASE ~(c.start >= t.end) /\ ~(c.end <= t.start)
  <2>1. /\ c.subspan # NoSubspan /\ sub = <<>> => v = Walk(w.done, rest, w.s)
        /\ ~(c.subspan # NoSubspan /\ sub = <<>>) =>
              v = Walk(MergePrevious[Append(w.done, Common(c, t, sub))], rest,
                       IF t.end <= Common(c, t, sub).end THEN S ELSE w.s)
    BY <1>7, AndStepOverlaps, ZenonT(60)
  <2>2. c.start \in Int /\ c.end \in Int /\ t.start \in Int /\ t.end \in Int /\ c.subspan \in C /\ t.subspan \in C
    BY <1>2, <1>3 DEF Kind
  <2>3. Meet(w) = 1
    BY <1>7, <2>2 DEF Meet
  <2>4. sub \in C \/ (c.subspan # NoSubspan /\ sub = <<>>)
    BY <2>2 DEF Shares
  <2> HIDE DEF v, c, t, D, S, sub
  <2>5. /\ rest \in Seq(Kind(C)) /\ Len(D) \in Nat /\ Len(rest) \in Nat
        /\ t.end < c.end => Len(rest) = Len(D) + 1 /\ rest # <<>> /\ Head(rest).start = t.end
        /\ ~(t.end < c.end) => Len(rest) = Len(D)
    <3>1. RestKinds(C, c, t, D, rest)
      BY <1>2, <1>3, RestShorter
    <3> QED  BY <3>1 DEF RestKinds
  <2> HIDE DEF rest
  <2>6. CASE c.subspan # NoSubspan /\ sub = <<>>
    <3>1. v = Walk(w.done, rest, w.s)
      BY <2>1, <2>6
    <3>2. CASE t.end < c.end
      <4>1. Meet(v) = 0
        <5>1. v.d = rest /\ v.s = w.s
          BY <3>1 DEF Walk
        <5>2. ~(Head(rest).start < t.end)
          BY <2>2, <2>5, <3>2
        <5> QED  BY <5>1, <5>2 DEF Meet, t
      <4>2. Len(w.s) <= Len(w.s) /\ Len(rest) <= Len(w.d)
        BY <1>2, <1>3, <2>5, <3>2
      <4> QED  BY <1>1, <2>3, <2>5, <3>1, <4>1, <4>2
    <3>3. CASE ~(t.end < c.end)
      <4>1. Len(w.s) <= Len(w.s) /\ Len(rest) < Len(w.d)
        BY <1>2, <1>3, <2>5, <3>3
      <4> QED  BY <1>1, <2>5, <3>1, <4>1
    <3> QED  BY <3>2, <3>3
  <2>7. CASE ~(c.subspan # NoSubspan /\ sub = <<>>)
    <3> DEFINE z == Common(c, t, sub)  k == MergePrevious[w.done \o <<z>>]  s == IF t.end <= z.end THEN S ELSE w.s
    <3>1. z \in Kind(C) /\ z.end = Lower(c.end, t.end)
      <4>1. sub \in C
        BY <2>4, <2>7
      <4> QED  BY <1>2, <1>3, <4>1, PiecesTyped
    <3> HIDE DEF z
    <3>2. k \in Seq(Kind(C))
      <4>1. k = MergePrevious[w.done \o <<z>>]
        OBVIOUS
      <4> HIDE DEF k
      <4>2. BehindKinds(C, z, k)
        BY <1>1, <3>1, <4>1, MergeBehindTyped
      <4> QED  BY <4>2 DEF BehindKinds
    <3>3. v = Walk(k, rest, s)
      <4>1. v = Walk(MergePrevious[Append(w.done, z)], rest, s)
        BY <2>1, <2>7 DEF z
      <4>2. Append(w.done, z) = w.done \o <<z>>
        BY <1>1, <3>1, EndOf, ZenonT(60)
      <4> QED  BY <4>1, <4>2
    <3> HIDE DEF k
    <3>4. CASE t.end <= z.end
      <4>1. s = S
        BY <3>4
      <4>2. Len(S) < Len(w.s) /\ Len(rest) <= Len(w.d) + 1
        BY <1>2, <1>3, <2>5
      <4> QED  BY <1>2, <2>5, <3>2, <3>3, <4>1, <4>2
    <3>5. CASE ~(t.end <= z.end)
      <4>1. s = w.s
        BY <3>5
      <4>2. ~(t.end < c.end)
        BY <2>2, <3>1, <3>5 DEF Lower
      <4>3. Len(w.s) <= Len(w.s) /\ Len(rest) < Len(w.d)
        BY <1>2, <1>3, <2>5, <4>2
      <4> QED  BY <1>1, <2>5, <3>2, <3>3, <4>1, <4>3
    <3> QED  BY <3>4, <3>5
  <2> QED  BY <2>6, <2>7
<1> QED  BY <1>5, <1>6, <1>7

\* `below' as the lists of spans of a set must have it.
Meets(C, m, below) ==
  \A x, y \in C : LET sub == below[Walk(<<>>, x, y)]
                  IN  IF x # NoSubspan /\ sub = <<>> THEN Apart(m, x, y) ELSE sub \in C /\ MeetOf(m, sub, x, y)

\* When a walk is in order, and its points part by part.
LEMMA AlignedWhen ==
  ASSUME NEW C, NEW done, NEW d, NEW s, Good(C, done), Good(C, d), Good(C, s), Ahead(Range(done), Range(d))
  PROVE  Aligned(C, Walk(done, d, s))
BY DEF Aligned, Walk

LEMMA MeetingParts ==
  ASSUME NEW m, NEW done, NEW d, NEW s, NEW p
  PROVE  Meeting(m, Walk(done, d, s), p)
         <=> p \in Area(m, Range(done)) \/ (p \in Area(m, Range(d)) /\ p \in Area(m, Range(s)))
BY DEF Meeting, Walk

\* A turn of AndStep keeps the order and the points that both lists have.
LEMMA AndStepGood ==
  ASSUME NEW C, C \subseteq Seq(Spans), NEW m, NEW below, Meets(C, m, below),
         NEW w \in WalksOf(C), w.d # <<>>, w.s # <<>>, Aligned(C, w)
  PROVE  /\ Aligned(C, AndStep(w, below))
         /\ \A p : Meeting(m, AndStep(w, below), p) <=> Meeting(m, w, p)
<1> DEFINE c == Head(w.d)  D == Tail(w.d)  t == Head(w.s)  S == Tail(w.s)  done == w.done
           v == AndStep(w, below)
           sub == below[Walk(<<>>, c.subspan, t.subspan)]  rest == Behind(c, t) \o D
           p1 == Lower(c.end, t.end)
<1>0. Good(C, done) /\ Good(C, w.d) /\ Good(C, w.s) /\ Ahead(Range(done), Range(w.d))
  BY DEF Aligned
<1>1. /\ Facing(C, done, c, D, t, S)
      /\ \A p : p \in Area(m, Range(w.d)) <=> p \in Area(m, Range(D)) \/ p \in Block(m, c)
      /\ \A p : p \in Area(m, Range(w.s)) <=> p \in Area(m, Range(S)) \/ p \in Block(m, t)
  BY FacingParts, Zenon
<1>2. CASE c.start >= t.end
  <2>1. v = Walk(done, w.d, S)
    BY <1>2, Zenon DEF AndStep
  <2> HIDE DEF v, t, S, done, c, D
  <2>2. Good(C, S) /\ c.start \in Int /\ c.end \in Int /\ t.end \in Int /\ c.start < c.end
    BY <1>1 DEF Facing
  <2>3. Aligned(C, v)
    BY <1>0, <2>1, <2>2, AlignedWhen
  <2>4. ASSUME NEW p PROVE Meeting(m, v, p) <=> Meeting(m, w, p)
    <3>1. Meeting(m, v, p) <=> p \in Area(m, Range(done)) \/ (p \in Area(m, Range(w.d)) /\ p \in Area(m, Range(S)))
      BY <2>1, MeetingParts
    <3>2. Placed(m, done, c, D, t, S, p)
      BY <1>1, PointsPlaced, Zenon
    <3>3. ~(p \in Area(m, Range(w.d)) /\ p \in Block(m, t))
      BY <1>1, <1>2, <2>2, <3>2 DEF Placed
    <3> QED  BY <1>1, <3>1, <3>3 DEF Meeting, done
  <2> QED  BY <2>3, <2>4 DEF v
<1>3. CASE ~(c.start >= t.end) /\ c.end <= t.start
  <2>1. v = Walk(done, D, w.s)
    BY <1>3, Zenon DEF AndStep
  <2> HIDE DEF v, t, S, done, c, D
  <2>2. /\ Good(C, D) /\ c.start \in Int /\ c.end \in Int /\ t.start \in Int /\ t.end \in Int /\ t.start < t.end
        /\ Ahead(Range(done), Range(D))
    BY <1>1 DEF Facing
  <2>3. Aligned(C, v)
    BY <1>0, <2>1, <2>2, AlignedWhen
  <2>4. ASSUME NEW p PROVE Meeting(m, v, p) <=> Meeting(m, w, p)
    <3>1. Meeting(m, v, p) <=> p \in Area(m, Range(done)) \/ (p \in Area(m, Range(D)) /\ p \in Area(m, Range(w.s)))
      BY <2>1, MeetingParts
    <3>2. Placed(m, done, c, D, t, S, p)
      BY <1>1, PointsPlaced, Zenon
    <3>3. ~(p \in Block(m, c) /\ p \in Area(m, Range(w.s)))
      BY <1>1, <1>3, <2>2, <3>2 DEF Placed
    <3> QED  BY <1>1, <3>1, <3>3 DEF Meeting, done
  <2> QED  BY <2>3, <2>4 DEF v
<1>4. CASE ~(c.start >= t.end) /\ ~(c.end <= t.start)
  <2>1. /\ c.subspan # NoSubspan /\ sub = <<>> => v = Walk(done, rest, w.s)
        /\ ~(c.subspan # NoSubspan /\ sub = <<>>) =>
              v = Walk(MergePrevious[Append(done, Common(c, t, sub))], rest,
                       IF t.end <= Common(c, t, sub).end THEN S ELSE w.s)
    BY <1>4, AndStepOverlaps, ZenonT(60)
  <2>2. /\ done \in Seq(Kind(C)) /\ c \in Kind(C) /\ t \in Kind(C) /\ Good(C, S)
        /\ c.start \in Int /\ c.end \in Int /\ t.start \in Int /\ t.end \in Int /\ c.start < c.end /\ t.start < t.end
        /\ Ahead(Range(done), {c})
    BY <1>1 DEF Facing
  <2>3. IF c.subspan # NoSubspan /\ sub = <<>> THEN Apart(m, c.subspan, t.subspan)
        ELSE sub \in C /\ MeetOf(m, sub, c.subspan, t.subspan)
    <3>1. c.subspan \in C /\ t.subspan \in C
      BY <2>2 DEF Kind
    <3> QED  BY <3>1 DEF Meets
  <2> HIDE DEF v, c, t, D, S, sub, done
  <2>4. Overlap(c, t)
    BY <1>4, <2>2 DEF Overlap
  <2>5. RestParts(C, m, c, D, p1, rest)
    BY <1>1, <2>4, RestGood, Zenon
  <2>6. /\ p1 \in Int /\ c.start < p1
        /\ (p1 = c.end /\ c.end <= t.end) \/ (p1 = t.end /\ t.end < c.end)
    BY <1>4, <2>2 DEF Lower
  <2> HIDE DEF rest, p1
  <2>7. \A x \in Range(done) : x.end <= p1
    <3>1. Range(done) \subseteq Kind(C)
      BY <2>2, RangeOfSeq
    <3>2. \A x \in Range(done) : x.end <= c.start /\ x.end \in Int
      BY <2>2, <3>1 DEF Ahead, Kind
    <3> QED  BY <2>2, <2>6, <3>2
  <2>8. \A x \in Range(rest) : p1 <= x.start /\ x.start \in Int
    <3>1. Range(rest) \subseteq Kind(C)
      BY <2>5, RangeOfSeq DEF RestParts
    <3> QED  BY <2>5, <3>1 DEF RestParts, Kind
  <2>9. CASE c.subspan # NoSubspan /\ sub = <<>>
    <3>1. v = Walk(done, rest, w.s)
      BY <2>1, <2>9
    <3>2. Ahead(Range(done), Range(rest))
      <4>1. Range(done) \subseteq Kind(C)
        BY <2>2, RangeOfSeq
      <4>2. \A x \in Range(done) : x.end \in Int
        BY <4>1 DEF Kind
      <4> QED  BY <2>6, <2>7, <2>8, <4>2 DEF Ahead
    <3>3. Aligned(C, v)
      BY <1>0, <2>5, <3>1, <3>2, AlignedWhen DEF RestParts
    <3>4. ASSUME NEW p PROVE Meeting(m, v, p) <=> Meeting(m, w, p)
      <4>1. Meeting(m, v, p) <=> p \in Area(m, Range(done)) \/ (p \in Area(m, Range(rest)) /\ p \in Area(m, Range(w.s)))
        BY <3>1, MeetingParts
      <4>2. Placed(m, done, c, D, t, S, p)
        BY <1>1, PointsPlaced, Zenon
      <4>3. p \in Area(m, Range(rest)) <=> p \in From(m, c, p1) \/ p \in Area(m, Range(D))
        BY <2>5 DEF RestParts
      <4>4. p \in From(m, c, p1) <=> p \in Block(m, c) /\ p1 <= p[1]
        BY DEF From
      <4>5. ~(p \in Block(m, c) /\ p \in Block(m, t))
        BY <2>3, <2>9 DEF Block, Apart
      <4>6. ~(p \in Block(m, c) /\ ~(p1 <= p[1]) /\ p \in Area(m, Range(S)))
        BY <2>2, <2>6, <4>2 DEF Placed
      <4> QED  BY <1>1, <4>1, <4>3, <4>4, <4>5, <4>6 DEF Meeting, done
    <3> QED  BY <3>3, <3>4 DEF v
  <2>10. CASE ~(c.subspan # NoSubspan /\ sub = <<>>)
    <3> DEFINE z == Common(c, t, sub)  k == MergePrevious[done \o <<z>>]  s == IF t.end <= z.end THEN S ELSE w.s
    <3>1. sub \in C /\ MeetOf(m, sub, c.subspan, t.subspan)
      BY <2>3, <2>10
    <3>2. z \in Kind(C) /\ z.end = p1 /\ z.start < z.end /\ c.start <= z.start
      <4>1. z \in Kind(C) /\ z.end = Lower(c.end, t.end) /\ z.start = Upper(c.start, t.start)
        BY <2>2, <3>1, PiecesTyped
      <4>2. Upper(c.start, t.start) < Lower(c.end, t.end) /\ c.start <= Upper(c.start, t.start)
        BY <2>2, <2>4, PiecesGood, Zenon
      <4> HIDE DEF z
      <4> QED  BY <4>1, <4>2 DEF p1
    <3>3. \A p : p \in Block(m, z) <=> p \in Block(m, c) /\ p \in Block(m, t)
      BY <2>2, <2>4, <3>1, MiddleAnd, Zenon
    <3>4. v = Walk(k, rest, s)
      <4>1. v = Walk(MergePrevious[Append(done, z)], rest, s)
        BY <2>1, <2>10
      <4> HIDE DEF z
      <4>2. Append(done, z) = done \o <<z>>
        BY <2>2, <3>2, EndOf, ZenonT(60)
      <4> QED  BY <4>1, <4>2
    <3> HIDE DEF z
    <3>5. Ahead(Range(done), {z})
      <4>1. Range(done) \subseteq Kind(C)
        BY <2>2, RangeOfSeq
      <4>2. \A x \in Range(done) : x.end <= c.start /\ x.end \in Int /\ z.start \in Int
        BY <2>2, <3>2, <4>1 DEF Ahead, Kind
      <4> QED  BY <2>2, <3>2, <4>2 DEF Ahead
    <3>6. WholeParts(C, m, done, z, k)
      BY <1>0, <2>2, <3>2, <3>5, WholeGood
    <3> HIDE DEF k
    <3>7. Ahead(Range(k), Range(rest))
      <4>1. \A x \in Range(k) : x.end <= p1 /\ x.end \in Int
        <5>1. Range(k) \subseteq Kind(C)
          BY <3>6, RangeOfSeq DEF WholeParts
        <5>2. \A x \in Range(k) : x.end <= p1
          BY <2>6, <2>7, <3>2, <3>6 DEF WholeParts
        <5> QED  BY <5>1, <5>2 DEF Kind
      <4> QED  BY <2>6, <2>8, <4>1 DEF Ahead
    <3>8. Good(C, s)
      BY <1>0, <2>2
    <3> HIDE DEF s
    <3>9. Aligned(C, v)
      BY <2>5, <3>4, <3>6, <3>7, <3>8, AlignedWhen DEF RestParts, WholeParts
    <3>10. ASSUME NEW p PROVE Meeting(m, v, p) <=> Meeting(m, w, p)
      <4>1. Meeting(m, v, p) <=> p \in Area(m, Range(k)) \/ (p \in Area(m, Range(rest)) /\ p \in Area(m, Range(s)))
        BY <3>4, MeetingParts
      <4>2. Placed(m, done, c, D, t, S, p)
        BY <1>1, PointsPlaced, Zenon
      <4>3. p \in Area(m, Range(rest)) <=> p \in From(m, c, p1) \/ p \in Area(m, Range(D))
        BY <2>5 DEF RestParts
      <4>4. p \in From(m, c, p1) <=> p \in Block(m, c) /\ p1 <= p[1]
        BY DEF From
      <4>5. p \in Area(m, Range(k)) <=> p \in Area(m, Range(done)) \/ (p \in Block(m, c) /\ p \in Block(m, t))
        BY <3>3, <3>6 DEF WholeParts
      <4>6. Meeting(m, w, p) <=> \/ p \in Area(m, Range(done))
                                 \/ /\ p \in Area(m, Range(D)) \/ p \in Block(m, c)
                                    /\ p \in Area(m, Range(S)) \/ p \in Block(m, t)
        BY <1>1 DEF Meeting, done
      <4>7. CASE t.end <= z.end
        <5>1. p \in Area(m, Range(s)) <=> p \in Area(m, Range(S))
          BY <4>7 DEF s
        <5>2. p1 = t.end /\ t.end <= c.end
          BY <2>2, <2>6, <3>2, <4>7
        <5>3. ~(p \in Block(m, c) /\ ~(p1 <= p[1]) /\ p \in Area(m, Range(S)))
          BY <2>2, <4>2, <5>2 DEF Placed
        <5>4. ~(p \in Area(m, Range(D)) /\ p \in Block(m, t))
          BY <2>2, <4>2, <5>2 DEF Placed
        <5> QED  BY <4>1, <4>3, <4>4, <4>5, <4>6, <5>1, <5>3, <5>4
      <4>8. CASE ~(t.end <= z.end)
        <5>1. p \in Area(m, Range(s)) <=> p \in Area(m, Range(S)) \/ p \in Block(m, t)
          BY <1>1, <4>8 DEF s
        <5>2. p1 = c.end /\ c.end < t.end
          BY <2>2, <2>6, <3>2, <4>8
        <5>3. ~(p \in Block(m, c) /\ p \in Area(m, Range(S)))
          BY <2>2, <4>2, <5>2 DEF Placed
        <5>4. ~(p \in Block(m, c) /\ p1 <= p[1])
          BY <2>2, <4>2, <5>2 DEF Placed
        <5> QED  BY <4>1, <4>3, <4>4, <4>5, <4>6, <5>1, <5>3, <5>4
      <4> QED  BY <4>7, <4>8
    <3> QED  BY <3>9, <3>10 DEF v
  <2> QED  BY <2>9, <2>10
<1> QED  BY <1>2, <1>3, <1>4

-----------------------------------------------------------------------------
(* A turn of sraSpanListSubtract.                                            *)

SubtractTurn(w, c, t, sub, v) ==
  /\ sub = <<>> => v = Walk(w.done \o InFront(c, t), Behind(c, t) \o Tail(w.d), w.s)
  /\ sub # <<>> => \E k, right :
       /\ Merged(w.done, c, t, sub, Tail(w.d), k, right)
       /\ v = IF t.end > Head(right).end THEN Walk(Append(Front(k), Head(right)), Tail(right), w.s)
              ELSE Walk(Front(k), right, Tail(w.s))

\* SubtractStep for two spans that overlap, in the terms of the lemmas above.
LEMMA SubtractStepOverlaps ==
  ASSUME NEW w, NEW below, NEW c, c = Head(w.d), NEW t, t = Head(w.s), ~(c.start >= t.end), ~(c.end <= t.start),
         NEW sub, sub = below[Walk(<<>>, c.subspan, t.subspan)]
  PROVE  SubtractTurn(w, c, t, sub, SubtractStep(w, below))
<1> DEFINE k     == MergePrevious[w.done \o InFront(c, t) \o <<Common(c, t, sub)>>]
           right == MergeNext[<<Last(k)>> \o (Behind(c, t) \o Tail(w.d))]
           next  == IF t.end > Head(right).end
                      THEN Walk(Append(Front(k), Head(right)), Tail(right), w.s)
                      ELSE Walk(Front(k), right, Tail(w.s))
<1>1. SubtractStep(w, below) = IF sub = <<>> THEN Walk(w.done \o InFront(c, t), Behind(c, t) \o Tail(w.d), w.s)
                               ELSE next
  BY Zenon DEF SubtractStep
<1>2. Merged(w.done, c, t, sub, Tail(w.d), k, right)
  BY DEF Merged
<1> HIDE DEF k, right
<1> QED  BY <1>1, <1>2 DEF SubtractTurn

\* `below' leaves a content, or nothing.
Leaves(C, below) == \A x, y \in C : below[Walk(<<>>, x, y)] \in C \cup {<<>>}

\* A turn of SubtractStep leads from walk to walk and lowers the rank.
LEMMA SubtractStepTyped ==
  ASSUME NEW C, C \subseteq Seq(Spans), NEW below, Leaves(C, below), NEW w \in WalksOf(C), w.d # <<>>, w.s # <<>>
  PROVE  SubtractStep(w, below) \in WalksOf(C) /\ Rank(SubtractStep(w, below)) < Rank(w)
<1> DEFINE c == Head(w.d)  t == Head(w.s)  v == SubtractStep(w, below)  D == Tail(w.d)  S == Tail(w.s)
           sub == below[Walk(<<>>, c.subspan, t.subspan)]  rest == Behind(c, t) \o D
<1>1. w.done \in Seq(Kind(C)) /\ w.d \in Seq(Kind(C)) /\ w.s \in Seq(Kind(C))
  BY DEF WalksOf
<1>2. t \in Kind(C) /\ S \in Seq(Kind(C)) /\ Len(S) = Len(w.s) - 1 /\ Len(w.s) \in Nat \ {0}
  BY <1>1, AtFront, Zenon
<1>3. c \in Kind(C) /\ D \in Seq(Kind(C)) /\ Len(D) = Len(w.d) - 1 /\ Len(w.d) \in Nat \ {0}
  BY <1>1, AtFront, Zenon
<1>4. SUFFICES \E done \in Seq(Kind(C)), d \in Seq(Kind(C)), s \in Seq(Kind(C)) :
                 /\ v = Walk(done, d, s)
                 /\ \/ (Len(s) < Len(w.s) /\ Len(d) <= Len(w.d) + 1)
                    \/ (Len(s) <= Len(w.s) /\ Len(d) < Len(w.d))
                    \/ (Len(s) <= Len(w.s) /\ Len(d) <= Len(w.d) /\ Meet(w) = 1 /\ Meet(v) = 0)
  <2>1. PICK done \in Seq(Kind(C)), d \in Seq(Kind(C)), s \in Seq(Kind(C)) :
               /\ v = Walk(done, d, s)
               /\ \/ (Len(s) < Len(w.s) /\ Len(d) <= Len(w.d) + 1)
                  \/ (Len(s) <= Len(w.s) /\ Len(d) < Len(w.d))
                  \/ (Len(s) <= Len(w.s) /\ Len(d) <= Len(w.d) /\ Meet(w) = 1 /\ Meet(v) = 0)
    BY <1>4
  <2> HIDE DEF v
  <2>2. v \in WalksOf(C) /\ v.d = d /\ v.s = s
    BY <2>1, WalkTyped
  <2>3. Rank(v) < Rank(w)
    BY <2>1, <2>2, RankLess
  <2> QED  BY <2>2, <2>3 DEF v
<1>5. CASE c.start >= t.end
  <2>1. v = Walk(w.done, w.d, S)
    BY <1>5, Zenon DEF SubtractStep
  <2>2. Len(S) < Len(w.s) /\ Len(w.d) <= Len(w.d) + 1
    BY <1>2, <1>3
  <2> HIDE DEF v, S
  <2> QED  BY <1>1, <1>2, <2>1, <2>2
<1>6. CASE ~(c.start >= t.end) /\ c.end <= t.start
  <2>1. v = Walk(Append(w.done, c), D, w.s)
    BY <1>6, Zenon DEF SubtractStep
  <2>2. Len(w.s) <= Len(w.s) /\ Len(D) < Len(w.d)
    BY <1>2, <1>3
  <2>3. Append(w.done, c) \in Seq(Kind(C))
    BY <1>1, <1>3, AppendProperties
  <2> HIDE DEF v, D, c
  <2> QED  BY <1>1, <1>3, <2>1, <2>2, <2>3
<1>7. CASE ~(c.start >= t.end) /\ ~(c.end <= t.start)
  <2>1. /\ sub = <<>> => v = Walk(w.done \o InFront(c, t), rest, w.s)
        /\ sub # <<>> => \E k, right :
              /\ Merged(w.done, c, t, sub, D, k, right)
              /\ v = IF t.end > Head(right).end THEN Walk(Append(Front(k), Head(right)), Tail(right), w.s)
                     ELSE Walk(Front(k), right, S)
    <3>1. SubtractTurn(w, c, t, sub, v)
      BY <1>7, SubtractStepOverlaps, Zenon
    <3> QED  BY <3>1 DEF SubtractTurn
  <2>2. c.start \in Int /\ c.end \in Int /\ t.start \in Int /\ t.end \in Int /\ c.subspan \in C /\ t.subspan \in C
    BY <1>2, <1>3 DEF Kind
  <2>3. Meet(w) = 1
    BY <1>7, <2>2 DEF Meet
  <2>4. sub \in C \/ sub = <<>>
    BY <2>2 DEF Leaves
  <2> HIDE DEF v, c, t, D, S, sub
  <2>5. CASE sub = <<>>
    <3>1. v = Walk(w.done \o InFront(c, t), rest, w.s)
      BY <2>1, <2>5
    <3>2. w.done \o InFront(c, t) \in Seq(Kind(C))
      <4>1. InFront(c, t) \in Seq(Kind(C))
        BY <1>2, <1>3, <2>2, PiecesTyped, Zenon
      <4> QED  BY <1>1, <4>1, ConcatProperties
    <3> DEFINE done == w.done \o InFront(c, t)
    <3> HIDE DEF rest, done
    <3>3. RestKinds(C, c, t, D, rest)
      BY <1>2, <1>3, RestShorter DEF rest
    <3>4. done \in Seq(Kind(C)) /\ v = Walk(done, rest, w.s)
      BY <3>1, <3>2 DEF done
    <3>5. CASE t.end < c.end
      <4>1. Len(rest) = Len(D) + 1 /\ rest # <<>> /\ Head(rest).start = t.end /\ rest \in Seq(Kind(C)) /\ Len(D) \in Nat
        BY <3>3, <3>5 DEF RestKinds
      <4>2. Meet(v) = 0
        <5>1. v.d = rest /\ v.s = w.s
          BY <3>4 DEF Walk
        <5>2. ~(Head(rest).start < t.end)
          BY <2>2, <4>1
        <5> QED  BY <5>1, <5>2 DEF Meet, t
      <4>3. Len(w.s) <= Len(w.s) /\ Len(rest) <= Len(w.d)
        BY <1>2, <1>3, <4>1
      <4> QED  BY <1>1, <2>3, <3>4, <4>1, <4>2, <4>3
    <3>6. CASE ~(t.end < c.end)
      <4>1. Len(rest) = Len(D) /\ rest \in Seq(Kind(C)) /\ Len(D) \in Nat
        BY <3>3, <3>6 DEF RestKinds
      <4>2. Len(w.s) <= Len(w.s) /\ Len(rest) < Len(w.d)
        BY <1>2, <1>3, <4>1
      <4> QED  BY <1>1, <3>4, <4>1, <4>2
    <3> QED  BY <3>5, <3>6
  <2>6. CASE sub # <<>>
    <3>1. PICK k, right :
            /\ Merged(w.done, c, t, sub, D, k, right)
            /\ v = IF t.end > Head(right).end THEN Walk(Append(Front(k), Head(right)), Tail(right), w.s)
                   ELSE Walk(Front(k), right, S)
      BY <2>1, <2>6
    <3>2. TurnKinds(C, D, t, sub, k, right)
      <4>1. sub \in C
        BY <2>4, <2>6
      <4> QED  BY <1>1, <1>2, <1>3, <3>1, <4>1, TurnTyped
    <3> DEFINE hd == Head(right)  tl == Tail(right)
    <3>3. /\ Front(k) \in Seq(Kind(C)) /\ right = <<hd>> \o tl /\ hd \in Kind(C) /\ tl \in Seq(Kind(C))
          /\ Len(tl) <= Len(D) \/ (hd.end = t.end /\ Len(tl) = Len(D) + 1)
          /\ Len(tl) \in Nat
      BY <3>2 DEF TurnKinds
    <3>4. v = IF t.end > hd.end THEN Walk(Append(Front(k), hd), tl, w.s) ELSE Walk(Front(k), right, S)
      BY <3>1
    <3> HIDE DEF hd, tl
    <3>5. CASE t.end > hd.end
      <4>1. Append(Front(k), hd) \in Seq(Kind(C))
        BY <3>3, AppendProperties
      <4>2. v = Walk(Append(Front(k), hd), tl, w.s)
        BY <3>4, <3>5
      <4>3. Len(w.s) <= Len(w.s) /\ Len(tl) < Len(w.d)
        BY <1>2, <1>3, <2>2, <3>3, <3>5
      <4> QED  BY <1>1, <3>3, <4>1, <4>2, <4>3
    <3>6. CASE ~(t.end > hd.end)
      <4>1. v = Walk(Front(k), right, S)
        BY <3>4, <3>6
      <4>2. right \in Seq(Kind(C)) /\ Len(right) = Len(tl) + 1
        BY <3>3, FrontOf, Zenon
      <4>3. Len(S) < Len(w.s) /\ Len(right) <= Len(w.d) + 1
        <5>1. Len(tl) <= Len(D) + 1
          BY <1>3, <3>3
        <5> QED  BY <1>2, <1>3, <3>3, <4>2, <5>1
      <4> QED  BY <1>2, <3>3, <4>1, <4>2, <4>3
    <3> QED  BY <3>5, <3>6
  <2> QED  BY <2>5, <2>6
<1> QED  BY <1>5, <1>6, <1>7

-----------------------------------------------------------------------------
\* What is left of the walk's list, in the end without that of the source.
Remaining(m, w, p) ==
  p \in Area(m, Range(w.done)) \/ (p \in Area(m, Range(w.d)) /\ p \notin Area(m, Range(w.s)))

LessOf(m, sub, x, y) == \A q : q \in m[sub] <=> q \in m[x] /\ q \notin m[y]
Within(m, x, y)      == \A q : q \in m[x] => q \in m[y]

\* `below' as the lists of spans of a set must have it.
Cuts(C, m, below) ==
  \A x, y \in C : LET sub == below[Walk(<<>>, x, y)]
                  IN  IF sub = <<>> THEN Within(m, x, y) ELSE sub \in C /\ LessOf(m, sub, x, y)

\* The points of a walk that remain, part by part.
LEMMA RemainingParts ==
  ASSUME NEW m, NEW done, NEW d, NEW s, NEW p
  PROVE  Remaining(m, Walk(done, d, s), p)
         <=> p \in Area(m, Range(done)) \/ (p \in Area(m, Range(d)) /\ p \notin Area(m, Range(s)))
BY DEF Remaining, Walk

\* What is left of the part in which two spans overlap.
LeftOver(m, c, t, z, p0, p1) ==
  \A p : p \in Block(m, z) <=> p \in Block(m, c) /\ p \notin Block(m, t) /\ p0 <= p[1] /\ p[1] < p1

\* The shared part has the points of c that t does not have.
LEMMA MiddleLess ==
  ASSUME NEW C, NEW m, NEW c \in Kind(C), NEW t \in Kind(C), NEW sub, Overlap(c, t), LessOf(m, sub, c.subspan, t.subspan),
         NEW p0, p0 = Upper(c.start, t.start), NEW p1, p1 = Lower(c.end, t.end)
  PROVE  LeftOver(m, c, t, Common(c, t, sub), p0, p1)
<1> SUFFICES ASSUME NEW p
             PROVE  p \in Block(m, Common(c, t, sub)) <=> p \in Block(m, c) /\ p \notin Block(m, t) /\ p0 <= p[1] /\ p[1] < p1
  BY DEF LeftOver
<1> DEFINE z == Common(c, t, sub)
<1>1. z.start = p0 /\ z.end = p1 /\ z.subspan = sub
  BY DEF Common, Span
<1>2. c.start \in Int /\ c.end \in Int /\ t.start \in Int /\ t.end \in Int
  BY DEF Kind
<1> HIDE DEF z
<1>3. CASE p \in Int \X Int
  <2>1. p[1] \in Int
    BY <1>3
  <2>2. p0 <= p[1] /\ p[1] < p1 => c.start <= p[1] /\ t.start <= p[1] /\ p[1] < c.end /\ p[1] < t.end
    BY <1>2, <2>1 DEF Upper, Lower
  <2> QED  BY <1>1, <1>3, <2>1, <2>2 DEF Block, LessOf, z
<1>4. CASE p \notin Int \X Int
  BY <1>4 DEF Block
<1> QED  BY <1>3, <1>4

\* What follows where nothing of the current span is left over by t.
LEMMA MiddleGone ==
  ASSUME NEW C, NEW m, NEW c \in Kind(C), NEW t \in Kind(C), Overlap(c, t), Within(m, c.subspan, t.subspan),
         NEW p0, p0 = Upper(c.start, t.start), NEW p1, p1 = Lower(c.end, t.end), NEW p
  PROVE  p \in Block(m, c) /\ p \notin Block(m, t) => p[1] < p0 \/ p1 <= p[1]
<1>1. c.start \in Int /\ c.end \in Int /\ t.start \in Int /\ t.end \in Int
  BY DEF Kind
<1>2. CASE p \in Int \X Int
  <2>1. p[1] \in Int
    BY <1>2
  <2>2. ~(p[1] < p0) /\ ~(p1 <= p[1]) => t.start <= p[1] /\ p[1] < t.end
    BY <1>1, <2>1 DEF Upper, Lower
  <2> QED  BY <1>2, <2>2 DEF Block, Within
<1>3. CASE p \notin Int \X Int
  BY <1>3 DEF Block
<1> QED  BY <1>2, <1>3

\* What a turn must lead to.
CutParts(C, m, done, c, D, t, S, v) ==
  /\ Aligned(C, v)
  /\ \A p : Remaining(m, v, p) <=> \/ p \in Area(m, Range(done))
                                  \/ /\ p \in Area(m, Range(D)) \/ p \in Block(m, c)
                                     /\ ~(p \in Area(m, Range(S)) \/ p \in Block(m, t))

\* The source of a walk whose first span is t.
Source(C, m, s, t, S) ==
  Good(C, s) /\ \A p : p \in Area(m, Range(s)) <=> p \in Area(m, Range(S)) \/ p \in Block(m, t)

\* When t has all of c there, the shared part goes.
LEMMA SubtractAll ==
  ASSUME NEW C, C \subseteq Seq(Spans), NEW m, NEW done, NEW c, NEW D, NEW t, NEW S, NEW s,
         Facing(C, done, c, D, t, S), Overlap(c, t), Within(m, c.subspan, t.subspan), Source(C, m, s, t, S),
         NEW v, v = Walk(done \o InFront(c, t), Behind(c, t) \o D, s)
  PROVE  CutParts(C, m, done, c, D, t, S, v)
<1> DEFINE rest == Behind(c, t) \o D  f == InFront(c, t)
           p0 == Upper(c.start, t.start)  p1 == Lower(c.end, t.end)
<1>1. /\ done \in Seq(Kind(C)) /\ c \in Kind(C) /\ t \in Kind(C) /\ Good(C, done)
      /\ c.start \in Int /\ c.end \in Int /\ t.start \in Int /\ t.end \in Int
      /\ Ahead(Range(done), {c})
  BY DEF Facing
<1>2. f \in Seq(Kind(C))
  <2>1. c.subspan \in C
    BY <1>1 DEF Kind
  <2> QED  BY <1>1, <2>1, PiecesTyped, Zenon
<1>3. Good(C, f) /\ Spanning(Range(f), c.start, p0)
  BY <1>1, PiecesGood, Zenon
<1>4. \A p : p \in Area(m, Range(f)) <=> p \in Below(m, c, p0)
  BY <1>1, PiecesGood, Zenon
<1>5. /\ p0 \in Int /\ p1 \in Int /\ p0 < p1 /\ c.start <= p0 /\ p1 <= t.end
      /\ p0 = c.start \/ p0 = t.start
      /\ p1 = c.end \/ p1 = t.end
  BY <1>1 DEF Upper, Lower, Overlap
<1>6. RestParts(C, m, c, D, p1, rest)
  BY RestGood, Zenon
<1>7. \A p : p \in Block(m, c) /\ p \notin Block(m, t) => p[1] < p0 \/ p1 <= p[1]
  BY <1>1, MiddleGone, Zenon
<1> HIDE DEF rest, f, p0, p1
<1> DEFINE g == done \o f
<1>8. /\ g \in Seq(Kind(C)) /\ \A x : x \in Range(g) <=> x \in Range(done) \/ x \in Range(f)
      /\ Good(C, g) <=> Good(C, done) /\ Good(C, f) /\ Ahead(Range(done), Range(f))
      /\ \A p : p \in Area(m, Range(g)) <=> p \in Area(m, Range(done)) \/ p \in Area(m, Range(f))
  BY <1>1, <1>2, ConcatParts, Zenon
<1>9. v = Walk(g, rest, s)
  BY DEF rest, f
<1> HIDE DEF g
<1>10. Range(done) \subseteq Kind(C) /\ Range(rest) \subseteq Kind(C)
  BY <1>1, <1>6, RangeOfSeq DEF RestParts
<1>11. \A x \in Range(done) : x.end <= c.start /\ x.end \in Int
  BY <1>1, <1>10 DEF Ahead, Kind
<1>12. \A x \in Range(rest) : p1 <= x.start /\ x.start \in Int
  BY <1>6, <1>10 DEF RestParts, Kind
<1>13. Good(C, g)
  <2>1. Ahead(Range(done), Range(f))
    BY <1>3, <1>11 DEF Ahead, Spanning
  <2> QED  BY <1>1, <1>3, <1>8, <2>1
<1>14. Ahead(Range(g), Range(rest))
  <2>1. \A x \in Range(g) : x.end <= p0 /\ x.end \in Int
    BY <1>1, <1>3, <1>5, <1>8, <1>11 DEF Spanning
  <2> QED  BY <1>5, <1>12, <2>1 DEF Ahead
<1>15. Aligned(C, v)
  BY <1>6, <1>9, <1>13, <1>14, AlignedWhen DEF RestParts, Source
<1>16. ASSUME NEW p
       PROVE  Remaining(m, v, p) <=> \/ p \in Area(m, Range(done))
                                     \/ /\ p \in Area(m, Range(D)) \/ p \in Block(m, c)
                                        /\ ~(p \in Area(m, Range(S)) \/ p \in Block(m, t))
  <2>1. Remaining(m, v, p) <=> p \in Area(m, Range(g)) \/ (p \in Area(m, Range(rest)) /\ p \notin Area(m, Range(s)))
    BY <1>9, RemainingParts
  <2>2. Placed(m, done, c, D, t, S, p)
    BY PointsPlaced, Zenon
  <2>3. p \in Area(m, Range(g)) <=> p \in Area(m, Range(done)) \/ (p \in Block(m, c) /\ p[1] < p0)
    BY <1>4, <1>8 DEF Below
  <2>4. p \in Area(m, Range(rest)) <=> p \in Area(m, Range(D)) \/ (p \in Block(m, c) /\ p1 <= p[1])
    BY <1>6 DEF RestParts, From
  <2>5. p \in Area(m, Range(s)) <=> p \in Area(m, Range(S)) \/ p \in Block(m, t)
    BY DEF Source
  <2>6. ~(p \in Block(m, c) /\ p[1] < p0 /\ (p \in Area(m, Range(S)) \/ p \in Block(m, t)))
    BY <1>1, <1>5, <2>2 DEF Placed
  <2>7. p \in Block(m, c) /\ p \notin Block(m, t) => p[1] < p0 \/ p1 <= p[1]
    BY <1>7
  <2> QED  BY <2>1, <2>3, <2>4, <2>5, <2>6, <2>7
<1> QED  BY <1>15, <1>16 DEF CutParts

\* Otherwise it is merged with what is left of c in front and behind.
LEMMA SubtractSome ==
  ASSUME NEW C, C \subseteq Seq(Spans), NEW m, NEW done, NEW c, NEW D, NEW t, NEW S, NEW s,
         Facing(C, done, c, D, t, S), Overlap(c, t), Source(C, m, s, t, S),
         NEW sub \in C, LessOf(m, sub, c.subspan, t.subspan), NEW k, NEW right, Merged(done, c, t, sub, D, k, right),
         NEW v, v = IF t.end > Head(right).end THEN Walk(Append(Front(k), Head(right)), Tail(right), s)
                    ELSE Walk(Front(k), right, S)
  PROVE  CutParts(C, m, done, c, D, t, S, v)
<1> DEFINE f == Front(k)  hd == Head(right)  tl == Tail(right)
           p0 == Upper(c.start, t.start)  p1 == Lower(c.end, t.end)
<1>1. /\ done \in Seq(Kind(C)) /\ c \in Kind(C) /\ D \in Seq(Kind(C)) /\ t \in Kind(C)
      /\ Good(C, S) /\ c.start \in Int /\ c.end \in Int /\ t.start \in Int /\ t.end \in Int
      /\ c.start < c.end /\ t.start < t.end /\ Among(C, done, c, D)
  BY DEF Facing, Among
<1>2. TurnKinds(C, D, t, sub, k, right)
  BY <1>1, TurnTyped, Zenon
<1>3. TurnParts(C, m, done, c, t, sub, D, k, right, p0, p1)
  BY <1>1, TurnGood, Zenon
<1>4. /\ f \in Seq(Kind(C)) /\ right = <<hd>> \o tl /\ hd \in Kind(C) /\ tl \in Seq(Kind(C)) /\ hd.subspan = sub
  BY <1>2 DEF TurnKinds
<1>5. /\ Among(C, f, hd, tl) /\ hd.start <= p0 /\ p1 <= hd.end
      /\ \A p : \/ p \in Area(m, Range(f)) \/ p \in Block(m, hd) \/ p \in Area(m, Range(tl))
                <=> \/ p \in Area(m, Range(done)) \/ p \in Area(m, Range(D))
                    \/ p \in Block(m, Common(c, t, sub)) \/ p \in Below(m, c, p0) \/ p \in From(m, c, p1)
  BY <1>3 DEF TurnParts
<1>6. /\ p0 \in Int /\ p1 \in Int /\ p0 < p1 /\ c.start <= p0 /\ p1 <= c.end /\ p1 <= t.end
      /\ p0 = c.start \/ p0 = t.start
      /\ p1 = c.end \/ p1 = t.end
  BY <1>1 DEF Upper, Lower, Overlap
<1>7. LeftOver(m, c, t, Common(c, t, sub), p0, p1)
  BY <1>1, MiddleLess, Zenon
<1>8. v = IF t.end > hd.end THEN Walk(Append(f, hd), tl, s) ELSE Walk(f, right, S)
  OBVIOUS
<1> HIDE DEF f, hd, tl, p0, p1
<1>9. /\ Good(C, f) /\ Good(C, tl) /\ hd.start < hd.end /\ Ahead(Range(f), {hd}) /\ Ahead({hd}, Range(tl))
      /\ hd.start \in Int /\ hd.end \in Int /\ Range(f) \in SUBSET Kind(C) /\ Range(tl) \in SUBSET Kind(C)
  BY <1>4, <1>5, RangeOfSeq DEF Among, Kind
<1>10. \A x \in Range(f) : x.end <= hd.start /\ x.end \in Int
  BY <1>9 DEF Ahead, Kind
<1>11. \A y \in Range(tl) : hd.end <= y.start /\ y.start \in Int
  BY <1>9 DEF Ahead, Kind
<1>12. \A x \in Range(f), y \in Range(tl) : x.end <= y.start
  BY <1>9, <1>10, <1>11
<1> DEFINE Turned(p) == /\ p \in Area(m, Range(f)) => p[1] \in Int /\ p[1] < hd.start
                        /\ p \in Block(m, hd) => p[1] \in Int /\ hd.start <= p[1] /\ p[1] < hd.end /\ p \notin Block(m, t)
                        /\ p \in Area(m, Range(tl)) => p[1] \in Int /\ hd.end <= p[1]
                        /\ \/ p \in Area(m, Range(f)) \/ p \in Block(m, hd) \/ p \in Area(m, Range(tl))
                           <=> \/ p \in Area(m, Range(done)) \/ p \in Area(m, Range(D))
                               \/ /\ p \in Block(m, c)
                                  /\ (p \notin Block(m, t) /\ p0 <= p[1] /\ p[1] < p1) \/ p[1] < p0 \/ p1 <= p[1]
<1>13. ASSUME NEW p PROVE Turned(p)
  <2>1. p \in Area(m, Range(f)) => p[1] \in Int /\ p[1] < hd.start
    BY <1>4, <1>9, PointsBefore
  <2>2. p \in Area(m, Range(tl)) => p[1] \in Int /\ hd.end <= p[1]
    BY <1>4, <1>9, PointsAfter
  <2>3. p \in Block(m, hd) => p[1] \in Int /\ hd.start <= p[1] /\ p[1] < hd.end
    BY PointsOf
  <2>4. ~(p \in Block(m, hd) /\ p \in Block(m, t))
    BY <1>4 DEF Block, LessOf
  <2>5. p \in Below(m, c, p0) <=> p \in Block(m, c) /\ p[1] < p0
    BY DEF Below
  <2>6. p \in From(m, c, p1) <=> p \in Block(m, c) /\ p1 <= p[1]
    BY DEF From
  <2>7. \/ p \in Area(m, Range(f)) \/ p \in Block(m, hd) \/ p \in Area(m, Range(tl))
        <=> \/ p \in Area(m, Range(done)) \/ p \in Area(m, Range(D))
            \/ p \in Block(m, Common(c, t, sub)) \/ p \in Below(m, c, p0) \/ p \in From(m, c, p1)
    BY <1>5, Zenon
  <2>8. p \in Block(m, Common(c, t, sub)) <=> p \in Block(m, c) /\ p \notin Block(m, t) /\ p0 <= p[1] /\ p[1] < p1
    BY <1>7, Zenon DEF LeftOver
  <2>9. \/ p \in Area(m, Range(f)) \/ p \in Block(m, hd) \/ p \in Area(m, Range(tl))
        <=> \/ p \in Area(m, Range(done)) \/ p \in Area(m, Range(D))
            \/ /\ p \in Block(m, c)
               /\ (p \notin Block(m, t) /\ p0 <= p[1] /\ p[1] < p1) \/ p[1] < p0 \/ p1 <= p[1]
    BY <2>5, <2>6, <2>7, <2>8
  <2> QED  BY <2>1, <2>2, <2>3, <2>4, <2>9
<1>14. CASE t.end > hd.end
  <2>1. v = Walk(Append(f, hd), tl, s)
    BY <1>8, <1>14
  <2>2. /\ Good(C, Append(f, hd)) /\ \A x : x \in Range(Append(f, hd)) <=> x \in Range(f) \/ x = hd
        /\ \A p : p \in Area(m, Range(Append(f, hd))) <=> p \in Area(m, Range(f)) \/ p \in Block(m, hd)
    BY <1>4, <1>9, AppendParts, Zenon
  <2>3. Ahead(Range(Append(f, hd)), Range(tl))
    BY <1>11, <1>12, <2>2 DEF Ahead
  <2>4. Aligned(C, v)
    BY <1>9, <2>1, <2>2, <2>3, AlignedWhen DEF Source
  <2>5. p1 = c.end
    BY <1>1, <1>5, <1>6, <1>9, <1>14
  <2>6. ASSUME NEW p
        PROVE  Remaining(m, v, p) <=> \/ p \in Area(m, Range(done))
                                      \/ /\ p \in Area(m, Range(D)) \/ p \in Block(m, c)
                                         /\ ~(p \in Area(m, Range(S)) \/ p \in Block(m, t))
    <3>1. Remaining(m, v, p) <=> \/ p \in Area(m, Range(f)) \/ p \in Block(m, hd)
                                 \/ p \in Area(m, Range(tl)) /\ p \notin Area(m, Range(s))
      BY <2>1, <2>2, RemainingParts
    <3>2. Placed(m, done, c, D, t, S, p) /\ Turned(p)
      BY <1>13, PointsPlaced, Zenon
    <3>3. p \in Area(m, Range(s)) <=> p \in Area(m, Range(S)) \/ p \in Block(m, t)
      BY DEF Source
    <3>4. p \in Area(m, Range(f)) => \/ p \in Area(m, Range(done))
                                     \/ /\ p \in Area(m, Range(D)) \/ p \in Block(m, c)
                                        /\ ~(p \in Area(m, Range(S)) \/ p \in Block(m, t))
      BY <1>1, <1>5, <1>6, <1>9, <3>2 DEF Placed
    <3>5. p \in Block(m, hd) => \/ p \in Area(m, Range(done))
                                \/ /\ p \in Area(m, Range(D)) \/ p \in Block(m, c)
                                   /\ ~(p \in Area(m, Range(S)) \/ p \in Block(m, t))
      BY <1>1, <1>9, <1>14, <3>2 DEF Placed
    <3>6. p \in Area(m, Range(done)) => p \in Area(m, Range(f)) \/ p \in Block(m, hd)
      BY <1>1, <1>5, <1>6, <1>9, <3>2 DEF Placed
    <3>7. p \in Area(m, Range(D)) \/ p \in Block(m, c) =>
            p \in Area(m, Range(f)) \/ p \in Block(m, hd) \/ p \in Area(m, Range(tl)) \/ p \in Block(m, t)
      BY <1>6, <3>2 DEF Placed
    <3>8. p \in Area(m, Range(tl)) => p \in Area(m, Range(done)) \/ p \in Area(m, Range(D)) \/ p \in Block(m, c)
      BY <3>2
    <3> QED  BY <3>1, <3>3, <3>4, <3>5, <3>6, <3>7, <3>8
  <2> QED  BY <2>4, <2>6 DEF CutParts
<1>15. CASE ~(t.end > hd.end)
  <2> DEFINE d == <<hd>> \o tl
  <2>1. v = Walk(f, d, S)
    BY <1>4, <1>8, <1>15
  <2>2. /\ Good(C, d) /\ \A x : x \in Range(d) <=> x \in Range(tl) \/ x = hd
        /\ \A p : p \in Area(m, Range(d)) <=> p \in Area(m, Range(tl)) \/ p \in Block(m, hd)
    BY <1>4, <1>9, ConsParts, Zenon
  <2> HIDE DEF d
  <2>3. Ahead(Range(f), Range(d))
    BY <1>10, <1>12, <2>2 DEF Ahead
  <2>4. Aligned(C, v)
    BY <1>1, <1>9, <2>1, <2>2, <2>3, AlignedWhen
  <2>6. ASSUME NEW p
        PROVE  Remaining(m, v, p) <=> \/ p \in Area(m, Range(done))
                                      \/ /\ p \in Area(m, Range(D)) \/ p \in Block(m, c)
                                         /\ ~(p \in Area(m, Range(S)) \/ p \in Block(m, t))
    <3>1. Remaining(m, v, p) <=> \/ p \in Area(m, Range(f))
                                 \/ /\ p \in Area(m, Range(tl)) \/ p \in Block(m, hd)
                                    /\ p \notin Area(m, Range(S))
      BY <2>1, <2>2, RemainingParts
    <3>2. Placed(m, done, c, D, t, S, p) /\ Turned(p)
      BY <1>13, PointsPlaced, Zenon
    <3>4. p \in Area(m, Range(f)) => \/ p \in Area(m, Range(done))
                                     \/ /\ p \in Area(m, Range(D)) \/ p \in Block(m, c)
                                        /\ ~(p \in Area(m, Range(S)) \/ p \in Block(m, t))
      BY <1>1, <1>5, <1>6, <1>9, <3>2 DEF Placed
    <3>5. p \in Area(m, Range(tl)) \/ p \in Block(m, hd) => p \notin Block(m, t)
      BY <1>1, <1>9, <1>15, <3>2 DEF Placed
    <3>6. p \in Area(m, Range(tl)) \/ p \in Block(m, hd) =>
            p \in Area(m, Range(done)) \/ p \in Area(m, Range(D)) \/ p \in Block(m, c)
      BY <3>2
    <3>7. p \in Area(m, Range(D)) \/ p \in Block(m, c) =>
            p \in Area(m, Range(f)) \/ p \in Block(m, hd) \/ p \in Area(m, Range(tl)) \/ p \in Block(m, t)
      BY <1>6, <3>2 DEF Placed
    <3>8. p \in Area(m, Range(done)) =>
            /\ p \in Area(m, Range(f)) \/ p \in Block(m, hd) \/ p \in Area(m, Range(tl))
            /\ p \notin Area(m, Range(S))
      BY <1>1, <1>5, <1>6, <1>9, <3>2 DEF Placed, Overlap
    <3> QED  BY <3>1, <3>4, <3>5, <3>6, <3>7, <3>8
  <2> QED  BY <2>4, <2>6 DEF CutParts
<1> QED  BY <1>14, <1>15

\* A turn of SubtractStep keeps the order and the points that remain.
LEMMA SubtractStepGood ==
  ASSUME NEW C, C \subseteq Seq(Spans), NEW m, NEW below, Cuts(C, m, below),
         NEW w \in WalksOf(C), w.d # <<>>, w.s # <<>>, Aligned(C, w)
  PROVE  /\ Aligned(C, SubtractStep(w, below))
         /\ \A p : Remaining(m, SubtractStep(w, below), p) <=> Remaining(m, w, p)
<1> DEFINE c == Head(w.d)  D == Tail(w.d)  t == Head(w.s)  S == Tail(w.s)  done == w.done
           v == SubtractStep(w, below)
           sub == below[Walk(<<>>, c.subspan, t.subspan)]  rest == Behind(c, t) \o D
           p0 == Upper(c.start, t.start)  p1 == Lower(c.end, t.end)
<1>0. Good(C, done) /\ Good(C, w.d) /\ Good(C, w.s) /\ Ahead(Range(done), Range(w.d))
  BY DEF Aligned
<1>1. /\ Facing(C, done, c, D, t, S)
      /\ \A p : p \in Area(m, Range(w.d)) <=> p \in Area(m, Range(D)) \/ p \in Block(m, c)
      /\ \A p : p \in Area(m, Range(w.s)) <=> p \in Area(m, Range(S)) \/ p \in Block(m, t)
  BY FacingParts, Zenon
<1>2. CASE c.start >= t.end
  <2>1. v = Walk(done, w.d, S)
    BY <1>2, Zenon DEF SubtractStep
  <2> HIDE DEF v, t, S, done, c, D
  <2>2. Good(C, S) /\ c.start \in Int /\ c.end \in Int /\ t.end \in Int /\ c.start < c.end
    BY <1>1 DEF Facing
  <2>3. Aligned(C, v)
    BY <1>0, <2>1, <2>2, AlignedWhen
  <2>4. ASSUME NEW p PROVE Remaining(m, v, p) <=> Remaining(m, w, p)
    <3>1. Remaining(m, v, p) <=> p \in Area(m, Range(done)) \/ (p \in Area(m, Range(w.d)) /\ p \notin Area(m, Range(S)))
      BY <2>1, RemainingParts
    <3>2. Placed(m, done, c, D, t, S, p)
      BY <1>1, PointsPlaced, Zenon
    <3>3. ~(p \in Area(m, Range(w.d)) /\ p \in Block(m, t))
      BY <1>1, <1>2, <2>2, <3>2 DEF Placed
    <3> QED  BY <1>1, <3>1, <3>3 DEF Remaining, done
  <2> QED  BY <2>3, <2>4 DEF v
<1>3. CASE ~(c.start >= t.end) /\ c.end <= t.start
  <2>1. v = Walk(Append(done, c), D, w.s)
    BY <1>3, Zenon DEF SubtractStep
  <2> HIDE DEF v, t, S, done, c, D
  <2>2. /\ done \in Seq(Kind(C)) /\ c \in Kind(C)
        /\ Good(C, D) /\ c.start \in Int /\ c.end \in Int /\ t.start \in Int /\ t.end \in Int /\ t.start < t.end
        /\ c.start < c.end /\ Ahead({c}, Range(D)) /\ Ahead(Range(done), {c}) /\ Ahead(Range(done), Range(D))
    BY <1>1 DEF Facing
  <2>3. /\ Good(C, Append(done, c)) /\ \A x : x \in Range(Append(done, c)) <=> x \in Range(done) \/ x = c
        /\ \A p : p \in Area(m, Range(Append(done, c))) <=> p \in Area(m, Range(done)) \/ p \in Block(m, c)
    BY <1>0, <2>2, AppendParts, Zenon
  <2>4. Ahead(Range(Append(done, c)), Range(D))
    BY <2>2, <2>3 DEF Ahead
  <2>5. Aligned(C, v)
    BY <1>0, <2>1, <2>2, <2>3, <2>4, AlignedWhen
  <2>6. ASSUME NEW p PROVE Remaining(m, v, p) <=> Remaining(m, w, p)
    <3>1. Remaining(m, v, p) <=> p \in Area(m, Range(Append(done, c))) \/ (p \in Area(m, Range(D)) /\ p \notin Area(m, Range(w.s)))
      BY <2>1, RemainingParts
    <3>2. Placed(m, done, c, D, t, S, p)
      BY <1>1, PointsPlaced, Zenon
    <3>3. ~(p \in Block(m, c) /\ p \in Area(m, Range(w.s)))
      BY <1>1, <1>3, <2>2, <3>2 DEF Placed
    <3> QED  BY <1>1, <2>3, <3>1, <3>3 DEF Remaining, done
  <2> QED  BY <2>5, <2>6 DEF v
<1>4. CASE ~(c.start >= t.end) /\ ~(c.end <= t.start)
  <2>1. SubtractTurn(w, c, t, sub, v)
    BY <1>4, SubtractStepOverlaps, Zenon
  <2>2. /\ done \in Seq(Kind(C)) /\ c \in Kind(C) /\ t \in Kind(C) /\ D \in Seq(Kind(C)) /\ Good(C, S) /\ Good(C, D)
        /\ c.start \in Int /\ c.end \in Int /\ t.start \in Int /\ t.end \in Int /\ c.start < c.end /\ t.start < t.end
        /\ Ahead(Range(done), {c}) /\ Ahead({c}, Range(D)) /\ Ahead(Range(done), Range(D)) /\ Good(C, done)
    BY <1>1 DEF Facing
  <2>3. IF sub = <<>> THEN Within(m, c.subspan, t.subspan) ELSE sub \in C /\ LessOf(m, sub, c.subspan, t.subspan)
    <3>1. c.subspan \in C /\ t.subspan \in C
      BY <2>2 DEF Kind
    <3> QED  BY <3>1 DEF Cuts
  <2>4. /\ sub = <<>> => v = Walk(done \o InFront(c, t), rest, w.s)
        /\ sub # <<>> => \E k, right :
              /\ Merged(done, c, t, sub, D, k, right)
              /\ v = IF t.end > Head(right).end THEN Walk(Append(Front(k), Head(right)), Tail(right), w.s)
                     ELSE Walk(Front(k), right, S)
    BY <2>1 DEF SubtractTurn
  <2> HIDE DEF v, c, t, D, S, sub, done
  <2>5. Overlap(c, t) /\ Source(C, m, w.s, t, S)
    BY <1>0, <1>1, <1>4, <2>2 DEF Overlap, Source
  <2>6. CutParts(C, m, done, c, D, t, S, v)
    <3>1. CASE sub = <<>>
      <4>1. v = Walk(done \o InFront(c, t), Behind(c, t) \o D, w.s) /\ Within(m, c.subspan, t.subspan)
        BY <2>3, <2>4, <3>1
      <4> QED  BY <1>1, <2>5, <4>1, SubtractAll
    <3>2. CASE sub # <<>>
      <4>1. sub \in C /\ LessOf(m, sub, c.subspan, t.subspan)
        BY <2>3, <3>2
      <4>2. PICK k, right :
              /\ Merged(done, c, t, sub, D, k, right)
              /\ v = IF t.end > Head(right).end THEN Walk(Append(Front(k), Head(right)), Tail(right), w.s)
                     ELSE Walk(Front(k), right, S)
        BY <2>4, <3>2
      <4> QED  BY <1>1, <2>5, <4>1, <4>2, SubtractSome
    <3> QED  BY <3>1, <3>2
  <2>7. \A p : Remaining(m, w, p) <=> \/ p \in Area(m, Range(done))
                                     \/ /\ p \in Area(m, Range(D)) \/ p \in Block(m, c)
                                        /\ ~(p \in Area(m, Range(S)) \/ p \in Block(m, t))
    BY <1>1 DEF Remaining, done
  <2> QED  BY <2>6, <2>7 DEF CutParts, v
<1> QED  BY <1>2, <1>3, <1>4

-----------------------------------------------------------------------------
(* The operations, as loops over walks.                                      *)

\* The walks of the operations, and the one that each call starts with.
LEMMA WalksAre ==
  /\ Walks = WalksOf(Seq(Spans))
  /\ \A C : C \subseteq Seq(Spans) => WalksOf(C) \subseteq Walks
<1>1. Walks = WalksOf(Seq(Spans))
  BY ListsOfKind DEF Walks, WalksOf
<1>2. ASSUME NEW C, C \subseteq Seq(Spans) PROVE WalksOf(C) \subseteq Walks
  <2>1. Seq(Kind(C)) \subseteq Lists
    BY <1>2, ListsOfKind
  <2> QED  BY <2>1 DEF Walks, WalksOf
<1> QED  BY <1>1, <1>2

\* What a loop over walks makes of those of a set that it does not leave.
LEMMA WalkResult ==
  ASSUME NEW C, C \subseteq Seq(Spans), NEW f, NEW stop, NEW res, NEW next, Loops(f, Walks, stop, res, next),
         NEW J \in SUBSET WalksOf(C), \A w \in J : w \notin stop => next[w] \in J /\ Rank(next[w]) < Rank(w),
         NEW Q, Ends(stop, res, J, Q)
  PROVE  \A w \in J : f[w] \in Q
<1> DEFINE rank == [w \in J |-> Rank(w)]
<1>1. rank \in [J -> Nat]
  <2>1. \A w \in J : Rank(w) \in Nat
    BY RankTyped
  <2> QED  BY <2>1
<1>2. \A w \in J : w \notin stop => next[w] \in J /\ rank[next[w]] < rank[w]
  OBVIOUS
<1>3. J \in SUBSET Walks
  BY WalksAre
<1> HIDE DEF rank
<1>4. Turns(Walks, stop, next, J, rank)
  BY <1>1, <1>2, <1>3 DEF Turns
<1> QED  BY <1>4, LoopResult

\* Without spans below, the loop works on spans of no content.
Typed(C, below) == \A x, y \in C : below[Walk(<<>>, x, y)] \in C

LEMMA WalkOf ==
  ASSUME NEW C, C \subseteq Seq(Spans), NEW x \in Seq(Kind(C)), NEW y \in Seq(Kind(C))
  PROVE  /\ Walk(<<>>, x, y) \in WalksOf(C) /\ Walk(<<>>, x, y) \in Walks
         /\ Walk(<<>>, x, y).done = <<>> /\ Walk(<<>>, x, y).d = x /\ Walk(<<>>, x, y).s = y
<1>1. <<>> \in Seq(Kind(C))
  BY EmptySeq
<1> DEFINE w == Walk(<<>>, x, y)
<1>2. w \in WalksOf(C) /\ w.done = <<>> /\ w.d = x /\ w.s = y
  <2> DEFINE done == <<>>
  <2>1. done \in Seq(Kind(C))
    BY <1>1
  <2> HIDE DEF done
  <2>2. /\ Walk(done, x, y) \in WalksOf(C)
        /\ Walk(done, x, y).done = done /\ Walk(done, x, y).d = x /\ Walk(done, x, y).s = y
    BY <2>1 DEF Walk, WalksOf
  <2> QED  BY <2>2 DEF done
<1> HIDE DEF w
<1>3. w \in Walks
  BY <1>2, WalksAre
<1> QED  BY <1>2, <1>3 DEF w

\* Spans have no content to work on.
LEMMA NothingBelow ==
  ASSUME NEW C, C \subseteq Seq(Spans), NoSubspan \in C
  PROVE  \A x, y \in C : NoneBelow[Walk(<<>>, x, y)] = NoSubspan
<1>1. ASSUME NEW x \in C, NEW y \in C PROVE NoneBelow[Walk(<<>>, x, y)] = NoSubspan
  <2>1. {NoSubspan} \subseteq Seq(Spans) /\ x \in Seq(Kind({NoSubspan})) /\ y \in Seq(Kind({NoSubspan}))
    BY ListsOfKind
  <2>2. Walk(<<>>, x, y) \in Walks
    BY <2>1, WalkOf
  <2> QED  BY <2>2 DEF NoneBelow
<1> QED  BY <1>1

-----------------------------------------------------------------------------
(* sraSpanListOr.                                                            *)

OrStop == {w \in Walks : w.s = <<>>}
BothOf == [w \in Walks |-> w.done \o w.d]
OrNext(below) == [w \in Walks |-> OrStep(w, below)]
OrLoop(f, below) == Loops(f, Walks, OrStop, BothOf, OrNext(below))

\* There is such a loop, so that SpansOr and ListOr, which are defined as one, are one.
LEMMA OrExists ==
  ASSUME NEW below, Typed(Seq(Spans), below)
  PROVE  \E f : OrLoop(f, below)
<1> DEFINE next == OrNext(below)
<1>1. ASSUME NEW w \in Walks, w \notin OrStop PROVE next[w] \in Walks
  <2>1. w \in WalksOf(Seq(Spans)) /\ w.s # <<>>
    BY <1>1, WalksAre DEF OrStop
  <2>2. OrStep(w, below) \in WalksOf(Seq(Spans))
    BY <2>1, OrStepTyped DEF Typed
  <2> QED  BY <2>2, WalksAre DEF OrNext
<1> HIDE DEF next
<1>2. \E f : Loops(f, Walks, OrStop, BothOf, next)
  BY <1>1, LoopExists
<1> QED  BY <1>2 DEF OrLoop, next

OrFunction(f, below) == f = [w \in Walks |-> IF w.s = <<>> THEN w.done \o w.d ELSE f[OrStep(w, below)]]

LEMMA OrFunctionLoops ==
  ASSUME NEW f, NEW below
  PROVE  OrLoop(f, below) <=> OrFunction(f, below)
<1>1. ASSUME NEW w \in Walks
      PROVE  (IF w \in OrStop THEN BothOf[w] ELSE f[OrNext(below)[w]])
             = (IF w.s = <<>> THEN w.done \o w.d ELSE f[OrStep(w, below)])
  BY DEF OrStop, BothOf, OrNext
<1> QED  BY <1>1 DEF OrLoop, Loops, OrFunction

\* SpansOr is this loop with nothing below it.
LEMMA SpansOrLoop == OrLoop(SpansOr, NoneBelow)
<1>1. Typed(Seq(Spans), NoneBelow)
  <2>1. NoSubspan \in Seq(Spans)
    BY ListsOfKind
  <2> QED  BY <2>1, NothingBelow DEF Typed
<1>2. \E f : OrFunction(f, NoneBelow)
  BY <1>1, OrExists, OrFunctionLoops
<1>3. SpansOr = CHOOSE f : OrFunction(f, NoneBelow)
  BY DEF SpansOr, OrFunction
<1>4. OrFunction(SpansOr, NoneBelow)
  BY <1>2, <1>3
<1> QED  BY <1>4, OrFunctionLoops

\* It makes a list of the kind of two lists of the kind.
LEMMA OrTyped ==
  ASSUME NEW C, C \subseteq Seq(Spans), NEW below, Typed(C, below), NEW f, OrLoop(f, below)
  PROVE  \A x, y \in Seq(Kind(C)) : f[Walk(<<>>, x, y)] \in Seq(Kind(C))
<1> DEFINE J == WalksOf(C)  Q == Seq(Kind(C))  next == OrNext(below)
<1>1. ASSUME NEW w \in J, w \notin OrStop PROVE next[w] \in J /\ Rank(next[w]) < Rank(w)
  <2>1. w \in Walks /\ w.s # <<>>
    BY <1>1, WalksAre DEF OrStop
  <2>2. OrStep(w, below) \in WalksOf(C) /\ Rank(OrStep(w, below)) < Rank(w)
    BY <2>1, OrStepTyped DEF Typed
  <2> QED  BY <2>1, <2>2 DEF OrNext
<1>2. Ends(OrStop, BothOf, J, Q)
  <2>1. ASSUME NEW w \in J PROVE BothOf[w] \in Q
    <3>1. w \in Walks /\ w.done \in Seq(Kind(C)) /\ w.d \in Seq(Kind(C))
      BY WalksAre DEF WalksOf
    <3>2. w.done \o w.d \in Q
      BY <3>1, ConcatProperties
    <3> QED  BY <3>1, <3>2 DEF BothOf
  <2> QED  BY <2>1 DEF Ends
<1>3. Loops(f, Walks, OrStop, BothOf, next)
  BY DEF OrLoop
<1> HIDE DEF next, Q
<1>4. \A w \in J : f[w] \in Q
  BY <1>1, <1>2, <1>3, WalkResult
<1>5. \A x, y \in Seq(Kind(C)) : Walk(<<>>, x, y) \in J
  BY WalkOf
<1> QED  BY <1>4, <1>5 DEF Q

\* ListOr is this loop with SpansOr below it.
LEMMA ListOrLoop == OrLoop(ListOr, SpansOr)
<1> DEFINE C == {NoSubspan}
<1>0. C \subseteq Seq(Spans) /\ Seq(Spans) = Seq(Kind(C))
  BY ListsOfKind
<1>1. Typed(C, NoneBelow)
  BY <1>0, NothingBelow DEF Typed
<1>2. Typed(Seq(Spans), SpansOr)
  <2> HIDE DEF C
  <2>1. \A x, y \in Seq(Kind(C)) : SpansOr[Walk(<<>>, x, y)] \in Seq(Kind(C))
    BY <1>0, <1>1, SpansOrLoop, OrTyped
  <2> QED  BY <1>0, <2>1 DEF Typed
<1>3. \E f : OrFunction(f, SpansOr)
  BY <1>2, OrExists, OrFunctionLoops
<1>4. ListOr = CHOOSE f : OrFunction(f, SpansOr)
  BY DEF ListOr, OrFunction
<1>5. OrFunction(ListOr, SpansOr)
  BY <1>3, <1>4
<1> QED  BY <1>5, OrFunctionLoops

StandsFor(C, m, l, w) == Good(C, l) /\ \A p : p \in Area(m, Range(l)) <=> Standing(m, w, p)

\* The union of two lists, in order again.
Joins(C, m, f, x, y) ==
  /\ Good(C, f[Walk(<<>>, x, y)])
  /\ \A p : p \in Area(m, Range(f[Walk(<<>>, x, y)])) <=> p \in Area(m, Range(x)) \/ p \in Area(m, Range(y))

\* It makes of two good lists a good list with the points of both.
LEMMA OrGood ==
  ASSUME NEW C, C \subseteq Seq(Spans), NEW m, NEW below, Unites(C, m, below), NEW f, OrLoop(f, below),
         NEW x, Good(C, x), NEW y, Good(C, y)
  PROVE  Joins(C, m, f, x, y)
<1> DEFINE a == Walk(<<>>, x, y)
           Same(w) == \A p : Standing(m, w, p) <=> Standing(m, a, p)
           J == {w \in WalksOf(C) : Abreast(C, w) /\ Same(w)}
           Q == {l \in Seq(Kind(C)) : StandsFor(C, m, l, a)}
           next == OrNext(below)
<1>0. x \in Seq(Kind(C)) /\ y \in Seq(Kind(C))
  BY DEF Good
<1>1. ASSUME NEW w \in J, w \notin OrStop PROVE next[w] \in J /\ Rank(next[w]) < Rank(w)
  <2>1. w \in Walks /\ w.s # <<>> /\ w \in WalksOf(C) /\ Abreast(C, w) /\ Same(w)
    BY <1>1, WalksAre DEF OrStop
  <2>2. OrStep(w, below) \in WalksOf(C) /\ Rank(OrStep(w, below)) < Rank(w)
    BY <2>1, OrStepTyped DEF Unites
  <2>3. Abreast(C, OrStep(w, below)) /\ \A p : Standing(m, OrStep(w, below), p) <=> Standing(m, w, p)
    BY <2>1, OrStepGood, Zenon
  <2>4. Same(OrStep(w, below))
    BY <2>1, <2>3
  <2>5. next[w] = OrStep(w, below)
    BY <2>1 DEF OrNext
  <2> QED  BY <2>2, <2>3, <2>4, <2>5
<1>2. Ends(OrStop, BothOf, J, Q)
  <2>1. ASSUME NEW w \in J, w \in OrStop PROVE BothOf[w] \in Q
    <3>1. w \in Walks /\ w.s = <<>> /\ w.done \in Seq(Kind(C)) /\ w.d \in Seq(Kind(C)) /\ Abreast(C, w) /\ Same(w)
      BY <2>1, WalksAre DEF WalksOf, OrStop
    <3> DEFINE l == w.done \o w.d
    <3>2. /\ l \in Seq(Kind(C))
          /\ Good(C, l) <=> Good(C, w.done) /\ Good(C, w.d) /\ Ahead(Range(w.done), Range(w.d))
          /\ \A p : p \in Area(m, Range(l)) <=> p \in Area(m, Range(w.done)) \/ p \in Area(m, Range(w.d))
      BY <3>1, ConcatParts, Zenon
    <3>3. BothOf[w] = l
      BY <3>1 DEF BothOf
    <3> HIDE DEF l
    <3>4. \A p : p \notin Area(m, Range(w.s))
      BY <3>1, RangeNone DEF Area
    <3>5. Good(C, l)
      BY <3>1, <3>2 DEF Abreast, Aligned
    <3>6. \A p : p \in Area(m, Range(l)) <=> Standing(m, w, p)
      BY <3>2, <3>4 DEF Standing
    <3>7. \A p : p \in Area(m, Range(l)) <=> Standing(m, a, p)
      BY <3>1, <3>6
    <3>8. l \in Q
      <4> HIDE DEF J, a
      <4>1. l \in Seq(Kind(C)) /\ StandsFor(C, m, l, a)
        BY <3>2, <3>5, <3>7 DEF StandsFor
      <4> HIDE DEF a
      <4> QED  BY <4>1, Zenon
    <3> QED  BY <3>3, <3>8
  <2> QED  BY <2>1 DEF Ends
<1>3. Loops(f, Walks, OrStop, BothOf, next)
  BY DEF OrLoop
<1>4. a \in J
  <2>1. a \in WalksOf(C) /\ a.done = <<>> /\ a.d = x /\ a.s = y
    BY <1>0, WalkOf
  <2>2. Range(<<>>) = {} /\ Good(C, <<>>)
    BY GoodNone, Zenon
  <2>3. Abreast(C, a)
    BY <2>1, <2>2 DEF Abreast, Aligned, Ahead
  <2> QED  BY <2>1, <2>3
<1>5. f[a] \in Q
  <2>1. J \in SUBSET WalksOf(C)
    OBVIOUS
  <2> HIDE DEF next, Q, J, a
  <2> QED  BY <1>1, <1>2, <1>3, <1>4, <2>1, WalkResult
<1>6. \A p : Standing(m, a, p) <=> p \in Area(m, Range(x)) \/ p \in Area(m, Range(y))
  <2>1. a.done = <<>> /\ a.d = x /\ a.s = y
    BY <1>0, WalkOf
  <2>2. \A p : p \notin Area(m, Range(<<>>))
    BY RangeNone DEF Area
  <2> QED  BY <2>1, <2>2 DEF Standing
<1> HIDE DEF a
<1>7. Good(C, f[a]) /\ \A p : p \in Area(m, Range(f[a])) <=> Standing(m, a, p)
  BY <1>5 DEF StandsFor
<1> QED  BY <1>6, <1>7 DEF Joins, a

-----------------------------------------------------------------------------
(* sraSpanListAnd.                                                           *)

ShortStop == {w \in Walks : w.s = <<>> \/ w.d = <<>>}
DoneOf == [w \in Walks |-> w.done]
AndNext(below) == [w \in Walks |-> AndStep(w, below)]
AndLoop(f, below) == Loops(f, Walks, ShortStop, DoneOf, AndNext(below))

\* There is such a loop, so that SpansAnd and ListAnd are one.
LEMMA AndExists ==
  ASSUME NEW below, Shares(Seq(Spans), below)
  PROVE  \E f : AndLoop(f, below)
<1> DEFINE next == AndNext(below)
<1>1. ASSUME NEW w \in Walks, w \notin ShortStop PROVE next[w] \in Walks
  <2>1. w \in WalksOf(Seq(Spans)) /\ w.s # <<>> /\ w.d # <<>>
    BY <1>1, WalksAre DEF ShortStop
  <2>2. AndStep(w, below) \in WalksOf(Seq(Spans))
    BY <2>1, AndStepTyped DEF Shares
  <2> QED  BY <2>2, WalksAre DEF AndNext
<1> HIDE DEF next
<1>2. \E f : Loops(f, Walks, ShortStop, DoneOf, next)
  BY <1>1, LoopExists
<1> QED  BY <1>2 DEF AndLoop, next

AndFunction(f, below) == f = [w \in Walks |-> IF w.s = <<>> \/ w.d = <<>> THEN w.done ELSE f[AndStep(w, below)]]

LEMMA AndFunctionLoops ==
  ASSUME NEW f, NEW below
  PROVE  AndLoop(f, below) <=> AndFunction(f, below)
<1>1. ASSUME NEW w \in Walks
      PROVE  (IF w \in ShortStop THEN DoneOf[w] ELSE f[AndNext(below)[w]])
             = (IF w.s = <<>> \/ w.d = <<>> THEN w.done ELSE f[AndStep(w, below)])
  BY DEF ShortStop, DoneOf, AndNext
<1> QED  BY <1>1 DEF AndLoop, Loops, AndFunction

\* SpansAnd is this loop with nothing below it.
LEMMA SpansAndLoop == AndLoop(SpansAnd, NoneBelow)
<1>1. Shares(Seq(Spans), NoneBelow)
  <2>1. NoSubspan \in Seq(Spans)
    BY ListsOfKind
  <2> QED  BY <2>1, NothingBelow DEF Shares
<1>2. \E f : AndFunction(f, NoneBelow)
  BY <1>1, AndExists, AndFunctionLoops
<1>3. SpansAnd = CHOOSE f : AndFunction(f, NoneBelow)
  BY DEF SpansAnd, AndFunction
<1>4. AndFunction(SpansAnd, NoneBelow)
  BY <1>2, <1>3
<1> QED  BY <1>4, AndFunctionLoops

\* It makes a list of the kind of two lists of the kind.
LEMMA AndTyped ==
  ASSUME NEW C, C \subseteq Seq(Spans), NEW below, Shares(C, below), NEW f, AndLoop(f, below)
  PROVE  \A x, y \in Seq(Kind(C)) : f[Walk(<<>>, x, y)] \in Seq(Kind(C))
<1> DEFINE J == WalksOf(C)  Q == Seq(Kind(C))  next == AndNext(below)
<1>1. ASSUME NEW w \in J, w \notin ShortStop PROVE next[w] \in J /\ Rank(next[w]) < Rank(w)
  <2>1. w \in Walks /\ w.s # <<>> /\ w.d # <<>>
    BY <1>1, WalksAre DEF ShortStop
  <2>2. AndStep(w, below) \in WalksOf(C) /\ Rank(AndStep(w, below)) < Rank(w)
    BY <2>1, AndStepTyped DEF Shares
  <2> QED  BY <2>1, <2>2 DEF AndNext
<1>2. Ends(ShortStop, DoneOf, J, Q)
  <2>1. ASSUME NEW w \in J PROVE DoneOf[w] \in Q
    <3>1. w \in Walks /\ w.done \in Seq(Kind(C))
      BY WalksAre DEF WalksOf
    <3>2. w.done \in Q
      BY <3>1
    <3> QED  BY <3>1, <3>2 DEF DoneOf
  <2> QED  BY <2>1 DEF Ends
<1>3. Loops(f, Walks, ShortStop, DoneOf, next)
  BY DEF AndLoop
<1> HIDE DEF next, Q
<1>4. \A w \in J : f[w] \in Q
  BY <1>1, <1>2, <1>3, WalkResult
<1>5. \A x, y \in Seq(Kind(C)) : Walk(<<>>, x, y) \in J
  BY WalkOf
<1> QED  BY <1>4, <1>5 DEF Q

\* ListAnd is this loop with SpansAnd below it.
LEMMA ListAndLoop == AndLoop(ListAnd, SpansAnd)
<1> DEFINE C == {NoSubspan}
<1>0. C \subseteq Seq(Spans) /\ Seq(Spans) = Seq(Kind(C))
  BY ListsOfKind
<1>1. Shares(C, NoneBelow)
  BY <1>0, NothingBelow DEF Shares
<1>2. Shares(Seq(Spans), SpansAnd)
  <2> HIDE DEF C
  <2>1. \A x, y \in Seq(Kind(C)) : SpansAnd[Walk(<<>>, x, y)] \in Seq(Kind(C))
    BY <1>0, <1>1, SpansAndLoop, AndTyped
  <2> QED  BY <1>0, <2>1 DEF Shares
<1>3. \E f : AndFunction(f, SpansAnd)
  BY <1>2, AndExists, AndFunctionLoops
<1>4. ListAnd = CHOOSE f : AndFunction(f, SpansAnd)
  BY DEF ListAnd, AndFunction
<1>5. AndFunction(ListAnd, SpansAnd)
  BY <1>3, <1>4
<1> QED  BY <1>5, AndFunctionLoops

IsCommon(C, m, l, w) == Good(C, l) /\ \A p : p \in Area(m, Range(l)) <=> Meeting(m, w, p)

\* The intersection of two lists, in order again.
Intersects(C, m, f, x, y) ==
  /\ Good(C, f[Walk(<<>>, x, y)])
  /\ \A p : p \in Area(m, Range(f[Walk(<<>>, x, y)])) <=> p \in Area(m, Range(x)) /\ p \in Area(m, Range(y))

\* It makes of two good lists a good list with the points they share.
LEMMA AndGood ==
  ASSUME NEW C, C \subseteq Seq(Spans), NEW m, NEW below, Meets(C, m, below), NEW f, AndLoop(f, below),
         NEW x, Good(C, x), NEW y, Good(C, y)
  PROVE  Intersects(C, m, f, x, y)
<1> DEFINE a == Walk(<<>>, x, y)
           Same(w) == \A p : Meeting(m, w, p) <=> Meeting(m, a, p)
           J == {w \in WalksOf(C) : Aligned(C, w) /\ Same(w)}
           Q == {l \in Seq(Kind(C)) : IsCommon(C, m, l, a)}
           next == AndNext(below)
<1>0. x \in Seq(Kind(C)) /\ y \in Seq(Kind(C))
  BY DEF Good
<1>8. Shares(C, below)
  BY DEF Meets, Shares
<1>1. ASSUME NEW w \in J, w \notin ShortStop PROVE next[w] \in J /\ Rank(next[w]) < Rank(w)
  <2>1. w \in Walks /\ w.s # <<>> /\ w.d # <<>> /\ w \in WalksOf(C) /\ Aligned(C, w) /\ Same(w)
    BY <1>1, WalksAre DEF ShortStop
  <2>2. AndStep(w, below) \in WalksOf(C) /\ Rank(AndStep(w, below)) < Rank(w)
    BY <1>8, <2>1, AndStepTyped
  <2>3. Aligned(C, AndStep(w, below)) /\ \A p : Meeting(m, AndStep(w, below), p) <=> Meeting(m, w, p)
    BY <2>1, AndStepGood, Zenon
  <2>4. Same(AndStep(w, below))
    BY <2>1, <2>3
  <2>5. next[w] = AndStep(w, below)
    BY <2>1 DEF AndNext
  <2> QED  BY <2>2, <2>3, <2>4, <2>5
<1>2. Ends(ShortStop, DoneOf, J, Q)
  <2>1. ASSUME NEW w \in J, w \in ShortStop PROVE DoneOf[w] \in Q
    <3>1. /\ w \in Walks
          /\ w.s = <<>> \/ w.d = <<>>
          /\ w.done \in Seq(Kind(C)) /\ w.d \in Seq(Kind(C)) /\ Aligned(C, w) /\ Same(w)
      BY <2>1, WalksAre DEF WalksOf, ShortStop
    <3> DEFINE l == w.done
    <3>2. l \in Seq(Kind(C)) /\ l = w.done
      BY <3>1
    <3>3. DoneOf[w] = l
      BY <3>1 DEF DoneOf
    <3> HIDE DEF l
    <3>4. \A p : ~(p \in Area(m, Range(w.d)) /\ p \in Area(m, Range(w.s)))
      BY <3>1, RangeNone DEF Area
    <3>5. Good(C, l)
      BY <3>1, <3>2 DEF Aligned
    <3>6. \A p : p \in Area(m, Range(l)) <=> Meeting(m, w, p)
      BY <3>2, <3>4 DEF Meeting
    <3>7. \A p : p \in Area(m, Range(l)) <=> Meeting(m, a, p)
      BY <3>1, <3>6
    <3>8. l \in Q
      <4> HIDE DEF J, a
      <4>1. l \in Seq(Kind(C)) /\ IsCommon(C, m, l, a)
        BY <3>2, <3>5, <3>7 DEF IsCommon
      <4> HIDE DEF a
      <4> QED  BY <4>1, Zenon
    <3> QED  BY <3>3, <3>8
  <2> QED  BY <2>1 DEF Ends
<1>3. Loops(f, Walks, ShortStop, DoneOf, next)
  BY DEF AndLoop
<1>4. a \in J
  <2>1. a \in WalksOf(C) /\ a.done = <<>> /\ a.d = x /\ a.s = y
    BY <1>0, WalkOf
  <2>2. Range(<<>>) = {} /\ Good(C, <<>>)
    BY GoodNone, Zenon
  <2>3. Aligned(C, a)
    BY <2>1, <2>2 DEF Aligned, Ahead
  <2> QED  BY <2>1, <2>3
<1>5. f[a] \in Q
  <2>1. J \in SUBSET WalksOf(C)
    OBVIOUS
  <2> HIDE DEF next, Q, J, a
  <2> QED  BY <1>1, <1>2, <1>3, <1>4, <2>1, WalkResult
<1>6. \A p : Meeting(m, a, p) <=> p \in Area(m, Range(x)) /\ p \in Area(m, Range(y))
  <2>1. a.done = <<>> /\ a.d = x /\ a.s = y
    BY <1>0, WalkOf
  <2>2. \A p : p \notin Area(m, Range(<<>>))
    BY RangeNone DEF Area
  <2> QED  BY <2>1, <2>2 DEF Meeting
<1> HIDE DEF a
<1>7. Good(C, f[a]) /\ \A p : p \in Area(m, Range(f[a])) <=> Meeting(m, a, p)
  BY <1>5 DEF IsCommon
<1> QED  BY <1>6, <1>7 DEF Intersects, a

-----------------------------------------------------------------------------
(* sraSpanListSubtract.                                                      *)

SubtractNext(below) == [w \in Walks |-> SubtractStep(w, below)]
SubtractLoop(f, below) == Loops(f, Walks, ShortStop, BothOf, SubtractNext(below))

\* There is such a loop, so that SpansSubtract and ListSubtract are one.
LEMMA SubtractExists ==
  ASSUME NEW below, Leaves(Seq(Spans), below)
  PROVE  \E f : SubtractLoop(f, below)
<1> DEFINE next == SubtractNext(below)
<1>1. ASSUME NEW w \in Walks, w \notin ShortStop PROVE next[w] \in Walks
  <2>1. w \in WalksOf(Seq(Spans)) /\ w.s # <<>> /\ w.d # <<>>
    BY <1>1, WalksAre DEF ShortStop
  <2>2. SubtractStep(w, below) \in WalksOf(Seq(Spans))
    BY <2>1, SubtractStepTyped DEF Leaves
  <2> QED  BY <2>2, WalksAre DEF SubtractNext
<1> HIDE DEF next
<1>2. \E f : Loops(f, Walks, ShortStop, BothOf, next)
  BY <1>1, LoopExists
<1> QED  BY <1>2 DEF SubtractLoop, next

SubtractFunction(f, below) == f = [w \in Walks |-> IF w.s = <<>> \/ w.d = <<>> THEN w.done \o w.d ELSE f[SubtractStep(w, below)]]

LEMMA SubtractFunctionLoops ==
  ASSUME NEW f, NEW below
  PROVE  SubtractLoop(f, below) <=> SubtractFunction(f, below)
<1>1. ASSUME NEW w \in Walks
      PROVE  (IF w \in ShortStop THEN BothOf[w] ELSE f[SubtractNext(below)[w]])
             = (IF w.s = <<>> \/ w.d = <<>> THEN w.done \o w.d ELSE f[SubtractStep(w, below)])
  BY DEF ShortStop, BothOf, SubtractNext
<1> QED  BY <1>1 DEF SubtractLoop, Loops, SubtractFunction

\* SpansSubtract is this loop with nothing below it.
LEMMA SpansSubtractLoop == SubtractLoop(SpansSubtract, NoneBelow)
<1>1. Leaves(Seq(Spans), NoneBelow)
  <2>1. NoSubspan \in Seq(Spans)
    BY ListsOfKind
  <2> QED  BY <2>1, NothingBelow DEF Leaves
<1>2. \E f : SubtractFunction(f, NoneBelow)
  BY <1>1, SubtractExists, SubtractFunctionLoops
<1>3. SpansSubtract = CHOOSE f : SubtractFunction(f, NoneBelow)
  BY DEF SpansSubtract, SubtractFunction
<1>4. SubtractFunction(SpansSubtract, NoneBelow)
  BY <1>2, <1>3
<1> QED  BY <1>4, SubtractFunctionLoops

\* It makes a list of the kind of two lists of the kind.
LEMMA SubtractTyped ==
  ASSUME NEW C, C \subseteq Seq(Spans), NEW below, Leaves(C, below), NEW f, SubtractLoop(f, below)
  PROVE  \A x, y \in Seq(Kind(C)) : f[Walk(<<>>, x, y)] \in Seq(Kind(C))
<1> DEFINE J == WalksOf(C)  Q == Seq(Kind(C))  next == SubtractNext(below)
<1>1. ASSUME NEW w \in J, w \notin ShortStop PROVE next[w] \in J /\ Rank(next[w]) < Rank(w)
  <2>1. w \in Walks /\ w.s # <<>> /\ w.d # <<>>
    BY <1>1, WalksAre DEF ShortStop
  <2>2. SubtractStep(w, below) \in WalksOf(C) /\ Rank(SubtractStep(w, below)) < Rank(w)
    BY <2>1, SubtractStepTyped DEF Leaves
  <2> QED  BY <2>1, <2>2 DEF SubtractNext
<1>2. Ends(ShortStop, BothOf, J, Q)
  <2>1. ASSUME NEW w \in J PROVE BothOf[w] \in Q
    <3>1. w \in Walks /\ w.done \in Seq(Kind(C)) /\ w.d \in Seq(Kind(C))
      BY WalksAre DEF WalksOf
    <3>2. w.done \o w.d \in Q
      BY <3>1, ConcatProperties
    <3> QED  BY <3>1, <3>2 DEF BothOf
  <2> QED  BY <2>1 DEF Ends
<1>3. Loops(f, Walks, ShortStop, BothOf, next)
  BY DEF SubtractLoop
<1> HIDE DEF next, Q
<1>4. \A w \in J : f[w] \in Q
  BY <1>1, <1>2, <1>3, WalkResult
<1>5. \A x, y \in Seq(Kind(C)) : Walk(<<>>, x, y) \in J
  BY WalkOf
<1> QED  BY <1>4, <1>5 DEF Q

\* ListSubtract is this loop with SpansSubtract below it.
LEMMA ListSubtractLoop == SubtractLoop(ListSubtract, SpansSubtract)
<1> DEFINE C == {NoSubspan}
<1>0. C \subseteq Seq(Spans) /\ Seq(Spans) = Seq(Kind(C))
  BY ListsOfKind
<1>1. Leaves(C, NoneBelow)
  BY <1>0, NothingBelow DEF Leaves
<1>2. Leaves(Seq(Spans), SpansSubtract)
  <2> HIDE DEF C
  <2>1. \A x, y \in Seq(Kind(C)) : SpansSubtract[Walk(<<>>, x, y)] \in Seq(Kind(C))
    BY <1>0, <1>1, SpansSubtractLoop, SubtractTyped
  <2> QED  BY <1>0, <2>1 DEF Leaves
<1>3. \E f : SubtractFunction(f, SpansSubtract)
  BY <1>2, SubtractExists, SubtractFunctionLoops
<1>4. ListSubtract = CHOOSE f : SubtractFunction(f, SpansSubtract)
  BY DEF ListSubtract, SubtractFunction
<1>5. SubtractFunction(ListSubtract, SpansSubtract)
  BY <1>3, <1>4
<1> QED  BY <1>5, SubtractFunctionLoops

IsRest(C, m, l, w) == Good(C, l) /\ \A p : p \in Area(m, Range(l)) <=> Remaining(m, w, p)

\* What is left of a list, in order again.
Leftover(C, m, f, x, y) ==
  /\ Good(C, f[Walk(<<>>, x, y)])
  /\ \A p : p \in Area(m, Range(f[Walk(<<>>, x, y)])) <=> p \in Area(m, Range(x)) /\ p \notin Area(m, Range(y))

\* It makes of two good lists a good list with the points only the first has.
LEMMA SubtractGood ==
  ASSUME NEW C, C \subseteq Seq(Spans), NEW m, NEW below, Cuts(C, m, below), NEW f, SubtractLoop(f, below),
         NEW x, Good(C, x), NEW y, Good(C, y)
  PROVE  Leftover(C, m, f, x, y)
<1> DEFINE a == Walk(<<>>, x, y)
           Same(w) == \A p : Remaining(m, w, p) <=> Remaining(m, a, p)
           J == {w \in WalksOf(C) : Aligned(C, w) /\ Same(w)}
           Q == {l \in Seq(Kind(C)) : IsRest(C, m, l, a)}
           next == SubtractNext(below)
<1>0. x \in Seq(Kind(C)) /\ y \in Seq(Kind(C))
  BY DEF Good
<1>8. Leaves(C, below)
  BY DEF Cuts, Leaves
<1>1. ASSUME NEW w \in J, w \notin ShortStop PROVE next[w] \in J /\ Rank(next[w]) < Rank(w)
  <2>1. w \in Walks /\ w.s # <<>> /\ w.d # <<>> /\ w \in WalksOf(C) /\ Aligned(C, w) /\ Same(w)
    BY <1>1, WalksAre DEF ShortStop
  <2>2. SubtractStep(w, below) \in WalksOf(C) /\ Rank(SubtractStep(w, below)) < Rank(w)
    BY <1>8, <2>1, SubtractStepTyped
  <2>3. Aligned(C, SubtractStep(w, below)) /\ \A p : Remaining(m, SubtractStep(w, below), p) <=> Remaining(m, w, p)
    BY <2>1, SubtractStepGood, Zenon
  <2>4. Same(SubtractStep(w, below))
    BY <2>1, <2>3
  <2>5. next[w] = SubtractStep(w, below)
    BY <2>1 DEF SubtractNext
  <2> QED  BY <2>2, <2>3, <2>4, <2>5
<1>2. Ends(ShortStop, BothOf, J, Q)
  <2>1. ASSUME NEW w \in J, w \in ShortStop PROVE BothOf[w] \in Q
    <3>1. /\ w \in Walks
          /\ w.s = <<>> \/ w.d = <<>>
          /\ w.done \in Seq(Kind(C)) /\ w.d \in Seq(Kind(C)) /\ Aligned(C, w) /\ Same(w)
      BY <2>1, WalksAre DEF WalksOf, ShortStop
    <3> DEFINE l == w.done \o w.d
    <3>2. /\ l \in Seq(Kind(C))
          /\ Good(C, l) <=> Good(C, w.done) /\ Good(C, w.d) /\ Ahead(Range(w.done), Range(w.d))
          /\ \A p : p \in Area(m, Range(l)) <=> p \in Area(m, Range(w.done)) \/ p \in Area(m, Range(w.d))
      BY <3>1, ConcatParts, Zenon
    <3>3. BothOf[w] = l
      BY <3>1 DEF BothOf
    <3> HIDE DEF l
    <3>4. \A p : ~(p \in Area(m, Range(w.d)) /\ p \in Area(m, Range(w.s)))
      BY <3>1, RangeNone DEF Area
    <3>5. Good(C, l)
      BY <3>1, <3>2 DEF Aligned
    <3>6. \A p : p \in Area(m, Range(l)) <=> Remaining(m, w, p)
      BY <3>2, <3>4 DEF Remaining
    <3>7. \A p : p \in Area(m, Range(l)) <=> Remaining(m, a, p)
      BY <3>1, <3>6
    <3>8. l \in Q
      <4> HIDE DEF J, a
      <4>1. l \in Seq(Kind(C)) /\ IsRest(C, m, l, a)
        BY <3>2, <3>5, <3>7 DEF IsRest
      <4> HIDE DEF a
      <4> QED  BY <4>1, Zenon
    <3> QED  BY <3>3, <3>8
  <2> QED  BY <2>1 DEF Ends
<1>3. Loops(f, Walks, ShortStop, BothOf, next)
  BY DEF SubtractLoop
<1>4. a \in J
  <2>1. a \in WalksOf(C) /\ a.done = <<>> /\ a.d = x /\ a.s = y
    BY <1>0, WalkOf
  <2>2. Range(<<>>) = {} /\ Good(C, <<>>)
    BY GoodNone, Zenon
  <2>3. Aligned(C, a)
    BY <2>1, <2>2 DEF Aligned, Ahead
  <2> QED  BY <2>1, <2>3
<1>5. f[a] \in Q
  <2>1. J \in SUBSET WalksOf(C)
    OBVIOUS
  <2> HIDE DEF next, Q, J, a
  <2> QED  BY <1>1, <1>2, <1>3, <1>4, <2>1, WalkResult
<1>6. \A p : Remaining(m, a, p) <=> p \in Area(m, Range(x)) /\ p \notin Area(m, Range(y))
  <2>1. a.done = <<>> /\ a.d = x /\ a.s = y
    BY <1>0, WalkOf
  <2>2. \A p : p \notin Area(m, Range(<<>>))
    BY RangeNone DEF Area
  <2> QED  BY <2>1, <2>2 DEF Remaining
<1> HIDE DEF a
<1>7. Good(C, f[a]) /\ \A p : p \in Area(m, Range(f[a])) <=> Remaining(m, a, p)
  BY <1>5 DEF IsRest
<1> QED  BY <1>6, <1>7 DEF Leftover, a

-----------------------------------------------------------------------------
(* The two levels: spans without content, and bands that contain spans.      *)

Single == {NoSubspan}
Places0 == [s \in Single |-> {0}]
Rows == {l \in Seq(Spans) : l # <<>> /\ Good(Single, l)}
Columns == [l \in Seq(Spans) |-> {x \in Int : <<x, 0>> \in Area(Places0, Range(l))}]

\* The contents of spans, and those of bands.
LEMMA Levels ==
  /\ Single \subseteq Seq(Spans) /\ Rows \subseteq Seq(Spans) /\ Seq(Kind(Single)) = Seq(Spans)
  /\ NoSubspan \in Single
BY ListsOfKind DEF Single, Rows

\* Contents of spans stand for one place and are united, shared and cut as such.
LEMMA SingleLevel ==
  /\ Unites(Single, Places0, NoneBelow) /\ Meets(Single, Places0, NoneBelow) /\ Cuts(Single, Places0, NoneBelow)
<1>1. ASSUME NEW x \in Single, NEW y \in Single
      PROVE  x = NoSubspan /\ y = NoSubspan /\ NoneBelow[Walk(<<>>, x, y)] = NoSubspan
  BY Levels, NothingBelow DEF Single
<1>2. Unites(Single, Places0, NoneBelow)
  BY <1>1, Levels DEF Unites, UnionOf
<1>3. Meets(Single, Places0, NoneBelow)
  BY <1>1, Levels DEF Meets, MeetOf
<1>4. Cuts(Single, Places0, NoneBelow)
  BY <1>1, Levels DEF Cuts, Within, NoSubspan
<1> QED  BY <1>2, <1>3, <1>4

\* The columns of a row of spans.
LEMMA InColumns ==
  ASSUME NEW l, Good(Single, l)
  PROVE  l \in Seq(Spans) /\ \A q : q \in Columns[l] <=> q \in Int /\ <<q, 0>> \in Area(Places0, Range(l))
<1>1. l \in Seq(Spans)
  BY Levels DEF Good
<1> QED  BY <1>1 DEF Columns

\* Spans in order that are not empty have a point.
LEMMA RowPoint ==
  ASSUME NEW l \in Rows
  PROVE  \E q \in Int : <<q, 0>> \in Area(Places0, Range(l))
<1>1. l \in Seq(Kind(Single)) /\ l # <<>> /\ Good(Single, l)
  BY Levels DEF Rows
<1> DEFINE c == Head(l)
<1>2. c \in Kind(Single) /\ c.start < c.end /\ c \in Range(l)
  BY <1>1, HeadParts, Zenon
<1> HIDE DEF c
<1>3. c.start \in Int /\ c.end \in Int /\ c.subspan \in Single
  BY <1>2 DEF Kind
<1>4. <<c.start, 0>> \in Block(Places0, c)
  BY <1>2, <1>3 DEF Block, Places0
<1> QED  BY <1>2, <1>3, <1>4 DEF Area

\* When a list of spans is a row, and which spans have no point.
LEMMA RowWhen ==
  ASSUME NEW l, Good(Single, l), l # <<>>
  PROVE  l \in Rows
BY Levels DEF Good, Rows

LEMMA NoPoints ==
  ASSUME NEW m, NEW l, l = <<>>
  PROVE  \A p : p \notin Area(m, Range(l))
BY RangeNone DEF Area

\* The rows of two bands are united, shared and cut as their columns.
LEMMA RowsUnite == Unites(Rows, Columns, SpansOr)
<1> SUFFICES ASSUME NEW x \in Rows, NEW y \in Rows, NEW r, r = SpansOr[Walk(<<>>, x, y)]
             PROVE  r \in Rows /\ UnionOf(Columns, r, x, y)
  BY Zenon DEF Unites
<1>1. Good(Single, x) /\ Good(Single, y)
  BY DEF Rows
<1>2. Joins(Single, Places0, SpansOr, x, y)
  BY <1>1, Levels, SingleLevel, SpansOrLoop, OrGood
<1>3. /\ Good(Single, r)
      /\ \A p : p \in Area(Places0, Range(r)) <=> p \in Area(Places0, Range(x)) \/ p \in Area(Places0, Range(y))
  BY <1>2 DEF Joins
<1>4. r # <<>>
  BY <1>3, RowPoint, NoPoints
<1>5. r \in Rows
  BY <1>3, <1>4, RowWhen
<1>6. \A q : q \in Columns[r] <=> q \in Columns[x] \/ q \in Columns[y]
  BY <1>1, <1>3, InColumns
<1> QED  BY <1>5, <1>6 DEF UnionOf

LEMMA RowsMeet == Meets(Rows, Columns, SpansAnd)
<1> SUFFICES ASSUME NEW x \in Rows, NEW y \in Rows, NEW r, r = SpansAnd[Walk(<<>>, x, y)]
             PROVE  IF x # NoSubspan /\ r = <<>> THEN Apart(Columns, x, y)
                    ELSE r \in Rows /\ MeetOf(Columns, r, x, y)
  BY Zenon DEF Meets
<1>1. Good(Single, x) /\ Good(Single, y) /\ x # NoSubspan
  BY DEF Rows, NoSubspan
<1>2. Intersects(Single, Places0, SpansAnd, x, y)
  BY <1>1, Levels, SingleLevel, SpansAndLoop, AndGood
<1>3. /\ Good(Single, r)
      /\ \A p : p \in Area(Places0, Range(r)) <=> p \in Area(Places0, Range(x)) /\ p \in Area(Places0, Range(y))
  BY <1>2 DEF Intersects
<1>4. \A q : q \in Columns[r] <=> q \in Columns[x] /\ q \in Columns[y]
  BY <1>1, <1>3, InColumns
<1>5. CASE r = <<>>
  <2>1. \A q : q \notin Columns[r]
    BY <1>3, <1>5, InColumns, NoPoints
  <2> QED  BY <1>1, <1>4, <1>5, <2>1 DEF Apart
<1>6. CASE r # <<>>
  BY <1>3, <1>4, <1>6, RowWhen DEF MeetOf
<1> QED  BY <1>5, <1>6

LEMMA RowsCut == Cuts(Rows, Columns, SpansSubtract)
<1> SUFFICES ASSUME NEW x \in Rows, NEW y \in Rows, NEW r, r = SpansSubtract[Walk(<<>>, x, y)]
             PROVE  IF r = <<>> THEN Within(Columns, x, y) ELSE r \in Rows /\ LessOf(Columns, r, x, y)
  BY Zenon DEF Cuts
<1>1. Good(Single, x) /\ Good(Single, y)
  BY DEF Rows
<1>2. Leftover(Single, Places0, SpansSubtract, x, y)
  BY <1>1, Levels, SingleLevel, SpansSubtractLoop, SubtractGood
<1>3. /\ Good(Single, r)
      /\ \A p : p \in Area(Places0, Range(r)) <=> p \in Area(Places0, Range(x)) /\ p \notin Area(Places0, Range(y))
  BY <1>2 DEF Leftover
<1>4. \A q : q \in Columns[r] <=> q \in Columns[x] /\ q \notin Columns[y]
  BY <1>1, <1>3, InColumns
<1>5. CASE r = <<>>
  <2>1. \A q : q \notin Columns[r]
    BY <1>3, <1>5, InColumns, NoPoints
  <2> QED  BY <1>4, <1>5, <2>1 DEF Within
<1>6. CASE r # <<>>
  BY <1>3, <1>4, <1>6, RowWhen DEF LessOf
<1> QED  BY <1>5, <1>6

\* What the operations make of two lists of bands.
LEMMA BandsResult ==
  ASSUME NEW x, Good(Rows, x), NEW y, Good(Rows, y)
  PROVE  /\ Joins(Rows, Columns, ListOr, x, y)
         /\ Intersects(Rows, Columns, ListAnd, x, y)
         /\ Leftover(Rows, Columns, ListSubtract, x, y)
<1>1. Rows \subseteq Seq(Spans)
  BY Levels
<1>2. Joins(Rows, Columns, ListOr, x, y)
  BY <1>1, RowsUnite, ListOrLoop, OrGood
<1>3. Intersects(Rows, Columns, ListAnd, x, y)
  BY <1>1, RowsMeet, ListAndLoop, AndGood
<1>4. Leftover(Rows, Columns, ListSubtract, x, y)
  BY <1>1, RowsCut, ListSubtractLoop, SubtractGood
<1> QED  BY <1>2, <1>3, <1>4

-----------------------------------------------------------------------------
(* The pixels of a list of bands.                                            *)

\* A pixel lies in a span of a band.
Holds(l, x, y) ==
  \E b \in Range(l) : /\ b.start <= y /\ y < b.end
                      /\ \E s \in Range(b.subspan) : s.start <= x /\ x < s.end

\* The pixels that a list covers are those that it holds,
LEMMA CoveredHolds ==
  ASSUME NEW l \in Seq(Bands)
  PROVE  /\ Covered(l) \subseteq Int \X Int
         /\ \A x, y \in Int : <<x, y>> \in Covered(l) <=> Holds(l, x, y)
<1>1. ASSUME NEW i \in 1 .. Len(l)
      PROVE  /\ l[i].start \in Int /\ l[i].end \in Int /\ l[i].subspan \in Seq(Spans)
             /\ \A j \in 1 .. Len(l[i].subspan) : l[i].subspan[j].start \in Int /\ l[i].subspan[j].end \in Int
  <2>1. l[i] \in Bands
    BY ElementOfSeq
  <2>2. l[i].start \in Int /\ l[i].end \in Int /\ l[i].subspan \in Seq(Spans)
    BY <2>1 DEF Bands
  <2>3. ASSUME NEW j \in 1 .. Len(l[i].subspan) PROVE l[i].subspan[j] \in Spans
    BY <2>2, ElementOfSeq
  <2> QED  BY <2>2, <2>3 DEF Spans
<1>2. \A p : p \in Covered(l) <=> \E i \in 1 .. Len(l) : \E j \in 1 .. Len(l[i].subspan) : p \in Inside(RectAt(l, <<i, j>>))
  <2>1. \A at : at \in Places(l) <=> \E i \in 1 .. Len(l) : \E j \in 1 .. Len(l[i].subspan) : at = <<i, j>>
    BY DEF Places
  <2>2. \A p : p \in Covered(l) <=> \E at \in Places(l) : p \in Inside(RectAt(l, at))
    BY DEF Covered
  <2>3. ASSUME NEW p, NEW at \in Places(l), p \in Inside(RectAt(l, at))
        PROVE  \E i \in 1 .. Len(l) : \E j \in 1 .. Len(l[i].subspan) : p \in Inside(RectAt(l, <<i, j>>))
    BY <2>1, <2>3, Zenon
  <2>4. ASSUME NEW p, NEW i \in 1 .. Len(l), NEW j \in 1 .. Len(l[i].subspan), p \in Inside(RectAt(l, <<i, j>>))
        PROVE  \E at \in Places(l) : p \in Inside(RectAt(l, at))
    BY <2>1, <2>4, Zenon
  <2> QED  BY <2>2, <2>3, <2>4, Zenon
<1>3. ASSUME NEW i \in 1 .. Len(l), NEW j \in 1 .. Len(l[i].subspan)
      PROVE  /\ Inside(RectAt(l, <<i, j>>)) \subseteq Int \X Int
             /\ \A x, y \in Int : <<x, y>> \in Inside(RectAt(l, <<i, j>>))
                                  <=> /\ l[i].start <= y /\ y < l[i].end
                                      /\ l[i].subspan[j].start <= x /\ x < l[i].subspan[j].end
  <2>1. RectAt(l, <<i, j>>) = <<l[i].subspan[j].start, l[i].start, l[i].subspan[j].end, l[i].end>>
    BY DEF RectAt
  <2>2. Inside(RectAt(l, <<i, j>>)) = (l[i].subspan[j].start .. l[i].subspan[j].end - 1) \X (l[i].start .. l[i].end - 1)
    BY <2>1 DEF Inside
  <2>3. \A x, a, b \in Int : x \in a .. b - 1 <=> a <= x /\ x < b
    OBVIOUS
  <2> DEFINE a == l[i].subspan[j].start  b == l[i].subspan[j].end  c == l[i].start  d == l[i].end
  <2>4. a \in Int /\ b \in Int /\ c \in Int /\ d \in Int /\ Inside(RectAt(l, <<i, j>>)) = (a .. b - 1) \X (c .. d - 1)
    BY <1>1, <2>2
  <2> HIDE DEF a, b, c, d
  <2>5. Inside(RectAt(l, <<i, j>>)) \subseteq Int \X Int
    BY <2>4
  <2>6. \A x, y \in Int : <<x, y>> \in (a .. b - 1) \X (c .. d - 1) <=> c <= y /\ y < d /\ a <= x /\ x < b
    BY <2>3, <2>4
  <2> QED  BY <2>4, <2>5, <2>6 DEF a, b, c, d
<1>4. ASSUME NEW x \in Int, NEW y \in Int PROVE <<x, y>> \in Covered(l) <=> Holds(l, x, y)
  <2>1. /\ \A b : b \in Range(l) <=> \E i \in 1 .. Len(l) : b = l[i]
        /\ \A i \in 1 .. Len(l) : \A s : s \in Range(l[i].subspan) <=> \E j \in 1 .. Len(l[i].subspan) : s = l[i].subspan[j]
    BY <1>1, RangeEquality
  <2>2. Holds(l, x, y) <=> \E i \in 1 .. Len(l) : \E j \in 1 .. Len(l[i].subspan) :
                             /\ l[i].start <= y /\ y < l[i].end
                             /\ l[i].subspan[j].start <= x /\ x < l[i].subspan[j].end
    <3>1. ASSUME NEW b \in Range(l), b.start <= y /\ y < b.end, NEW s \in Range(b.subspan), s.start <= x /\ x < s.end
          PROVE  \E i \in 1 .. Len(l) : \E j \in 1 .. Len(l[i].subspan) :
                             /\ l[i].start <= y /\ y < l[i].end
                             /\ l[i].subspan[j].start <= x /\ x < l[i].subspan[j].end
      <4>1. PICK i \in 1 .. Len(l) : b = l[i]
        BY <2>1
      <4>2. s \in Range(l[i].subspan)
        BY <4>1
      <4> DEFINE k == l[i].subspan
      <4>3. k \in Seq(Spans)
        BY <1>1
      <4>4. s \in Range(k)
        BY <4>2
      <4> HIDE DEF k
      <4>5. PICK j \in 1 .. Len(k) : s = k[j]
        BY <4>3, <4>4, RangeEquality
      <4> QED  BY <3>1, <4>1, <4>5 DEF k
    <3>2. ASSUME NEW i \in 1 .. Len(l), NEW j \in 1 .. Len(l[i].subspan), l[i].start <= y /\ y < l[i].end,
                 l[i].subspan[j].start <= x /\ x < l[i].subspan[j].end
          PROVE  Holds(l, x, y)
      <4>1. l[i] \in Range(l) /\ l[i].subspan[j] \in Range(l[i].subspan)
        BY <2>1, Zenon
      <4> QED  BY <3>2, <4>1, Zenon DEF Holds
    <3> QED  BY <3>1, <3>2 DEF Holds
  <2>3. \A i \in 1 .. Len(l) : \A j \in 1 .. Len(l[i].subspan) :
          <<x, y>> \in Inside(RectAt(l, <<i, j>>)) <=> /\ l[i].start <= y /\ y < l[i].end
                                                     /\ l[i].subspan[j].start <= x /\ x < l[i].subspan[j].end
    BY <1>3, Zenon
  <2>4. <<x, y>> \in Covered(l) <=> \E i \in 1 .. Len(l) : \E j \in 1 .. Len(l[i].subspan) : <<x, y>> \in Inside(RectAt(l, <<i, j>>))
    BY <1>2, Zenon
  <2> QED  BY <2>2, <2>3, <2>4, Zenon
<1> QED  BY <1>2, <1>3, <1>4

\* and the points that it stands for.
LEMMA AreaHolds ==
  ASSUME NEW l, Good(Rows, l)
  PROVE  \A x, y \in Int : <<y, x>> \in Area(Columns, Range(l)) <=> Holds(l, x, y)
<1>1. Range(l) \subseteq Kind(Rows)
  BY RangeOfSeq DEF Good
<1>2. ASSUME NEW x \in Int, NEW y \in Int, NEW b \in Range(l)
      PROVE  <<y, x>> \in Block(Columns, b)
             <=> b.start <= y /\ y < b.end /\ \E s \in Range(b.subspan) : s.start <= x /\ x < s.end
  <2>1. b.subspan \in Rows /\ Good(Single, b.subspan)
    BY <1>1 DEF Kind, Rows
  <2>2. x \in Columns[b.subspan] <=> <<x, 0>> \in Area(Places0, Range(b.subspan))
    BY <2>1, InColumns
  <2>3. ASSUME NEW s \in Range(b.subspan) PROVE <<x, 0>> \in Block(Places0, s) <=> s.start <= x /\ x < s.end
    <3>1. s \in Kind(Single)
      BY <2>1, RangeOfSeq DEF Good
    <3>2. s.subspan \in Single
      BY <3>1 DEF Kind
    <3> QED  BY <3>2 DEF Block, Places0
  <2>4. <<x, 0>> \in Area(Places0, Range(b.subspan)) <=> \E s \in Range(b.subspan) : s.start <= x /\ x < s.end
    BY <2>3 DEF Area
  <2>5. <<y, x>> \in Block(Columns, b) <=> b.start <= y /\ y < b.end /\ x \in Columns[b.subspan]
    BY DEF Block
  <2> QED  BY <2>2, <2>4, <2>5
<1>3. ASSUME NEW x \in Int, NEW y \in Int PROVE <<y, x>> \in Area(Columns, Range(l)) <=> Holds(l, x, y)
  <2>1. <<y, x>> \in Area(Columns, Range(l)) <=> \E b \in Range(l) : <<y, x>> \in Block(Columns, b)
    BY DEF Area
  <2> QED  BY <1>2, <2>1 DEF Holds
<1> QED  BY <1>3

\* A list in order that stands for the pixels of S.
Shows(l, S) == Good(Rows, l) /\ Covered(l) = S

\* What a good list shows.
LEMMA ShowsHolds ==
  ASSUME NEW l, Good(Rows, l)
  PROVE  l \in Seq(Bands) /\ Covered(l) \subseteq Int \X Int /\ \A x, y \in Int : <<x, y>> \in Covered(l) <=> Holds(l, x, y)
<1>1. l \in Seq(Bands)
  <2>1. l \in Seq(Kind(Rows))
    BY DEF Good
  <2>2. Seq(Kind(Rows)) \subseteq Lists
    BY Levels, ListsOfKind
  <2> QED  BY <2>1, <2>2 DEF Lists
<1> QED  BY <1>1, CoveredHolds

\* When it shows S.
LEMMA ShowsWhen ==
  ASSUME NEW l, Good(Rows, l), NEW S \in SUBSET (Int \X Int), \A x, y \in Int : <<x, y>> \in S <=> Holds(l, x, y)
  PROVE  Shows(l, S)
<1>1. Covered(l) \subseteq Int \X Int /\ \A x, y \in Int : <<x, y>> \in Covered(l) <=> Holds(l, x, y)
  BY ShowsHolds
<1> HIDE DEF Shows
<1>2. ASSUME NEW p PROVE p \in Covered(l) <=> p \in S
  <2>1. CASE p \in Int \X Int
    <3>1. PICK x \in Int, y \in Int : p = <<x, y>>
      BY <2>1
    <3> QED  BY <1>1, <3>1
  <2>2. CASE p \notin Int \X Int
    BY <1>1, <2>2
  <2> QED  BY <2>1, <2>2
<1>3. Covered(l) = S
  BY <1>2
<1> QED  BY <1>3 DEF Shows

\* sraRgnOr, sraRgnAnd and sraRgnSubtract make a list that shows the union, the
\* intersection and the difference of what the two lists show.
LEMMA ShowsOr ==
  ASSUME NEW l, NEW S, Shows(l, S), NEW k, NEW T, Shows(k, T)
  PROVE  Shows(ListOr[Walk(<<>>, l, k)], S \cup T)
<1> DEFINE r == ListOr[Walk(<<>>, l, k)]
<1>1. Good(Rows, l) /\ Good(Rows, k) /\ S = Covered(l) /\ T = Covered(k)
  BY DEF Shows
<1>2. Joins(Rows, Columns, ListOr, l, k)
  BY <1>1, BandsResult
<1>3. Good(Rows, r) /\ \A p : p \in Area(Columns, Range(r)) <=> p \in Area(Columns, Range(l)) \/ p \in Area(Columns, Range(k))
  BY <1>2 DEF Joins
<1> HIDE DEF r
<1>4. \A x, y \in Int : Holds(r, x, y) <=> Holds(l, x, y) \/ Holds(k, x, y)
  BY <1>1, <1>3, AreaHolds
<1>5. S \cup T \in SUBSET (Int \X Int) /\ \A x, y \in Int : <<x, y>> \in S \cup T <=> Holds(r, x, y)
  BY <1>1, <1>4, ShowsHolds
<1>6. Shows(r, S \cup T)
  BY <1>3, <1>5, ShowsWhen
<1> QED  BY <1>6 DEF r

LEMMA ShowsAnd ==
  ASSUME NEW l, NEW S, Shows(l, S), NEW k, NEW T, Shows(k, T)
  PROVE  Shows(ListAnd[Walk(<<>>, l, k)], S \cap T)
<1> DEFINE r == ListAnd[Walk(<<>>, l, k)]
<1>1. Good(Rows, l) /\ Good(Rows, k) /\ S = Covered(l) /\ T = Covered(k)
  BY DEF Shows
<1>2. Intersects(Rows, Columns, ListAnd, l, k)
  BY <1>1, BandsResult
<1>3. Good(Rows, r) /\ \A p : p \in Area(Columns, Range(r)) <=> p \in Area(Columns, Range(l)) /\ p \in Area(Columns, Range(k))
  BY <1>2 DEF Intersects
<1> HIDE DEF r
<1>4. \A x, y \in Int : Holds(r, x, y) <=> Holds(l, x, y) /\ Holds(k, x, y)
  BY <1>1, <1>3, AreaHolds
<1>5. S \cap T \in SUBSET (Int \X Int) /\ \A x, y \in Int : <<x, y>> \in S \cap T <=> Holds(r, x, y)
  BY <1>1, <1>4, ShowsHolds
<1>6. Shows(r, S \cap T)
  BY <1>3, <1>5, ShowsWhen
<1> QED  BY <1>6 DEF r

LEMMA ShowsSubtract ==
  ASSUME NEW l, NEW S, Shows(l, S), NEW k, NEW T, Shows(k, T)
  PROVE  Shows(ListSubtract[Walk(<<>>, l, k)], S \ T)
<1> DEFINE r == ListSubtract[Walk(<<>>, l, k)]
<1>1. Good(Rows, l) /\ Good(Rows, k) /\ S = Covered(l) /\ T = Covered(k)
  BY DEF Shows
<1>2. Leftover(Rows, Columns, ListSubtract, l, k)
  BY <1>1, BandsResult
<1>3. Good(Rows, r) /\ \A p : p \in Area(Columns, Range(r)) <=> p \in Area(Columns, Range(l)) /\ p \notin Area(Columns, Range(k))
  BY <1>2 DEF Leftover
<1> HIDE DEF r
<1>4. \A x, y \in Int : Holds(r, x, y) <=> Holds(l, x, y) /\ ~Holds(k, x, y)
  BY <1>1, <1>3, AreaHolds
<1>5. S \ T \in SUBSET (Int \X Int) /\ \A x, y \in Int : <<x, y>> \in S \ T <=> Holds(r, x, y)
  BY <1>1, <1>4, ShowsHolds
<1>6. Shows(r, S \ T)
  BY <1>3, <1>5, ShowsWhen
<1> QED  BY <1>6 DEF r

-----------------------------------------------------------------------------
(* Rectangles, and a region without the one that is popped.                  *)

InRow(c, x) == \E s \in Range(c) : s.start <= x /\ x < s.end

\* What a list holds, by place.
LEMMA HoldsAt ==
  ASSUME NEW S, NEW l \in Seq(S), NEW x, NEW y
  PROVE  Holds(l, x, y) <=> \E n \in 1 .. Len(l) : l[n].start <= y /\ y < l[n].end /\ InRow(l[n].subspan, x)
<1>1. \A b : b \in Range(l) <=> \E n \in 1 .. Len(l) : b = l[n]
  BY RangeEquality
<1>2. Holds(l, x, y) <=> \E b \in Range(l) : b.start <= y /\ y < b.end /\ InRow(b.subspan, x)
  BY Zenon DEF Holds, InRow
<1>3. ASSUME NEW b \in Range(l), b.start <= y /\ y < b.end /\ InRow(b.subspan, x)
      PROVE  \E n \in 1 .. Len(l) : l[n].start <= y /\ y < l[n].end /\ InRow(l[n].subspan, x)
  BY <1>1, <1>3
<1>4. ASSUME NEW n \in 1 .. Len(l), l[n].start <= y /\ y < l[n].end /\ InRow(l[n].subspan, x)
      PROVE  \E b \in Range(l) : b.start <= y /\ y < b.end /\ InRow(b.subspan, x)
  <2>1. l[n] \in Range(l)
    BY <1>1
  <2> QED  BY <1>4, <2>1
<1> QED  BY <1>2, <1>3, <1>4

\* sraRgnCreateRect makes a list that shows the rectangle.
LEMMA CreateRectShows ==
  ASSUME NEW r, NEW x1 \in Int, NEW y1 \in Int, NEW x2 \in Int, NEW y2 \in Int, r = <<x1, y1, x2, y2>>, x1 < x2, y1 < y2
  PROVE  Shows(CreateRect(r), Inside(r))
<1> DEFINE s == Span(x1, x2, NoSubspan)  c == <<s>>  b == Span(y1, y2, c)  l == <<b>>
<1>1. CreateRect(r) = l /\ Inside(r) = (x1 .. x2 - 1) \X (y1 .. y2 - 1)
  BY DEF CreateRect, Inside
<1>2. s \in Kind(Single) /\ s.start = x1 /\ s.end = x2
  BY DEF Span, Kind, Single
<1> HIDE DEF s
<1>3. Good(Single, c) /\ Range(c) = {s} /\ c # <<>>
  BY <1>2, GoodOne
<1>4. c \in Rows
  BY <1>3, RowWhen
<1> HIDE DEF c
<1>5. b \in Kind(Rows) /\ b.start = y1 /\ b.end = y2 /\ b.subspan = c
  BY <1>4 DEF Span, Kind
<1> HIDE DEF b
<1>6. Good(Rows, l) /\ Range(l) = {b}
  BY <1>5, GoodOne
<1> HIDE DEF l
<1>7. \A x, y \in Int : Holds(l, x, y) <=> x1 <= x /\ x < x2 /\ y1 <= y /\ y < y2
  BY <1>2, <1>3, <1>5, <1>6 DEF Holds
<1>8. \A x, y \in Int : <<x, y>> \in Inside(r) <=> x1 <= x /\ x < x2 /\ y1 <= y /\ y < y2
  BY <1>1
<1>9. Inside(r) \in SUBSET (Int \X Int)
  BY <1>1
<1> QED  BY <1>1, <1>6, <1>7, <1>8, <1>9, ShowsWhen

\* A list without its i-th span.
Removed(C, l, i, k) ==
  /\ Good(C, k) /\ Len(k) = Len(l) - 1 /\ \A x : x \in Range(k) => x \in Range(l)
  /\ \A x : x \in Range(l) => x \in Range(k) \/ x = l[i]
  /\ \A x : x \in Range(k) => x.end <= l[i].start \/ l[i].end <= x.start

\* A list without one of its elements.
LEMMA RemoveAtParts ==
  ASSUME NEW S, NEW l \in Seq(S), NEW i \in 1 .. Len(l)
  PROVE  /\ RemoveAt(l, i) \in Seq(S) /\ Len(RemoveAt(l, i)) = Len(l) - 1
         /\ \A j \in 1 .. Len(l) - 1 : RemoveAt(l, i)[j] = IF j < i THEN l[j] ELSE l[j + 1]
<1> DEFINE a == SubSeq(l, 1, i - 1)  b == SubSeq(l, i + 1, Len(l))
<1>1. Len(l) \in Nat /\ i \in Nat /\ 1 <= i /\ i <= Len(l)
  BY LenProperties
<1>2. a \in Seq(S) /\ Len(a) = i - 1 /\ \A j \in 1 .. i - 1 : a[j] = l[j]
  BY <1>1, SubSeqProperties
<1>3. b \in Seq(S) /\ Len(b) = Len(l) - i /\ \A j \in 1 .. Len(l) - i : b[j] = l[j + i]
  BY <1>1, SubSeqProperties
<1>4. RemoveAt(l, i) = a \o b
  BY DEF RemoveAt
<1> HIDE DEF a, b
<1>5. /\ a \o b \in Seq(S) /\ Len(a \o b) = Len(l) - 1
      /\ \A j \in 1 .. Len(l) - 1 : (a \o b)[j] = IF j <= i - 1 THEN a[j] ELSE b[j - (i - 1)]
  <2>1. /\ a \o b \in Seq(S) /\ Len(a \o b) = Len(a) + Len(b)
        /\ \A j \in 1 .. Len(a) + Len(b) : (a \o b)[j] = IF j <= Len(a) THEN a[j] ELSE b[j - Len(a)]
    BY <1>2, <1>3, ConcatProperties
  <2>2. Len(a) + Len(b) = Len(l) - 1
    BY <1>1, <1>2, <1>3
  <2> QED  BY <1>2, <2>1, <2>2
<1>6. ASSUME NEW j \in 1 .. Len(l) - 1 PROVE (a \o b)[j] = IF j < i THEN l[j] ELSE l[j + 1]
  <2>1. CASE j < i
    BY <1>1, <1>2, <1>5, <2>1
  <2>2. CASE ~(j < i)
    <3>1. j - (i - 1) \in 1 .. Len(l) - i /\ (j - (i - 1)) + i = j + 1
      BY <1>1, <2>2
    <3>2. b[j - (i - 1)] = l[j + 1]
      BY <1>3, <3>1
    <3> QED  BY <1>1, <1>5, <2>2, <3>2
  <2> QED  BY <2>1, <2>2
<1> QED  BY <1>4, <1>5, <1>6

\* A good list without one of its spans is good and has lost its points.
LEMMA RemovedGood ==
  ASSUME NEW C, NEW l, Good(C, l), NEW i \in 1 .. Len(l), NEW k, k = RemoveAt(l, i)
  PROVE  Removed(C, l, i, k)
<1>1. l \in Seq(Kind(C)) /\ Ordered(l) /\ Filled(Range(l)) /\ Len(l) \in Nat
  BY LenProperties DEF Good
<1>2. /\ k \in Seq(Kind(C)) /\ Len(k) = Len(l) - 1
      /\ \A j \in 1 .. Len(l) - 1 : k[j] = IF j < i THEN l[j] ELSE l[j + 1]
  BY <1>1, RemoveAtParts
<1>3. /\ \A x : x \in Range(k) <=> \E j \in 1 .. Len(k) : x = k[j]
      /\ \A x : x \in Range(l) <=> \E j \in 1 .. Len(l) : x = l[j]
  BY <1>1, <1>2, RangeEquality
<1>4. \A j \in 1 .. Len(k) : k[j] \in Range(l)
  BY <1>1, <1>2, <1>3
<1>5. ASSUME NEW j \in 1 .. Len(l) PROVE l[j] \in Range(k) \/ l[j] = l[i]
  <2>1. CASE j < i
    BY <1>1, <1>2, <1>3, <2>1
  <2>2. CASE j > i
    <3>1. j - 1 \in 1 .. Len(k) /\ ~(j - 1 < i) /\ (j - 1) + 1 = j
      BY <1>1, <1>2, <2>2
    <3>2. k[j - 1] = l[j]
      BY <1>1, <1>2, <3>1
    <3> QED  BY <1>3, <3>1, <3>2
  <2> QED  BY <2>1, <2>2
<1>6. ASSUME NEW j \in 1 .. Len(k) PROVE k[j].end <= l[i].start \/ l[i].end <= k[j].start
  BY <1>1, <1>2 DEF Ordered
<1>7. Ordered(k)
  <2>0. ASSUME NEW j \in 1 .. Len(k)
        PROVE  \E a \in 1 .. Len(l) : k[j] = l[a] /\ (j >= i => a = j + 1) /\ (j < i => a = j)
    <3>1. CASE j < i
      BY <1>1, <1>2, <3>1
    <3>2. CASE j >= i
      BY <1>1, <1>2, <3>2
    <3> QED  BY <1>1, <1>2, <3>1, <3>2
  <2>1. ASSUME NEW j \in 1 .. Len(k), NEW n \in 1 .. Len(k), j < n PROVE k[j].end <= k[n].start
    <3>1. PICK a \in 1 .. Len(l) : k[j] = l[a] /\ (j >= i => a = j + 1) /\ (j < i => a = j)
      BY <2>0
    <3>2. PICK b \in 1 .. Len(l) : k[n] = l[b] /\ (n >= i => b = n + 1) /\ (n < i => b = n)
      BY <2>0
    <3>3. CASE a < b
      BY <1>1, <3>1, <3>2, <3>3 DEF Ordered
    <3>4. CASE ~(a < b)
      BY <1>1, <1>2, <2>1, <3>1, <3>2, <3>4
    <3> QED  BY <3>3, <3>4
  <2> QED  BY <2>1 DEF Ordered
<1>8. Filled(Range(k))
  BY <1>1, <1>3, <1>4 DEF Filled
<1>9. Good(C, k) /\ Len(k) = Len(l) - 1
  BY <1>2, <1>7, <1>8 DEF Good
<1>10. \A x : x \in Range(k) => x \in Range(l)
  BY <1>3, <1>4
<1>11. \A x : x \in Range(l) => x \in Range(k) \/ x = l[i]
  BY <1>3, <1>5
<1>12. \A x : x \in Range(k) => x.end <= l[i].start \/ l[i].end <= x.start
  BY <1>3, <1>6
<1> QED  BY <1>9, <1>10, <1>11, <1>12 DEF Removed

\* sraRgnPopRect takes exactly the rectangle away that it gives back.
LEMMA PopRectShows ==
  ASSUME NEW l, NEW S, Shows(l, S), l # <<>>, NEW reverse \in BOOLEAN \X BOOLEAN
  PROVE  Shows(PopRect(l, reverse), S \ Inside(Popped(l, reverse)))
<1> DEFINE i == First(Len(l), reverse[2])  e == l[i]  c == e.subspan  j == First(Len(c), reverse[1])
           s == c[j]  sub == RemoveAt(c, j)  k == PopRect(l, reverse)  T == Inside(Popped(l, reverse))
<1>1. Good(Rows, l) /\ S = Covered(l) /\ l \in Seq(Kind(Rows)) /\ Len(l) \in Nat \ {0}
  BY EmptySeq, LenProperties DEF Shows, Good
<1>2. i \in 1 .. Len(l)
  BY <1>1 DEF First
<1>3. e \in Kind(Rows) /\ e \in Range(l)
  BY <1>1, <1>2, ElementOfSeq, RangeEquality
<1>4. c \in Rows /\ e.start \in Int /\ e.end \in Int
  BY <1>3 DEF Kind
<1>5. Good(Single, c) /\ c \in Seq(Kind(Single)) /\ Len(c) \in Nat \ {0}
  BY <1>4, EmptySeq, LenProperties DEF Rows, Good
<1>6. j \in 1 .. Len(c)
  BY <1>5 DEF First
<1>7. s \in Kind(Single) /\ s \in Range(c)
  BY <1>5, <1>6, ElementOfSeq, RangeEquality
<1>8. s.start \in Int /\ s.end \in Int
  BY <1>7 DEF Kind
<1>9. T = (s.start .. s.end - 1) \X (e.start .. e.end - 1)
  BY DEF Popped, FirstOf, RectAt, Inside
<1>10. k = IF sub = <<>> THEN RemoveAt(l, i) ELSE [l EXCEPT ![i].subspan = sub]
  BY DEF PopRect
<1> HIDE DEF i, k, T
<1>11. Removed(Single, c, j, sub)
  BY <1>5, <1>6, RemovedGood
<1>12. e = l[i] /\ c = e.subspan /\ s = c[j]
  OBVIOUS
<1> HIDE DEF e, c, j, s, sub
<1>13. /\ Good(Single, sub) /\ Range(sub) \subseteq Kind(Single)
       /\ \A x : x \in Range(sub) => x \in Range(c)
       /\ \A x : x \in Range(c) => x \in Range(sub) \/ x = s
       /\ \A x : x \in Range(sub) => x.end <= s.start \/ s.end <= x.start
  BY <1>11, <1>12, RangeOfSeq DEF Removed, Good
<1>14. \A x \in Int : InRow(sub, x) <=> InRow(c, x) /\ ~(s.start <= x /\ x < s.end)
  <2>1. \A x \in Range(sub) : x.start \in Int /\ x.end \in Int
    BY <1>13 DEF Kind
  <2> QED  BY <1>8, <1>13, <2>1 DEF InRow
<1>15. \A x, y \in Int : <<x, y>> \in T <=> s.start <= x /\ x < s.end /\ e.start <= y /\ y < e.end
  BY <1>4, <1>8, <1>9
<1>16. \A x \in Int : s.start <= x /\ x < s.end => InRow(c, x)
  BY <1>7 DEF InRow
<1>17. Good(Rows, k) /\ \A x, y \in Int : Holds(k, x, y) <=> Holds(l, x, y) /\ <<x, y>> \notin T
  <2>1. CASE sub = <<>>
    <3>1. Removed(Rows, l, i, k)
      BY <1>1, <1>2, <1>10, <2>1, RemovedGood
    <3>2. /\ Good(Rows, k) /\ Range(k) \subseteq Kind(Rows)
          /\ \A x : x \in Range(k) => x \in Range(l)
          /\ \A x : x \in Range(l) => x \in Range(k) \/ x = e
          /\ \A x : x \in Range(k) => x.end <= e.start \/ e.end <= x.start
      BY <1>12, <3>1, RangeOfSeq DEF Removed, Good
    <3>3. \A x \in Int : InRow(c, x) => s.start <= x /\ x < s.end
      <4>1. \A x : ~InRow(sub, x)
        BY <2>1, RangeNone DEF InRow
      <4> QED  BY <1>14, <4>1
    <3>4. \A b \in Range(k) : b.start \in Int /\ b.end \in Int
      BY <3>2 DEF Kind
    <3>5. ASSUME NEW x \in Int, NEW y \in Int PROVE Holds(k, x, y) <=> Holds(l, x, y) /\ <<x, y>> \notin T
      <4>1. ASSUME NEW n, n \in {k, l}
            PROVE  Holds(n, x, y) <=> \E b \in Range(n) : b.start <= y /\ y < b.end /\ InRow(b.subspan, x)
        BY Zenon DEF Holds, InRow
      <4>2. Holds(k, x, y) => Holds(l, x, y) /\ <<x, y>> \notin T
        <5>1. SUFFICES ASSUME NEW b \in Range(k), b.start <= y /\ y < b.end /\ InRow(b.subspan, x)
                       PROVE  Holds(l, x, y) /\ <<x, y>> \notin T
          BY <4>1
        <5>2. b \in Range(l) /\ ~(e.start <= y /\ y < e.end)
          BY <1>4, <3>2, <3>4, <5>1
        <5> QED  BY <1>15, <4>1, <5>1, <5>2
      <4>3. Holds(l, x, y) /\ <<x, y>> \notin T => Holds(k, x, y)
        <5>1. SUFFICES ASSUME NEW b \in Range(l), b.start <= y /\ y < b.end /\ InRow(b.subspan, x), <<x, y>> \notin T
                       PROVE  b \in Range(k)
          BY <4>1
        <5>2. b # e
          BY <1>12, <1>15, <3>3, <5>1
        <5> QED  BY <3>2, <5>2
      <4> QED  BY <4>2, <4>3
    <3> QED  BY <3>2, <3>5
  <2>2. CASE sub # <<>>
    <3>1. sub \in Rows
      BY <1>13, <2>2, RowWhen
    <3> DEFINE f == [e EXCEPT !.subspan = sub]
    <3>2. f \in Kind(Rows) /\ f.start = e.start /\ f.end = e.end /\ f.subspan = sub
      BY <1>3, <3>1 DEF Kind
    <3>3. k = [l EXCEPT ![i] = f]
      BY <1>10, <1>12, <2>2
    <3> HIDE DEF f
    <3>4. k \in Seq(Kind(Rows)) /\ Len(k) = Len(l) /\ \A n \in 1 .. Len(l) : k[n] = IF n = i THEN f ELSE l[n]
      BY <1>1, <1>2, <3>2, <3>3, ExceptSeq
    <3>5. \A n \in 1 .. Len(l) : k[n].start = l[n].start /\ k[n].end = l[n].end
      BY <1>12, <3>2, <3>4
    <3>6. Good(Rows, k)
      <4>1. Ordered(k)
        BY <1>1, <3>4, <3>5 DEF Ordered, Good
      <4>2. Filled(Range(k))
        <5>1. /\ \A x : x \in Range(k) <=> \E n \in 1 .. Len(k) : x = k[n]
              /\ \A n \in 1 .. Len(l) : l[n] \in Range(l)
          BY <1>1, <3>4, RangeEquality
        <5> QED  BY <1>1, <3>4, <3>5, <5>1 DEF Filled, Good
      <4> QED  BY <3>4, <4>1, <4>2 DEF Good
    <3>7. ASSUME NEW x \in Int, NEW y \in Int PROVE Holds(k, x, y) <=> Holds(l, x, y) /\ <<x, y>> \notin T
      <4>1. /\ Holds(k, x, y) <=> \E n \in 1 .. Len(l) : k[n].start <= y /\ y < k[n].end /\ InRow(k[n].subspan, x)
            /\ Holds(l, x, y) <=> \E n \in 1 .. Len(l) : l[n].start <= y /\ y < l[n].end /\ InRow(l[n].subspan, x)
        BY <1>1, <3>4, HoldsAt
      <4>2. \A n \in 1 .. Len(l) : l[n].start \in Int /\ l[n].end \in Int
        <5>1. ASSUME NEW n \in 1 .. Len(l) PROVE l[n] \in Kind(Rows)
          BY <1>1, ElementOfSeq
        <5> QED  BY <5>1 DEF Kind
      <4>3. \A n \in 1 .. Len(l) : n # i => l[n].end <= e.start \/ e.end <= l[n].start
        BY <1>1, <1>2, <1>12 DEF Good, Ordered
      <4>4. ASSUME NEW n \in 1 .. Len(l)
            PROVE  k[n].start <= y /\ y < k[n].end /\ InRow(k[n].subspan, x)
                   <=> l[n].start <= y /\ y < l[n].end /\ InRow(l[n].subspan, x) /\ <<x, y>> \notin T
        <5>1. CASE n = i
          <6>1. k[n] = f /\ l[n] = e
            BY <1>12, <3>4, <5>1
          <6> QED  BY <1>12, <1>14, <1>15, <3>2, <6>1
        <5>2. CASE n # i
          <6>1. k[n] = l[n]
            BY <3>4, <5>2
          <6>2. ~(l[n].start <= y /\ y < l[n].end /\ e.start <= y /\ y < e.end)
            BY <1>4, <4>2, <4>3, <5>2, SMTT(30)
          <6> QED  BY <1>15, <6>1, <6>2
        <5> QED  BY <5>1, <5>2
      <4> QED  BY <4>1, <4>4
    <3> QED  BY <3>6, <3>7
  <2> QED  BY <2>1, <2>2
<1>18. S \ T \in SUBSET (Int \X Int) /\ \A x, y \in Int : <<x, y>> \in S \ T <=> Holds(k, x, y)
  BY <1>1, <1>17, ShowsHolds
<1>19. Shows(k, S \ T)
  BY <1>17, <1>18, ShowsWhen
<1> QED  BY <1>19 DEF k, T

-----------------------------------------------------------------------------
(* A region that is moved.                                                   *)

Moved(c, d) == [j \in 1 .. Len(c) |-> Span(c[j].start + d, c[j].end + d, NoSubspan)]

\* A list of which each span lies d further than one in order is in order.
Shifted(l, k, d) ==
  Len(k) = Len(l) /\ \A n \in 1 .. Len(l) : k[n].start = l[n].start + d /\ k[n].end = l[n].end + d

\* Order is that of starts and ends.
LEMMA InOrderToo ==
  ASSUME NEW C, NEW l, Good(C, l), NEW B, NEW k \in Seq(Kind(B)), NEW d \in Int, Shifted(l, k, d)
  PROVE  Good(B, k)
<1>0. Len(k) = Len(l) /\ \A n \in 1 .. Len(l) : k[n].start = l[n].start + d /\ k[n].end = l[n].end + d
  BY DEF Shifted
<1>1. l \in Seq(Kind(C)) /\ Ordered(l) /\ Filled(Range(l))
  BY DEF Good
<1>2. ASSUME NEW n \in 1 .. Len(l) PROVE l[n].start \in Int /\ l[n].end \in Int /\ l[n].start < l[n].end
  <2>1. l[n] \in Kind(C) /\ l[n] \in Range(l)
    BY <1>1, ElementOfSeq, RangeEquality
  <2> QED  BY <1>1, <2>1 DEF Kind, Filled
<1>3. Ordered(k)
  <2>1. ASSUME NEW i \in 1 .. Len(k), NEW j \in 1 .. Len(k), i < j PROVE k[i].end <= k[j].start
    <3>1. l[i].end <= l[j].start
      BY <1>0, <1>1, <2>1 DEF Ordered
    <3>2. i \in 1 .. Len(l) /\ j \in 1 .. Len(l)
      BY <1>0
    <3>3. k[i].end = l[i].end + d /\ k[j].start = l[j].start + d
      BY <1>0, <3>2
    <3>4. l[i].end \in Int /\ l[j].start \in Int
      BY <1>2, <3>2
    <3> QED  BY <3>1, <3>3, <3>4
  <2> QED  BY <2>1 DEF Ordered
<1>4. Filled(Range(k))
  <2>1. \A x \in Range(k) : \E n \in 1 .. Len(k) : x = k[n]
    BY RangeEquality
  <2>2. \A n \in 1 .. Len(k) : k[n].start < k[n].end
    BY <1>0, <1>2
  <2> QED  BY <2>1, <2>2 DEF Filled
<1> QED  BY <1>3, <1>4 DEF Good

\* A row moved sideways.
LEMMA MovedRow ==
  ASSUME NEW c \in Rows, NEW d \in Int
  PROVE  /\ Moved(c, d) \in Rows
         /\ \A x \in Int : InRow(Moved(c, d), x) <=> InRow(c, x - d)
<1> DEFINE k == Moved(c, d)
<1>1. Good(Single, c) /\ c \in Seq(Kind(Single)) /\ Len(c) \in Nat \ {0}
  BY EmptySeq, LenProperties DEF Rows, Good
<1>2. ASSUME NEW j \in 1 .. Len(c)
      PROVE  c[j].start \in Int /\ c[j].end \in Int
  <2>1. c[j] \in Kind(Single)
    BY <1>1, ElementOfSeq
  <2> QED  BY <2>1 DEF Kind
<1>3. \A j \in 1 .. Len(c) : Span(c[j].start + d, c[j].end + d, NoSubspan) \in Kind(Single)
  BY <1>2 DEF Span, Kind, Single
<1>4. k \in Seq(Kind(Single)) /\ Len(k) = Len(c)
  BY <1>1, <1>3, IsASeq DEF Moved
<1>5. \A j \in 1 .. Len(c) : k[j].start = c[j].start + d /\ k[j].end = c[j].end + d
  BY DEF Moved, Span
<1> HIDE DEF k
<1>6. Good(Single, k)
  <2>1. Shifted(c, k, d)
    BY <1>4, <1>5 DEF Shifted
  <2> QED  BY <1>1, <1>4, <2>1, InOrderToo
<1>7. k # <<>>
  BY <1>1, <1>4, EmptySeq
<1>8. ASSUME NEW x \in Int PROVE InRow(k, x) <=> InRow(c, x - d)
  <2>1. /\ \A s : s \in Range(k) <=> \E j \in 1 .. Len(c) : s = k[j]
        /\ \A s : s \in Range(c) <=> \E j \in 1 .. Len(c) : s = c[j]
    BY <1>1, <1>4, RangeEquality
  <2>2. InRow(k, x) <=> \E j \in 1 .. Len(c) : k[j].start <= x /\ x < k[j].end
    BY <2>1 DEF InRow
  <2>3. InRow(c, x - d) <=> \E j \in 1 .. Len(c) : c[j].start <= x - d /\ x - d < c[j].end
    BY <2>1 DEF InRow
  <2>4. \A j \in 1 .. Len(c) : k[j].start <= x /\ x < k[j].end <=> c[j].start <= x - d /\ x - d < c[j].end
    BY <1>2, <1>5
  <2> QED  BY <2>2, <2>3, <2>4
<1> QED  BY <1>6, <1>7, <1>8, RowWhen DEF k

\* sraRgnOffset makes a list that shows the pixels moved.
LEMMA OffsetShows ==
  ASSUME NEW l, NEW S, Shows(l, S), NEW v \in Int \X Int
  PROVE  Shows(Offset(l, v), {<<p[1] + v[1], p[2] + v[2]>> : p \in S})
<1> DEFINE k == Offset(l, v)  T == {<<p[1] + v[1], p[2] + v[2]>> : p \in S}  dx == v[1]  dy == v[2]
<1>1. Good(Rows, l) /\ S = Covered(l) /\ l \in Seq(Kind(Rows)) /\ Len(l) \in Nat /\ dx \in Int /\ dy \in Int
  BY LenProperties DEF Shows, Good
<1>2. ASSUME NEW n \in 1 .. Len(l)
      PROVE  l[n].start \in Int /\ l[n].end \in Int /\ l[n].subspan \in Rows
  <2>1. l[n] \in Kind(Rows)
    BY <1>1, ElementOfSeq
  <2> QED  BY <2>1 DEF Kind
<1> DEFINE band(n) == Span(l[n].start + dy, l[n].end + dy, Moved(l[n].subspan, dx))
<1>3. k = [n \in 1 .. Len(l) |-> band(n)]
  BY DEF Offset, Moved
<1>4. T = {<<p[1] + dx, p[2] + dy>> : p \in S}
  OBVIOUS
<1> HIDE DEF k, T, dx, dy
<1>5. \A n \in 1 .. Len(l) : Moved(l[n].subspan, dx) \in Rows
  BY <1>1, <1>2, MovedRow
<1>6. \A n \in 1 .. Len(l) : /\ band(n) \in Kind(Rows) /\ band(n).start = l[n].start + dy
                             /\ band(n).end = l[n].end + dy /\ band(n).subspan = Moved(l[n].subspan, dx)
  <2>1. ASSUME NEW n \in 1 .. Len(l), NEW c \in Rows
        PROVE  LET b == Span(l[n].start + dy, l[n].end + dy, c)
               IN  b \in Kind(Rows) /\ b.start = l[n].start + dy /\ b.end = l[n].end + dy /\ b.subspan = c
    <3>1. l[n].start + dy \in Int /\ l[n].end + dy \in Int
      <4>1. l[n].start \in Int /\ l[n].end \in Int /\ dy \in Int
        BY <1>1, <1>2
      <4> QED  BY <4>1
    <3> QED  BY <3>1 DEF Span, Kind
  <2> QED  BY <1>5, <2>1, Zenon
<1> HIDE DEF band
<1>7. k \in Seq(Kind(Rows)) /\ Len(k) = Len(l) /\ \A n \in 1 .. Len(l) : k[n] = band(n)
  BY <1>1, <1>3, <1>6, IsASeq
<1>8. Good(Rows, k)
  <2>1. Shifted(l, k, dy)
    BY <1>6, <1>7 DEF Shifted
  <2> QED  BY <1>1, <1>7, <2>1, InOrderToo
<1>9. ASSUME NEW x \in Int, NEW y \in Int PROVE Holds(k, x, y) <=> Holds(l, x - dx, y - dy)
  <2>1. /\ Holds(k, x, y) <=> \E n \in 1 .. Len(l) : k[n].start <= y /\ y < k[n].end /\ InRow(k[n].subspan, x)
        /\ Holds(l, x - dx, y - dy)
           <=> \E n \in 1 .. Len(l) : l[n].start <= y - dy /\ y - dy < l[n].end /\ InRow(l[n].subspan, x - dx)
    BY <1>1, <1>7, HoldsAt
  <2>2. ASSUME NEW n \in 1 .. Len(l)
        PROVE  k[n].start <= y /\ y < k[n].end /\ InRow(k[n].subspan, x)
               <=> l[n].start <= y - dy /\ y - dy < l[n].end /\ InRow(l[n].subspan, x - dx)
    <3>1. k[n].start <= y /\ y < k[n].end <=> l[n].start <= y - dy /\ y - dy < l[n].end
      <4>1. k[n].start = l[n].start + dy /\ k[n].end = l[n].end + dy
        BY <1>6, <1>7, Zenon
      <4>2. l[n].start \in Int /\ l[n].end \in Int /\ dy \in Int
        BY <1>1, <1>2
      <4> QED  BY <4>1, <4>2
    <3>2. InRow(k[n].subspan, x) <=> InRow(l[n].subspan, x - dx)
      <4>1. k[n].subspan = Moved(l[n].subspan, dx)
        BY <1>6, <1>7
      <4>2. l[n].subspan \in Rows
        BY <1>2
      <4>3. \A z \in Int : InRow(Moved(l[n].subspan, dx), z) <=> InRow(l[n].subspan, z - dx)
        BY <1>1, <4>2, MovedRow
      <4> QED  BY <4>1, <4>3
    <3> QED  BY <3>1, <3>2
  <2> QED  BY <2>1, <2>2
<1>10. T \in SUBSET (Int \X Int) /\ \A x, y \in Int : <<x, y>> \in T <=> <<x - dx, y - dy>> \in S
  <2>1. S \subseteq Int \X Int
    BY <1>1, ShowsHolds
  <2>2. T \in SUBSET (Int \X Int)
    BY <1>1, <1>4, <2>1
  <2>3. ASSUME NEW x \in Int, NEW y \in Int, <<x, y>> \in T PROVE <<x - dx, y - dy>> \in S
    <3>1. PICK p \in S : <<x, y>> = <<p[1] + dx, p[2] + dy>>
      BY <1>4, <2>3
    <3>2. PICK a \in Int, b \in Int : p = <<a, b>>
      BY <2>1
    <3>3. x = a + dx /\ y = b + dy
      BY <3>1, <3>2
    <3>4. a = x - dx /\ b = y - dy
      BY <1>1, <3>3
    <3> QED  BY <3>2, <3>4
  <2>4. ASSUME NEW x \in Int, NEW y \in Int, <<x - dx, y - dy>> \in S PROVE <<x, y>> \in T
    <3>1. (x - dx) + dx = x /\ (y - dy) + dy = y
      BY <1>1
    <3> QED  BY <1>4, <2>4, <3>1
  <2> QED  BY <2>2, <2>3, <2>4
<1>11. \A x, y \in Int : <<x, y>> \in T <=> Holds(k, x, y)
  <2>1. \A x, y \in Int : x - dx \in Int /\ y - dy \in Int
    BY <1>1
  <2> QED  BY <1>1, <1>9, <1>10, <2>1, ShowsHolds
<1>12. Shows(k, T)
  BY <1>8, <1>10, <1>11, ShowsWhen
<1> QED  BY <1>12 DEF k, T

-----------------------------------------------------------------------------
(* The smallest rectangle around a region.                                   *)

\* A list of numbers has a least and a greatest one.
LEMMA LeastIndex ==
  ASSUME NEW n \in Nat \ {0}, NEW f \in [1 .. n -> Int]
  PROVE  \E i \in 1 .. n : \A j \in 1 .. n : f[i] <= f[j]
<1> DEFINE HasLeast(k) == \E i \in 1 .. k : \A j \in 1 .. k : f[i] <= f[j]
           Bad == {k \in Nat : k \in 1 .. n /\ ~HasLeast(k)}
<1>1. SUFFICES ASSUME Bad # {} PROVE FALSE
  <2>1. n \in 1 .. n /\ n \in Nat
    OBVIOUS
  <2>2. HasLeast(n)
    <3> HIDE DEF HasLeast
    <3> QED  BY <1>1, <2>1
  <2> QED  BY <2>2
<1>2. PICK k \in Bad : \A m \in Bad : ~(<<m, k>> \in OpToRel(<, Nat))
  <2>1. Bad \subseteq Nat
    OBVIOUS
  <2> HIDE DEF Bad
  <2> QED  BY <1>1, <2>1, WFMin, NatLessThanWellFounded, Zenon
<1>3. \A x, y \in Nat : x < y => <<x, y>> \in OpToRel(<, Nat)
  BY Zenon DEF OpToRel
<1>4. k \in Nat /\ k \in 1 .. n /\ ~HasLeast(k)
  OBVIOUS
<1>5. CASE k = 1
  <2>1. HasLeast(1)
    OBVIOUS
  <2> QED  BY <1>4, <1>5, <2>1
<1>6. CASE k > 1
  <2>1. k - 1 \in Nat /\ k - 1 \in 1 .. n /\ k - 1 < k
    BY <1>4, <1>6
  <2>2. HasLeast(k - 1)
    <3>1. k - 1 \notin Bad
      <4> HIDE DEF Bad
      <4> QED  BY <1>2, <1>3, <1>4, <2>1
    <3> HIDE DEF HasLeast
    <3> QED  BY <2>1, <3>1
  <2>3. PICK i \in 1 .. k - 1 : \A j \in 1 .. k - 1 : f[i] <= f[j]
    BY <2>2
  <2>4. \A j \in 1 .. k : j \in 1 .. k - 1 \/ j = k
    BY <1>4
  <2>5. i \in 1 .. k /\ k \in 1 .. k /\ f[i] \in Int /\ f[k] \in Int /\ \A j \in 1 .. k : f[j] \in Int
    BY <1>4, <2>3
  <2>6. CASE f[i] <= f[k]
    <3>1. \A j \in 1 .. k : f[i] <= f[j]
      BY <2>3, <2>4, <2>6
    <3> QED  BY <1>4, <2>5, <3>1
  <2>7. CASE ~(f[i] <= f[k])
    <3>1. \A j \in 1 .. k : f[k] <= f[j]
      BY <2>3, <2>4, <2>5, <2>7
    <3> QED  BY <1>4, <2>5, <3>1
  <2> QED  BY <2>6, <2>7
<1> QED  BY <1>4, <1>5, <1>6

\* What Min and Max are.
LEMMA MinIs ==
  ASSUME NEW T \in SUBSET Int, NEW a \in T, \A y \in T : a <= y
  PROVE  Min(T) = a
<1>1. Min(T) \in T /\ \A y \in T : Min(T) <= y
  BY DEF Min
<1>2. Min(T) \in Int /\ a \in Int /\ Min(T) <= a /\ a <= Min(T)
  BY <1>1
<1> QED  BY <1>2

LEMMA MaxIs ==
  ASSUME NEW T \in SUBSET Int, NEW a \in T, \A y \in T : a >= y
  PROVE  Max(T) = a
<1>1. Max(T) \in T /\ \A y \in T : Max(T) >= y
  BY DEF Max
<1>2. Max(T) \in Int /\ a \in Int /\ Max(T) <= a /\ a <= Max(T)
  BY <1>1
<1> QED  BY <1>2

\* The outermost places of the spans of a list in order.
Bounds(l, a, b) ==
  /\ a \in Int /\ b \in Int /\ a < b /\ l # <<>>
  /\ \E s \in Range(l) : s.start = a
  /\ \E s \in Range(l) : s.end = b
  /\ \A s \in Range(l) : s.start \in Int /\ s.end \in Int /\ a <= s.start /\ s.end <= b /\ s.start < s.end

\* The bands of a good list lie between the start of the first and the end of the last.
LEMMA BoundsOf ==
  ASSUME NEW C, NEW l, Good(C, l), l # <<>>
  PROVE  Bounds(l, l[1].start, l[Len(l)].end)
<1>1. l \in Seq(Kind(C)) /\ Ordered(l) /\ Filled(Range(l)) /\ Len(l) \in Nat \ {0}
  BY EmptySeq, LenProperties DEF Good
<1>2. ASSUME NEW n \in 1 .. Len(l)
      PROVE  l[n] \in Range(l) /\ l[n].start \in Int /\ l[n].end \in Int /\ l[n].start < l[n].end
  <2>1. l[n] \in Kind(C) /\ l[n] \in Range(l)
    BY <1>1, ElementOfSeq, RangeEquality
  <2> QED  BY <1>1, <2>1 DEF Kind, Filled
<1>3. 1 \in 1 .. Len(l) /\ Len(l) \in 1 .. Len(l)
  BY <1>1
<1>4. ASSUME NEW n \in 1 .. Len(l) PROVE l[1].start <= l[n].start /\ l[n].end <= l[Len(l)].end
  <2>1. l[1].start <= l[n].start
    <3>1. CASE n = 1
      BY <1>2, <3>1
    <3>2. CASE 1 < n
      <4>1. l[1].end <= l[n].start
        BY <1>1, <1>3, <3>2 DEF Ordered
      <4> QED  BY <1>2, <1>3, <4>1
    <3> QED  BY <3>1, <3>2
  <2>2. l[n].end <= l[Len(l)].end
    <3>1. CASE n = Len(l)
      BY <1>2, <3>1
    <3>2. CASE n < Len(l)
      <4>1. l[n].end <= l[Len(l)].start
        BY <1>1, <1>3, <3>2 DEF Ordered
      <4> QED  BY <1>2, <1>3, <4>1
    <3> QED  BY <1>1, <3>1, <3>2
  <2> QED  BY <2>1, <2>2
<1>5. ASSUME NEW s \in Range(l)
      PROVE  /\ s.start \in Int /\ s.end \in Int /\ l[1].start <= s.start /\ s.end <= l[Len(l)].end /\ s.start < s.end
  <2>1. PICK n \in 1 .. Len(l) : s = l[n]
    BY <1>1, RangeEquality
  <2> QED  BY <1>2, <1>4, <2>1
<1>6. l[1].start \in Int /\ l[Len(l)].end \in Int /\ l[1].start < l[Len(l)].end
  <2>1. l[1].start \in Int /\ l[1].end \in Int /\ l[Len(l)].end \in Int /\ l[1].start < l[1].end /\ l[1].end <= l[Len(l)].end
    BY <1>2, <1>3, <1>4
  <2> QED  BY <2>1
<1>7. (\E s \in Range(l) : s.start = l[1].start) /\ \E s \in Range(l) : s.end = l[Len(l)].end
  BY <1>2, <1>3
<1> QED  BY <1>5, <1>6, <1>7 DEF Bounds

\* The spans of all the bands, and the outermost places of them.
SpansIn(l) == UNION {Range(l[i].subspan) : i \in 1 .. Len(l)}
Sides(l, a, b) ==
  /\ a \in Int /\ b \in Int /\ a < b
  /\ \E s \in SpansIn(l) : s.start = a
  /\ \E s \in SpansIn(l) : s.end = b
  /\ \A s \in SpansIn(l) : s.start \in Int /\ s.end \in Int /\ a <= s.start /\ s.end <= b /\ s.start < s.end

\* The spans of a good list lie between two sides that some of them reach.
LEMMA SidesExist ==
  ASSUME NEW l, Good(Rows, l), l # <<>>
  PROVE  \E a, b : Sides(l, a, b)
<1>1. l \in Seq(Kind(Rows)) /\ Len(l) \in Nat \ {0}
  BY EmptySeq, LenProperties DEF Good
<1> DEFINE n == Len(l)  c(i) == l[i].subspan
           f == [i \in 1 .. n |-> c(i)[1].start]  g == [i \in 1 .. n |-> 0 - c(i)[Len(c(i))].end]
<1>2. ASSUME NEW i \in 1 .. n PROVE Bounds(c(i), c(i)[1].start, c(i)[Len(c(i))].end)
  <2>1. l[i] \in Kind(Rows)
    BY <1>1, ElementOfSeq
  <2>2. Good(Single, c(i)) /\ c(i) # <<>>
    BY <2>1 DEF Kind, Rows
  <2> HIDE DEF c
  <2> QED  BY <2>2, BoundsOf
<1>3. \A s : s \in SpansIn(l) <=> \E i \in 1 .. n : s \in Range(c(i))
  BY DEF SpansIn
<1> HIDE DEF c, n
<1>4. n \in Nat \ {0} /\ f \in [1 .. n -> Int] /\ g \in [1 .. n -> Int]
  <2>1. n \in Nat \ {0}
    BY <1>1 DEF n
  <2>2. \A i \in 1 .. n : c(i)[1].start \in Int /\ c(i)[Len(c(i))].end \in Int
    BY <1>2 DEF Bounds
  <2> QED  BY <2>1, <2>2
<1>5. \E i \in 1 .. n : \A j \in 1 .. n : f[i] <= f[j]
  <2> HIDE DEF f
  <2> QED  BY <1>4, LeastIndex
<1>6. \E i \in 1 .. n : \A j \in 1 .. n : g[i] <= g[j]
  <2> HIDE DEF g
  <2> QED  BY <1>4, LeastIndex
<1>7. PICK i \in 1 .. n : \A j \in 1 .. n : c(i)[1].start <= c(j)[1].start
  BY <1>5
<1>8. PICK k \in 1 .. n : \A j \in 1 .. n : c(k)[Len(c(k))].end >= c(j)[Len(c(j))].end
  <2> DEFINE e(j) == c(j)[Len(c(j))].end
  <2>1. \A j \in 1 .. n : e(j) \in Int
    BY <1>2 DEF Bounds
  <2>2. \A j \in 1 .. n : g[j] = 0 - e(j)
    OBVIOUS
  <2> HIDE DEF e, g
  <2>3. PICK k \in 1 .. n : \A j \in 1 .. n : g[k] <= g[j]
    BY <1>6
  <2>4. \A j \in 1 .. n : e(k) >= e(j)
    BY <2>1, <2>2, <2>3
  <2> QED  BY <2>4 DEF e
<1> DEFINE a(j) == c(j)[1].start  b(j) == c(j)[Len(c(j))].end
<1>9. \A j \in 1 .. n : Bounds(c(j), a(j), b(j)) /\ a(i) <= a(j) /\ b(j) <= b(k)
  <2>1. \A j \in 1 .. n : b(j) \in Int
    BY <1>2 DEF Bounds
  <2> QED  BY <1>2, <1>7, <1>8, <2>1
<1> HIDE DEF a, b
<1>10. \A j \in 1 .. n : a(j) \in Int /\ b(j) \in Int /\ a(j) < b(j)
  BY <1>9 DEF Bounds
<1>11. \E s \in SpansIn(l) : s.start = a(i)
  BY <1>3, <1>9 DEF Bounds
<1>12. \E s \in SpansIn(l) : s.end = b(k)
  BY <1>3, <1>9 DEF Bounds
<1>13. ASSUME NEW s \in SpansIn(l)
       PROVE  s.start \in Int /\ s.end \in Int /\ a(i) <= s.start /\ s.end <= b(k) /\ s.start < s.end
  <2>1. PICK j \in 1 .. n : s \in Range(c(j))
    BY <1>3
  <2>2. s.start \in Int /\ s.end \in Int /\ a(j) <= s.start /\ s.end <= b(j) /\ s.start < s.end
    BY <1>9, <2>1 DEF Bounds
  <2> QED  BY <1>9, <1>10, <2>2
<1>14. a(i) < b(k)
  BY <1>9, <1>10
<1> QED  BY <1>10, <1>11, <1>12, <1>13, <1>14 DEF Sides

\* sraRgnBBox makes the smallest rectangle around the pixels.
LEMMA BBoxShows ==
  ASSUME NEW l, NEW S, Shows(l, S)
  PROVE  Shows(BBox(l), Around(S))
<1>1. Good(Rows, l) /\ S = Covered(l) /\ S \subseteq Int \X Int /\ \A x, y \in Int : <<x, y>> \in S <=> Holds(l, x, y)
  BY ShowsHolds DEF Shows
<1>2. CASE l = <<>>
  <2>1. \A x, y \in Int : ~Holds(l, x, y)
    BY <1>2, RangeNone DEF Holds
  <2>2. S = {}
    <3>1. ASSUME NEW p \in S PROVE FALSE
      <4>1. PICK x \in Int, y \in Int : p = <<x, y>>
        BY <1>1
      <4> QED  BY <1>1, <2>1, <4>1
    <3> QED  BY <3>1
  <2>3. BBox(l) = l /\ Around(S) = S
    BY <1>2, <2>2 DEF BBox, Around
  <2> QED  BY <2>3
<1>3. CASE l # <<>>
  <2>1. PICK x1, x2 : Sides(l, x1, x2)
    BY <1>1, <1>3, SidesExist
  <2> DEFINE y1 == l[1].start  y2 == l[Len(l)].end  r == <<x1, y1, x2, y2>>
  <2>2. Bounds(l, y1, y2)
    BY <1>1, <1>3, BoundsOf
  <2> HIDE DEF y1, y2
  <2>3. /\ x1 \in Int /\ x2 \in Int /\ x1 < x2
        /\ \A s \in SpansIn(l) : s.start \in Int /\ s.end \in Int /\ x1 <= s.start /\ s.end <= x2 /\ s.start < s.end
    BY <2>1 DEF Sides
  <2>4. /\ y1 \in Int /\ y2 \in Int /\ y1 < y2
        /\ \A b \in Range(l) : b.start \in Int /\ b.end \in Int /\ y1 <= b.start /\ b.end <= y2 /\ b.start < b.end
    BY <2>2 DEF Bounds
  <2>5. \A s : s \in SpansIn(l) <=> \E b \in Range(l) : s \in Range(b.subspan)
    <3>1. l \in Seq(Kind(Rows))
      BY <1>1 DEF Good
    <3>2. \A b : b \in Range(l) <=> \E i \in 1 .. Len(l) : b = l[i]
      BY <3>1, RangeEquality
    <3>3. \A s : s \in SpansIn(l) <=> \E i \in 1 .. Len(l) : s \in Range(l[i].subspan)
      BY DEF SpansIn
    <3>4. ASSUME NEW s, NEW i \in 1 .. Len(l), s \in Range(l[i].subspan)
          PROVE  \E b \in Range(l) : s \in Range(b.subspan)
      BY <3>2, <3>4
    <3>5. ASSUME NEW s, NEW b \in Range(l), s \in Range(b.subspan)
          PROVE  \E i \in 1 .. Len(l) : s \in Range(l[i].subspan)
      BY <3>2, <3>5
    <3> QED  BY <3>3, <3>4, <3>5
  <2>6. \A b \in Range(l) : \E s : s \in Range(b.subspan)
    <3>1. ASSUME NEW b \in Range(l) PROVE \E s : s \in Range(b.subspan)
      <4>1. b \in Kind(Rows)
        BY <1>1, RangeOfSeq DEF Good
      <4>2. b.subspan \in Rows
        BY <4>1 DEF Kind
      <4> DEFINE c == b.subspan
      <4>3. c \in Seq(Kind(Single)) /\ c # <<>>
        BY <4>2 DEF Rows, Good
      <4> HIDE DEF c
      <4>4. Len(c) \in Nat \ {0}
        BY <4>3, EmptySeq, LenProperties
      <4>5. c[1] \in Range(c)
        BY <4>3, <4>4, RangeEquality
      <4> QED  BY <4>5 DEF c
    <3> QED  BY <3>1
  \* Every outermost row and column has a pixel.
  <2>7. /\ \E p \in S : p[1] = x1
        /\ \E p \in S : p[1] = x2 - 1
        /\ \E p \in S : p[2] = y1
        /\ \E p \in S : p[2] = y2 - 1
    <3>1. ASSUME NEW b \in Range(l), NEW s \in Range(b.subspan)
          PROVE  /\ b.start \in Int /\ b.end \in Int /\ s.start \in Int /\ s.end \in Int
                 /\ <<s.start, b.start>> \in S /\ <<s.end - 1, b.start>> \in S /\ <<s.start, b.end - 1>> \in S
      <4>1. /\ b.start \in Int /\ b.end \in Int /\ b.start < b.end
            /\ s.start \in Int /\ s.end \in Int /\ s.start < s.end
        BY <2>3, <2>4, <2>5
      <4>2. \A x, y \in Int : b.start <= y /\ y < b.end /\ s.start <= x /\ x < s.end => <<x, y>> \in S
        BY <1>1 DEF Holds
      <4> QED  BY <4>1, <4>2
    <3>2. \E p \in S : p[1] = x1
      <4>1. PICK s \in SpansIn(l) : s.start = x1
        BY <2>1 DEF Sides
      <4>2. PICK b \in Range(l) : s \in Range(b.subspan)
        BY <2>5, <4>1
      <4>3. <<s.start, b.start>> \in S
        BY <3>1, <4>2
      <4> QED  BY <4>1, <4>3
    <3>3. \E p \in S : p[1] = x2 - 1
      <4>1. PICK s \in SpansIn(l) : s.end = x2
        BY <2>1 DEF Sides
      <4>2. PICK b \in Range(l) : s \in Range(b.subspan)
        BY <2>5, <4>1
      <4>3. <<s.end - 1, b.start>> \in S
        BY <3>1, <4>2
      <4> QED  BY <4>1, <4>3
    <3>4. \E p \in S : p[2] = y1
      <4>1. PICK b \in Range(l) : b.start = y1
        BY <2>2 DEF Bounds
      <4>2. PICK s \in Range(b.subspan) : TRUE
        BY <2>6
      <4>3. <<s.start, b.start>> \in S
        BY <3>1, <4>2
      <4> QED  BY <4>1, <4>3
    <3>5. \E p \in S : p[2] = y2 - 1
      <4>1. PICK b \in Range(l) : b.end = y2
        BY <2>2 DEF Bounds
      <4>2. PICK s \in Range(b.subspan) : TRUE
        BY <2>6
      <4>3. <<s.start, b.end - 1>> \in S
        BY <3>1, <4>2
      <4> QED  BY <4>1, <4>3
    <3> QED  BY <3>2, <3>3, <3>4, <3>5
  <2>8. ASSUME NEW p \in S
        PROVE  /\ p[1] \in Int /\ p[2] \in Int
               /\ x1 <= p[1] /\ p[1] <= x2 - 1 /\ y1 <= p[2] /\ p[2] <= y2 - 1
    <3>1. PICK x \in Int, y \in Int : p = <<x, y>>
      BY <1>1
    <3>2. PICK b \in Range(l) : b.start <= y /\ y < b.end /\ \E s \in Range(b.subspan) : s.start <= x /\ x < s.end
      BY <1>1, <3>1 DEF Holds
    <3>3. PICK s \in Range(b.subspan) : s.start <= x /\ x < s.end
      BY <3>2
    <3>4. /\ b.start \in Int /\ b.end \in Int /\ s.start \in Int /\ s.end \in Int
          /\ x1 <= s.start /\ s.end <= x2 /\ y1 <= b.start /\ b.end <= y2
      BY <2>3, <2>4, <2>5
    <3> QED  BY <2>3, <2>4, <3>1, <3>2, <3>3, <3>4
  <2>9. BBox(l) = CreateRect(r)
    <3>1. Min({s.start : s \in SpansIn(l)}) = x1
      <4>1. {s.start : s \in SpansIn(l)} \in SUBSET Int /\ x1 \in {s.start : s \in SpansIn(l)}
        BY <2>1, <2>3 DEF Sides
      <4>2. \A y \in {s.start : s \in SpansIn(l)} : x1 <= y
        BY <2>3
      <4> QED  BY <4>1, <4>2, MinIs
    <3>2. Max({s.end : s \in SpansIn(l)}) = x2
      <4>1. {s.end : s \in SpansIn(l)} \in SUBSET Int /\ x2 \in {s.end : s \in SpansIn(l)}
        BY <2>1, <2>3 DEF Sides
      <4>2. \A y \in {s.end : s \in SpansIn(l)} : x2 >= y
        BY <2>3
      <4> QED  BY <4>1, <4>2, MaxIs
    <3>3. Min({b.start : b \in Range(l)}) = y1
      <4>1. {b.start : b \in Range(l)} \in SUBSET Int /\ y1 \in {b.start : b \in Range(l)}
        BY <2>2, <2>4 DEF Bounds
      <4>2. \A y \in {b.start : b \in Range(l)} : y1 <= y
        BY <2>4
      <4> QED  BY <4>1, <4>2, MinIs
    <3>4. Max({b.end : b \in Range(l)}) = y2
      <4>1. {b.end : b \in Range(l)} \in SUBSET Int /\ y2 \in {b.end : b \in Range(l)}
        BY <2>2, <2>4 DEF Bounds
      <4>2. \A y \in {b.end : b \in Range(l)} : y2 >= y
        BY <2>4
      <4> QED  BY <4>1, <4>2, MaxIs
    <3> QED  BY <1>3, <3>1, <3>2, <3>3, <3>4, Zenon DEF BBox, SpansIn
  <2>10. Around(S) = Inside(r)
    <3> DEFINE xs == {p[1] : p \in S}  ys == {p[2] : p \in S}
    <3>1. Min(xs) = x1
      <4>1. xs \in SUBSET Int /\ x1 \in xs /\ \A y \in xs : x1 <= y
        BY <2>7, <2>8
      <4> HIDE DEF xs
      <4> QED  BY <4>1, MinIs
    <3>2. Max(xs) = x2 - 1
      <4>1. xs \in SUBSET Int /\ x2 - 1 \in xs
        BY <2>7, <2>8
      <4>2. \A y \in xs : x2 - 1 >= y
        BY <2>3, <2>8
      <4> HIDE DEF xs
      <4> QED  BY <4>1, <4>2, MaxIs
    <3>3. Min(ys) = y1
      <4>1. ys \in SUBSET Int /\ y1 \in ys /\ \A y \in ys : y1 <= y
        BY <2>7, <2>8
      <4> HIDE DEF ys
      <4> QED  BY <4>1, MinIs
    <3>4. Max(ys) = y2 - 1
      <4>1. ys \in SUBSET Int /\ y2 - 1 \in ys
        BY <2>7, <2>8
      <4>2. \A y \in ys : y2 - 1 >= y
        BY <2>4, <2>8
      <4> HIDE DEF ys
      <4> QED  BY <4>1, <4>2, MaxIs
    <3>5. S # {}
      BY <2>7
    <3>6. Around(S) = (Min(xs) .. Max(xs)) \X (Min(ys) .. Max(ys))
      BY <3>5, Zenon DEF Around
    <3> HIDE DEF xs, ys
    <3>7. Around(S) = (x1 .. x2 - 1) \X (y1 .. y2 - 1)
      BY <3>1, <3>2, <3>3, <3>4, <3>6
    <3> QED  BY <3>7 DEF Inside
  <2>11. Shows(CreateRect(r), Inside(r))
    <3> DEFINE z == r
    <3>1. z = <<x1, y1, x2, y2>>
      OBVIOUS
    <3> HIDE DEF z
    <3>2. Shows(CreateRect(z), Inside(z))
      BY <2>3, <2>4, <3>1, CreateRectShows
    <3> QED  BY <3>2 DEF z
  <2> QED  BY <2>9, <2>10, <2>11
<1> QED  BY <1>2, <1>3

-----------------------------------------------------------------------------
(* The regions.                                                              *)

\* Each list is one of bands that hold rows, in order, and covers the pixels of
\* its region, until a region is made of a rectangle without pixels.
AllShow == \A g \in Regions : Shows(list[g], pixels[g])
RegionInv ==
  /\ list = [g \in Regions |-> list[g]] /\ pixels = [g \in Regions |-> pixels[g]]
  /\ since \in Nat
  /\ since = 0 => AllShow

\* A region may become what another list shows.
LEMMA BecomesShown ==
  ASSUME RegionInv, AllShow, NEW g \in Regions, NEW l, NEW S, Shows(l, S), Becomes(g, l, S)
  PROVE  AllShow'
<1>1. ASSUME NEW h \in Regions PROVE Shows(list'[h], pixels'[h])
  <2>1. CASE h = g
    <3>1. list'[h] = l /\ pixels'[h] = S
      BY <2>1 DEF RegionInv, Becomes
    <3> QED  BY <3>1
  <2>2. CASE h # g
    <3>1. list'[h] = list[h] /\ pixels'[h] = pixels[h]
      BY <2>2 DEF RegionInv, Becomes
    <3>2. Shows(list[h], pixels[h])
      BY DEF AllShow
    <3> QED  BY <3>1, <3>2
  <2> QED  BY <2>1, <2>2
<1> QED  BY <1>1 DEF AllShow

\* A rectangle with pixels has its corners in order.
LEMMA WithPixels ==
  ASSUME NEW r \in Rects, Inside(r) # {}
  PROVE  Shows(CreateRect(r), Inside(r))
<1>1. PICK x1 \in Int, y1 \in Int, x2 \in Int, y2 \in Int : r = <<x1, y1, x2, y2>>
  BY RegionAssumption
<1>2. Inside(r) = (x1 .. x2 - 1) \X (y1 .. y2 - 1)
  BY <1>1 DEF Inside
<1>3. x1 < x2 /\ y1 < y2
  <2>1. PICK p : p \in (x1 .. x2 - 1) \X (y1 .. y2 - 1)
    BY <1>2
  <2>2. p[1] \in x1 .. x2 - 1 /\ p[2] \in y1 .. y2 - 1
    BY <2>1
  <2> QED  BY <2>2
<1> QED  BY <1>1, <1>3, CreateRectShows

\* The list of the screen's rectangle, by which RgnOffset cuts off, and the empty one.
LEMMA ScreenShows ==
  Shows(CreateRect(<<0, 0, Width, Height>>), Inside(<<0, 0, Width, Height>>))
<1>1. Width \in Int /\ Height \in Int /\ 0 < Width /\ 0 < Height
  BY RegionAssumption
<1> QED  BY <1>1, CreateRectShows

LEMMA EmptyShows == Shows(<<>>, {})
<1>1. Good(Rows, <<>>)
  BY GoodNone
<1>2. \A x, y \in Int : ~Holds(<<>>, x, y)
  BY RangeNone DEF Holds
<1> QED  BY <1>1, <1>2, ShowsWhen

\* The regions start without pixels.
LEMMA InitShown == Init => RegionInv
<1> SUFFICES ASSUME Init PROVE RegionInv
  OBVIOUS
<1>1. ASSUME NEW g \in Regions PROVE Shows(list[g], pixels[g])
  <2>1. list[g] = <<>> /\ pixels[g] = {}
    BY DEF Init
  <2> QED  BY <2>1, EmptyShows
<1>2. AllShow
  BY <1>1 DEF AllShow
<1> QED  BY <1>2 DEF Init, RegionInv

\* Every operation on regions that show their pixels leaves one that does.
LEMMA OperationShown ==
  ASSUME RegionInv, AllShow, NEW g \in Regions,
         \/ \E h \in Regions \ {g} :
               RgnOr(g, h) \/ RgnAnd(g, h) \/ RgnSubtract(g, h) \/ RgnCreateRgn(g, h)
         \/ \E h \in Regions : RgnBBox(g, h)
         \/ \E v \in Shifts : RgnOffset(g, v)
         \/ \E reverse \in BOOLEAN \X BOOLEAN : RgnPopRect(g, reverse)
         \/ RgnMakeEmpty(g)
  PROVE  AllShow'
<1>1. \A h \in Regions : Shows(list[h], pixels[h])
  BY DEF AllShow
<1>2. ASSUME NEW h \in Regions, RgnOr(g, h) PROVE AllShow'
  <2>1. Shows(ListOr[Walk(<<>>, list[g], list[h])], pixels[g] \cup pixels[h])
    BY <1>1, ShowsOr
  <2> QED  BY <1>2, <2>1, BecomesShown DEF RgnOr
<1>3. ASSUME NEW h \in Regions, RgnAnd(g, h) PROVE AllShow'
  <2>1. Shows(ListAnd[Walk(<<>>, list[g], list[h])], pixels[g] \cap pixels[h])
    BY <1>1, ShowsAnd
  <2> QED  BY <1>3, <2>1, BecomesShown DEF RgnAnd
<1>4. ASSUME NEW h \in Regions, RgnSubtract(g, h) PROVE AllShow'
  <2>1. Shows(ListSubtract[Walk(<<>>, list[g], list[h])], pixels[g] \ pixels[h])
    BY <1>1, ShowsSubtract
  <2> QED  BY <1>4, <2>1, BecomesShown DEF RgnSubtract
<1>5. ASSUME NEW h \in Regions, RgnCreateRgn(g, h) PROVE AllShow'
  BY <1>1, <1>5, BecomesShown DEF RgnCreateRgn
<1>6. ASSUME NEW h \in Regions, RgnBBox(g, h) PROVE AllShow'
  <2>1. Shows(BBox(list[h]), Around(pixels[h]))
    BY <1>1, BBoxShows
  <2> QED  BY <1>6, <2>1, BecomesShown DEF RgnBBox
<1>7. ASSUME NEW v \in Shifts, RgnOffset(g, v) PROVE AllShow'
  <2> DEFINE l == Offset(list[g], v)  S == {<<p[1] + v[1], p[2] + v[2]>> : p \in pixels[g]}
             k == CreateRect(<<0, 0, Width, Height>>)  T == Inside(<<0, 0, Width, Height>>)
  <2>1. v \in Int \X Int
    BY RegionAssumption
  <2>2. Shows(l, S)
    BY <1>1, <2>1, OffsetShows
  <2>3. Shows(k, T)
    BY ScreenShows
  <2>4. Becomes(g, ListAnd[Walk(<<>>, l, k)], S \cap T)
    BY <1>7 DEF RgnOffset
  <2> HIDE DEF l, S, k, T
  <2>5. Shows(ListAnd[Walk(<<>>, l, k)], S \cap T)
    BY <2>2, <2>3, ShowsAnd
  <2> QED  BY <2>4, <2>5, BecomesShown
<1>8. ASSUME NEW reverse \in BOOLEAN \X BOOLEAN, RgnPopRect(g, reverse) PROVE AllShow'
  <2>1. list[g] # <<>> /\ Becomes(g, PopRect(list[g], reverse), pixels[g] \ Inside(Popped(list[g], reverse)))
    BY <1>8 DEF RgnPopRect
  <2>2. Shows(PopRect(list[g], reverse), pixels[g] \ Inside(Popped(list[g], reverse)))
    BY <1>1, <2>1, PopRectShows
  <2> QED  BY <2>1, <2>2, BecomesShown
<1>9. ASSUME RgnMakeEmpty(g) PROVE AllShow'
  BY <1>9, EmptyShows, BecomesShown DEF RgnMakeEmpty
<1> QED  BY <1>2, <1>3, <1>4, <1>5, <1>6, <1>7, <1>8, <1>9

\* Whatever an operation does, it sets one region.
LEMMA NextParts ==
  ASSUME Next
  PROVE  \E g \in Regions :
    /\ \E l, S : Becomes(g, l, S)
    /\ \/ \E r \in Rects : RgnCreateRect(g, r) /\ since' = IF since = 0 /\ Inside(r) # {} THEN 0 ELSE since + 1
       \/ /\ since' = IF since = 0 THEN 0 ELSE since + 1
          /\ \/ \E h \in Regions \ {g} :
                  RgnOr(g, h) \/ RgnAnd(g, h) \/ RgnSubtract(g, h) \/ RgnCreateRgn(g, h)
             \/ \E h \in Regions : RgnBBox(g, h)
             \/ \E v \in Shifts : RgnOffset(g, v)
             \/ \E reverse \in BOOLEAN \X BOOLEAN : RgnPopRect(g, reverse)
             \/ RgnMakeEmpty(g)
<1> USE DEF RgnCreateRect, RgnOr, RgnAnd, RgnSubtract, RgnCreateRgn, RgnBBox, RgnOffset, RgnPopRect, RgnMakeEmpty
<1>1. PICK g \in Regions :
        \/ \E r \in Rects : RgnCreateRect(g, r) /\ since' = IF since = 0 /\ Inside(r) # {} THEN 0 ELSE since + 1
        \/ /\ since' = IF since = 0 THEN 0 ELSE since + 1
           /\ \/ \E h \in Regions \ {g} :
                   RgnOr(g, h) \/ RgnAnd(g, h) \/ RgnSubtract(g, h) \/ RgnCreateRgn(g, h)
              \/ \E h \in Regions : RgnBBox(g, h)
              \/ \E v \in Shifts : RgnOffset(g, v)
              \/ \E reverse \in BOOLEAN \X BOOLEAN : RgnPopRect(g, reverse)
              \/ RgnMakeEmpty(g)
  BY Zenon DEF Next
<1>2. \E l, S : Becomes(g, l, S)
  BY <1>1, Zenon
<1> QED  BY <1>1, <1>2, Zenon

\* The invariant is inductive.
LEMMA StepShown ==
  ASSUME RegionInv, [Next]_vars
  PROVE  RegionInv'
<1>1. CASE UNCHANGED vars
  BY <1>1 DEF vars, RegionInv, AllShow
<1>2. CASE Next
  <2>1. PICK g \in Regions :
    /\ \E l, S : Becomes(g, l, S)
    /\ \/ \E r \in Rects : RgnCreateRect(g, r) /\ since' = IF since = 0 /\ Inside(r) # {} THEN 0 ELSE since + 1
       \/ /\ since' = IF since = 0 THEN 0 ELSE since + 1
          /\ \/ \E h \in Regions \ {g} :
                  RgnOr(g, h) \/ RgnAnd(g, h) \/ RgnSubtract(g, h) \/ RgnCreateRgn(g, h)
             \/ \E h \in Regions : RgnBBox(g, h)
             \/ \E v \in Shifts : RgnOffset(g, v)
             \/ \E reverse \in BOOLEAN \X BOOLEAN : RgnPopRect(g, reverse)
             \/ RgnMakeEmpty(g)
    BY <1>2, NextParts
  <2>2. list' = [h \in Regions |-> list'[h]] /\ pixels' = [h \in Regions |-> pixels'[h]]
    <3>1. PICK l, S : Becomes(g, l, S)
      BY <2>1
    <3> QED  BY <3>1 DEF Becomes, RegionInv
  <2>3. since' \in Nat /\ (since' = 0 => since = 0)
    <3>1. since \in Nat
      BY DEF RegionInv
    <3>2. (since' = 0 /\ since = 0) \/ since' = since + 1
      BY <2>1
    <3> QED  BY <3>1, <3>2
  <2>4. ASSUME since' = 0 PROVE AllShow'
    <3>1. since = 0 /\ AllShow
      BY <2>3, <2>4 DEF RegionInv
    <3>2. ASSUME NEW r \in Rects, RgnCreateRect(g, r),
                 since' = IF since = 0 /\ Inside(r) # {} THEN 0 ELSE since + 1
          PROVE  AllShow'
      <4>1. Inside(r) # {}
        BY <2>4, <3>1, <3>2
      <4>2. Shows(CreateRect(r), Inside(r))
        BY <4>1, WithPixels
      <4> QED  BY <3>1, <3>2, <4>2, BecomesShown DEF RgnCreateRect
    <3>3. CASE \/ \E h \in Regions \ {g} :
                    RgnOr(g, h) \/ RgnAnd(g, h) \/ RgnSubtract(g, h) \/ RgnCreateRgn(g, h)
               \/ \E h \in Regions : RgnBBox(g, h)
               \/ \E v \in Shifts : RgnOffset(g, v)
               \/ \E reverse \in BOOLEAN \X BOOLEAN : RgnPopRect(g, reverse)
               \/ RgnMakeEmpty(g)
      BY <3>1, <3>3, OperationShown
    <3> QED  BY <2>1, <3>2, <3>3
  <2> QED  BY <2>2, <2>3, <2>4 DEF RegionInv
<1> QED  BY <1>1, <1>2

\* So it always holds.
LEMMA AlwaysShown == Spec => []RegionInv
<1>1. Init => RegionInv
  BY InitShown
<1>2. RegionInv /\ [Next]_vars => RegionInv'
  BY StepShown
<1> QED  BY <1>1, <1>2, PTL DEF Spec

\* The list of a region stands for exactly the pixels that the operations on it
\* should have left in it (rfbregion.c 273-523), for every screen, every number
\* of regions, rectangle and shift, as long as no region was made of a
\* rectangle without pixels.
THEOREM ListsMeanPixels == Spec => [](since = 0 => Meaning)
<1>1. RegionInv => (since = 0 => Meaning)
  BY DEF RegionInv, AllShow, Shows, Meaning
<1> QED  BY <1>1, AlwaysShown, PTL

\* A good list is sorted.
LEMMA GoodSorted ==
  ASSUME NEW C, NEW l, Good(C, l)
  PROVE  Sorted(l)
<1>1. l \in Seq(Kind(C)) /\ Len(l) \in Nat /\ Ordered(l) /\ Filled(Range(l))
  BY LenProperties DEF Good
<1>2. \A i \in 1 .. Len(l) : l[i].start < l[i].end
  <2>1. \A i \in 1 .. Len(l) : l[i] \in Range(l)
    BY <1>1, RangeEquality
  <2> QED  BY <1>1, <2>1 DEF Filled
<1>3. \A i \in 1 .. Len(l) - 1 : l[i].end <= l[i + 1].start
  BY <1>1 DEF Ordered
<1> QED  BY <1>2, <1>3 DEF Sorted

\* The bands of a region, and the spans of each band, stand in order, do not
\* overlap and are not empty, and no band is without spans, so that sraRgnEmpty
\* tells whether there are pixels (rfbregion.c 170-523).
THEOREM RegionTypeCorrect == Spec => []TypeOK
<1>1. RegionInv => TypeOK
  <2> SUFFICES ASSUME RegionInv, since = 0, NEW g \in Regions
               PROVE  /\ Sorted(list[g])
                      /\ \A i \in 1 .. Len(list[g]) : list[g][i].subspan # <<>> /\ Sorted(list[g][i].subspan)
    BY DEF TypeOK
  <2> DEFINE l == list[g]
  <2>1. Good(Rows, l)
    BY DEF RegionInv, AllShow, Shows
  <2> HIDE DEF l
  <2>2. l \in Seq(Kind(Rows))
    BY <2>1 DEF Good
  <2>3. ASSUME NEW i \in 1 .. Len(l) PROVE l[i].subspan # <<>> /\ Sorted(l[i].subspan)
    <3> DEFINE b == l[i]
    <3>1. b \in Kind(Rows)
      BY <2>2
    <3>2. b.subspan \in Rows
      BY <3>1 DEF Kind
    <3>3. l[i].subspan # <<>> /\ Good(Single, l[i].subspan)
      BY <3>2 DEF Rows
    <3> QED  BY <3>3, GoodSorted
  <2> QED  BY <2>1, <2>3, GoodSorted DEF l
<1> QED  BY <1>1, AlwaysShown, PTL

-----------------------------------------------------------------------------
(* The number of rectangles.                                                 *)

\* Induction up to n, over a set.
LEMMA UpTo ==
  ASSUME NEW n \in Nat, NEW Q, 0 \in Q, \A i \in 0 .. n - 1 : i \in Q => i + 1 \in Q
  PROVE  \A i \in 0 .. n : i \in Q
<1> DEFINE Bad == {i \in Nat : i \in 0 .. n /\ i \notin Q}
<1>1. SUFFICES ASSUME Bad # {} PROVE FALSE
  OBVIOUS
<1>2. PICK k \in Bad : \A m \in Bad : ~(<<m, k>> \in OpToRel(<, Nat))
  <2>1. Bad \subseteq Nat
    OBVIOUS
  <2> HIDE DEF Bad
  <2> QED  BY <1>1, <2>1, WFMin, NatLessThanWellFounded, Zenon
<1>3. \A x, y \in Nat : x < y => <<x, y>> \in OpToRel(<, Nat)
  BY Zenon DEF OpToRel
<1>4. k \in Nat /\ k \in 0 .. n /\ k \notin Q /\ k # 0
  OBVIOUS
<1>5. k - 1 \in Nat /\ k - 1 \in 0 .. n - 1 /\ k - 1 < k /\ (k - 1) + 1 = k
  BY <1>4
<1>6. k - 1 \notin Q
  BY <1>4, <1>5
<1>7. k - 1 \in Bad
  BY <1>5, <1>6
<1> QED  BY <1>2, <1>3, <1>4, <1>5, <1>7

\* c[i] is the number of spans in the first i bands.
Counts(l, c) == c = [i \in 0 .. Len(l) |-> IF i = 0 THEN 0 ELSE c[i - 1] + Len(l[i].subspan)]

\* There is such a function, so that sraRgnCountRects has one to count with.
LEMMA CountsExist ==
  ASSUME NEW l, Len(l) \in Nat
  PROVE  \E c : Counts(l, c)
<1> DEFINE n == Len(l)
           Upto(c, k) == c = [i \in 0 .. k |-> IF i = 0 THEN 0 ELSE c[i - 1] + Len(l[i].subspan)]
           Q == {k \in 0 .. n : \E c : Upto(c, k)}
<1>1. 0 \in Q
  <2> DEFINE c == [i \in 0 .. 0 |-> 0]
  <2>1. Upto(c, 0)
    OBVIOUS
  <2> HIDE DEF Upto, c
  <2> QED  BY <2>1
<1>2. ASSUME NEW k \in 0 .. n - 1, k \in Q PROVE k + 1 \in Q
  <2>1. PICK c : Upto(c, k)
    BY <1>2
  <2> DEFINE d == [i \in 0 .. k + 1 |-> IF i = k + 1 THEN c[k] + Len(l[k + 1].subspan) ELSE c[i]]
  <2>2. \A i \in 0 .. k : c[i] = IF i = 0 THEN 0 ELSE c[i - 1] + Len(l[i].subspan)
    <3> DEFINE r == [i \in 0 .. k |-> IF i = 0 THEN 0 ELSE c[i - 1] + Len(l[i].subspan)]
    <3>1. c = r
      BY <2>1
    <3>2. \A i \in 0 .. k : r[i] = IF i = 0 THEN 0 ELSE c[i - 1] + Len(l[i].subspan)
      OBVIOUS
    <3> HIDE DEF r
    <3> QED  BY <3>1, <3>2
  <2>3. ASSUME NEW i \in 0 .. k + 1
        PROVE  d[i] = IF i = 0 THEN 0 ELSE d[i - 1] + Len(l[i].subspan)
    <3>1. CASE i = k + 1
      <4>1. i # 0 /\ i - 1 = k /\ k \in 0 .. k + 1 /\ k # k + 1
        BY <3>1
      <4>2. d[i] = c[k] + Len(l[i].subspan) /\ d[k] = c[k]
        BY <3>1, <4>1
      <4> QED  BY <4>1, <4>2
    <3>2. CASE i # k + 1
      <4>1. i \in 0 .. k /\ d[i] = c[i]
        BY <3>2
      <4>2. i # 0 => i - 1 \in 0 .. k + 1 /\ i - 1 # k + 1
        BY <3>2
      <4>3. i # 0 => d[i - 1] = c[i - 1]
        BY <4>2
      <4> QED  BY <2>2, <4>1, <4>3
    <3> QED  BY <3>1, <3>2
  <2>4. Upto(d, k + 1)
    <3> DEFINE r == [i \in 0 .. k + 1 |-> IF i = 0 THEN 0 ELSE d[i - 1] + Len(l[i].subspan)]
    <3>1. \A i \in 0 .. k + 1 : d[i] = r[i]
      BY <2>3
    <3>2. d = [i \in 0 .. k + 1 |-> d[i]] /\ r = [i \in 0 .. k + 1 |-> r[i]]
      OBVIOUS
    <3>3. d = r
      <4> HIDE DEF d, r
      <4> QED  BY <3>1, <3>2
    <3> QED  BY <3>3
  <2> HIDE DEF Upto, d
  <2> QED  BY <2>4
<1> HIDE DEF Upto
<1>3. n \in Q
  <2>1. \A i \in 0 .. n : i \in Q
    <3> HIDE DEF Q
    <3> QED  BY <1>1, <1>2, UpTo
  <2> QED  BY <2>1
<1> QED  BY <1>3 DEF Counts, Upto

\* What the counts are.
Counted(l, c) ==
  /\ c[0] = 0 /\ \A i \in 0 .. Len(l) : c[i] \in Nat /\ c[i] <= c[Len(l)]
  /\ \A i \in 1 .. Len(l) : c[i] = c[i - 1] + Len(l[i].subspan)

\* They add up, and the last is the greatest.
LEMMA CountsAre ==
  ASSUME NEW l, Len(l) \in Nat, \A i \in 1 .. Len(l) : Len(l[i].subspan) \in Nat, NEW c, Counts(l, c)
  PROVE  Counted(l, c)
<1> DEFINE n == Len(l)
<1>1. \A i \in 0 .. n : c[i] = IF i = 0 THEN 0 ELSE c[i - 1] + Len(l[i].subspan)
  <2> DEFINE r == [i \in 0 .. n |-> IF i = 0 THEN 0 ELSE c[i - 1] + Len(l[i].subspan)]
  <2>1. c = r
    BY DEF Counts
  <2>2. \A i \in 0 .. n : r[i] = IF i = 0 THEN 0 ELSE c[i - 1] + Len(l[i].subspan)
    OBVIOUS
  <2> HIDE DEF r
  <2> QED  BY <2>1, <2>2
<1>2. c[0] = 0
  BY <1>1
<1>3. \A i \in 1 .. n : c[i] = c[i - 1] + Len(l[i].subspan)
  BY <1>1
<1> DEFINE Q == {k \in 0 .. n : c[k] \in Nat /\ \A i \in 0 .. k : c[i] \in Nat /\ c[i] <= c[k]}
<1>4. 0 \in Q
  BY <1>2
<1>5. ASSUME NEW k \in 0 .. n - 1, k \in Q PROVE k + 1 \in Q
  <2>1. c[k + 1] = c[k] + Len(l[k + 1].subspan) /\ Len(l[k + 1].subspan) \in Nat /\ c[k] \in Nat
    BY <1>3, <1>5
  <2>2. ASSUME NEW i \in 0 .. k + 1 PROVE c[i] \in Nat /\ c[i] <= c[k + 1]
    <3>1. CASE i = k + 1
      BY <2>1, <3>1
    <3>2. CASE i # k + 1
      <4>1. c[i] \in Nat /\ c[i] <= c[k]
        BY <1>5, <3>2
      <4> QED  BY <2>1, <4>1
    <3> QED  BY <3>1, <3>2
  <2>3. c[k + 1] \in Nat
    BY <2>1
  <2> QED  BY <2>2, <2>3
<1>6. n \in Q
  <2>1. \A i \in 0 .. n : i \in Q
    <3> HIDE DEF Q
    <3> QED  BY <1>4, <1>5, UpTo
  <2> QED  BY <2>1
<1> QED  BY <1>2, <1>3, <1>6 DEF Counted

\* sraRgnCountRects gives the last of them.
LEMMA CountRectsIs ==
  ASSUME NEW l, Len(l) \in Nat, \A i \in 1 .. Len(l) : Len(l[i].subspan) \in Nat
  PROVE  \E c : Counted(l, c) /\ CountRects(l) = c[Len(l)]
<1> DEFINE c == CHOOSE f : Counts(l, f)
<1>1. CountRects(l) = c[Len(l)]
  BY DEF CountRects, Counts
<1>2. Counts(l, c)
  BY CountsExist
<1> HIDE DEF c
<1>3. Counted(l, c)
  BY <1>2, CountsAre
<1> QED  BY <1>1, <1>3

-----------------------------------------------------------------------------
(* The places of a list in the order in which the iterator goes through them. *)

\* k comes before i, and how many of 1 .. n do.
Prior(k, i, reverse) == IF reverse THEN k > i ELSE k < i
Turn(i, n, reverse) == IF reverse THEN n - i ELSE i - 1

\* Of 1 .. n, in either direction: what is first, what comes next, and what is last.
LEMMA FirstIs ==
  ASSUME NEW n \in Nat \ {0}, NEW reverse \in BOOLEAN
  PROVE  /\ First(n, reverse) \in 1 .. n /\ Turn(First(n, reverse), n, reverse) = 0
         /\ \A k \in 1 .. n : ~Prior(k, First(n, reverse), reverse)
<1>1. CASE reverse
  BY <1>1 DEF First, Turn, Prior
<1>2. CASE ~reverse
  BY <1>2 DEF First, Turn, Prior
<1> QED  BY <1>1, <1>2

LEMMA AfterIs ==
  ASSUME NEW n \in Nat \ {0}, NEW reverse \in BOOLEAN, NEW i \in 1 .. n, HasNext(i, n, reverse)
  PROVE  /\ After(i, reverse) \in 1 .. n /\ Turn(After(i, reverse), n, reverse) = Turn(i, n, reverse) + 1
         /\ \A k \in 1 .. n : Prior(k, After(i, reverse), reverse) <=> Prior(k, i, reverse) \/ k = i
<1>1. CASE reverse
  BY <1>1 DEF HasNext, After, Turn, Prior
<1>2. CASE ~reverse
  BY <1>2 DEF HasNext, After, Turn, Prior
<1> QED  BY <1>1, <1>2

LEMMA LastIs ==
  ASSUME NEW n \in Nat \ {0}, NEW reverse \in BOOLEAN, NEW i \in 1 .. n, ~HasNext(i, n, reverse)
  PROVE  /\ Turn(i, n, reverse) = n - 1
         /\ \A k \in 1 .. n : Prior(k, i, reverse) \/ k = i
<1>1. CASE reverse
  BY <1>1 DEF HasNext, Turn, Prior
<1>2. CASE ~reverse
  BY <1>2 DEF HasNext, Turn, Prior
<1> QED  BY <1>1, <1>2

\* How many spans lie in the bands before band i.
BandTurn(l, c, i, reverse) == IF reverse THEN c[Len(l)] - c[i] ELSE c[i - 1]

\* A list with bands that all have spans, which c counts.
Countable(l, c) ==
  /\ Len(l) \in Nat \ {0} /\ \A i \in 1 .. Len(l) : Len(l[i].subspan) \in Nat \ {0}
  /\ Counted(l, c)

\* How many there are goes up by the spans of each band, from 0 to all.
LEMMA BandTurns ==
  ASSUME NEW l, NEW c, Countable(l, c), NEW reverse \in BOOLEAN, NEW i \in 1 .. Len(l)
  PROVE  LET n == Len(l[i].subspan)  b == BandTurn(l, c, i, reverse)
         IN  /\ b \in Nat /\ b + n <= c[Len(l)]
             /\ HasNext(i, Len(l), reverse) => BandTurn(l, c, After(i, reverse), reverse) = b + n
             /\ ~HasNext(i, Len(l), reverse) => b + n = c[Len(l)]
             /\ i = First(Len(l), reverse) => b = 0
<1> DEFINE N == Len(l)  n == Len(l[i].subspan)
<1>1. /\ N \in Nat \ {0} /\ n \in Nat \ {0} /\ i \in 1 .. N /\ i \in Int /\ i - 1 \in 0 .. N /\ i \in 0 .. N
      /\ c[0] = 0 /\ c[N] \in Nat /\ c[i] \in Nat /\ c[i - 1] \in Nat /\ c[i] <= c[N] /\ c[i - 1] <= c[N]
      /\ c[i] = c[i - 1] + n
  <2>1. N \in Nat \ {0} /\ n \in Nat \ {0} /\ Counted(l, c)
    BY DEF Countable
  <2>2. i \in 1 .. N /\ i \in Int /\ i - 1 \in 0 .. N /\ i \in 0 .. N /\ N \in 0 .. N
    BY <2>1
  <2> QED  BY <2>1, <2>2 DEF Counted
<1> HIDE DEF N, n
<1>2. CASE reverse
  <2> DEFINE b == c[N] - c[i]
  <2>1. b \in Nat /\ b + n <= c[N]
    BY <1>1
  <2>2. HasNext(i, N, reverse) => After(i, reverse) = i - 1
    BY <1>2 DEF After
  <2>3. c[N] - c[i - 1] = b + n
    BY <1>1
  <2>4. ~HasNext(i, N, reverse) => b + n = c[N]
    <3>1. ~HasNext(i, N, reverse) => i - 1 = 0
      BY <1>1, <1>2 DEF HasNext
    <3> QED  BY <1>1, <3>1
  <2>5. i = First(N, reverse) => b = 0
    BY <1>1, <1>2 DEF First
  <2> QED  BY <1>2, <2>1, <2>2, <2>3, <2>4, <2>5 DEF BandTurn, N, n
<1>3. CASE ~reverse
  <2> DEFINE b == c[i - 1]
  <2>1. b \in Nat /\ b + n <= c[N]
    BY <1>1
  <2>2. HasNext(i, N, reverse) => After(i, reverse) - 1 = i
    BY <1>1, <1>3 DEF After
  <2>3. c[i] = b + n
    BY <1>1
  <2>4. ~HasNext(i, N, reverse) => b + n = c[N]
    <3>1. ~HasNext(i, N, reverse) => i = N
      BY <1>1, <1>3 DEF HasNext
    <3> QED  BY <1>1, <3>1
  <2>5. i = First(N, reverse) => b = 0
    <3>1. i = First(N, reverse) => i - 1 = 0
      BY <1>1, <1>3 DEF First
    <3> QED  BY <1>1, <3>1
  <2> QED  BY <1>3, <2>1, <2>2, <2>3, <2>4, <2>5 DEF BandTurn, N, n
<1> QED  BY <1>2, <1>3

\* Place p comes before q, and how many places do.
Earlier(p, q, reverse) ==
  Prior(p[1], q[1], reverse[2]) \/ (p[1] = q[1] /\ Prior(p[2], q[2], reverse[1]))
PlaceTurn(l, c, p, reverse) ==
  BandTurn(l, c, p[1], reverse[2]) + Turn(p[2], Len(l[p[1]].subspan), reverse[1])

\* The places of a list.
LEMMA PlacesAre ==
  ASSUME NEW l, NEW p
  PROVE  p \in Places(l) <=> \E i \in 1 .. Len(l) : \E j \in 1 .. Len(l[i].subspan) : p = <<i, j>>
BY DEF Places

\* Where the iterator begins.
StartsAt(l, c, reverse, p) ==
  p \in Places(l) /\ PlaceTurn(l, c, p, reverse) = 0 /\ \A q \in Places(l) : ~Earlier(q, p, reverse)
\* The first place.
LEMMA BeginningIs ==
  ASSUME NEW l, NEW c, Countable(l, c), NEW reverse \in BOOLEAN \X BOOLEAN
  PROVE  StartsAt(l, c, reverse, FirstOf(l, reverse, First(Len(l), reverse[2])))
<1> DEFINE N == Len(l)  i == First(N, reverse[2])  n == Len(l[i].subspan)  j == First(n, reverse[1])
<1>1. N \in Nat \ {0} /\ reverse[1] \in BOOLEAN /\ reverse[2] \in BOOLEAN
  BY DEF Countable
<1>2. i \in 1 .. N /\ \A k \in 1 .. N : ~Prior(k, i, reverse[2])
  <2> HIDE DEF N
  <2> QED  BY <1>1, FirstIs
<1>3. n \in Nat \ {0}
  <2> HIDE DEF i
  <2> QED  BY <1>2 DEF Countable
<1>4. j \in 1 .. n /\ Turn(j, n, reverse[1]) = 0 /\ \A k \in 1 .. n : ~Prior(k, j, reverse[1])
  <2> HIDE DEF n
  <2> QED  BY <1>1, <1>3, FirstIs
<1>5. BandTurn(l, c, i, reverse[2]) = 0
  <2> HIDE DEF i
  <2>1. i = First(Len(l), reverse[2])
    BY DEF i
  <2> QED  BY <1>1, <1>2, <2>1, BandTurns
<1> DEFINE p == <<i, j>>
<1>6. FirstOf(l, reverse, First(Len(l), reverse[2])) = p /\ p[1] = i /\ p[2] = j
  BY DEF FirstOf
<1>7. n = Len(l[i].subspan)
  OBVIOUS
<1> HIDE DEF N, i, n, j
<1>8. p \in Places(l)
  BY <1>2, <1>4, <1>7, PlacesAre DEF N
<1>9. PlaceTurn(l, c, p, reverse) = 0
  BY <1>4, <1>5, <1>7 DEF PlaceTurn
<1>10. ASSUME NEW q \in Places(l) PROVE ~Earlier(q, p, reverse)
  <2>1. PICK a, b : a \in 1 .. N /\ b \in 1 .. Len(l[a].subspan) /\ q = <<a, b>>
    BY PlacesAre DEF N
  <2>2. ~Prior(a, i, reverse[2]) /\ (a = i => ~Prior(b, j, reverse[1]))
    BY <1>2, <1>4, <1>7, <2>1
  <2> QED  BY <2>1, <2>2 DEF Earlier
<1> QED  BY <1>6, <1>8, <1>9, <1>10 DEF StartsAt

\* Where it goes from p.
Following(l, c, reverse, p, n) ==
  /\ n \in Places(l) /\ PlaceTurn(l, c, n, reverse) = PlaceTurn(l, c, p, reverse) + 1
  /\ \A q \in Places(l) : Earlier(q, n, reverse) <=> Earlier(q, p, reverse) \/ q = p
HasMore(l, reverse, p) ==
  HasNext(p[2], Len(l[p[1]].subspan), reverse[1]) \/ HasNext(p[1], Len(l), reverse[2])

\* NextPlace gives the place that follows.
LEMMA FollowingIs ==
  ASSUME NEW l, NEW c, Countable(l, c), NEW reverse \in BOOLEAN \X BOOLEAN, NEW p \in Places(l), HasMore(l, reverse, p)
  PROVE  Following(l, c, reverse, p, NextPlace(l, reverse, p))
<1> DEFINE N == Len(l)  u == reverse[1]  v == reverse[2]
<1>1. PICK i, j : i \in 1 .. N /\ j \in 1 .. Len(l[i].subspan) /\ p = <<i, j>>
  BY PlacesAre
<1> DEFINE n == Len(l[i].subspan)
<1>2. /\ N \in Nat \ {0} /\ n \in Nat \ {0} /\ u \in BOOLEAN /\ v \in BOOLEAN
      /\ i \in 1 .. N /\ j \in 1 .. n /\ p[1] = i /\ p[2] = j
  BY <1>1 DEF Countable
<1>3. CASE HasNext(j, n, u)
  <2> DEFINE k == After(j, u)  q == <<i, k>>
  <2>1. /\ k \in 1 .. n /\ Turn(k, n, u) = Turn(j, n, u) + 1
        /\ \A b \in 1 .. n : Prior(b, k, u) <=> Prior(b, j, u) \/ b = j
    <3> HIDE DEF n
    <3> QED  BY <1>2, <1>3, AfterIs
  <2>2. NextPlace(l, reverse, p) = q
    BY <1>2, <1>3 DEF NextPlace
  <2> HIDE DEF k
  <2>3. q \in Places(l)
    BY <1>2, <2>1, PlacesAre
  <2>4. PlaceTurn(l, c, q, reverse) = PlaceTurn(l, c, p, reverse) + 1
    <3>1. BandTurn(l, c, i, v) \in Nat
      BY <1>2, BandTurns
    <3>2. Turn(j, n, u) \in Int
      BY <1>2 DEF Turn
    <3>3. PlaceTurn(l, c, q, reverse) = BandTurn(l, c, i, v) + Turn(k, n, u)
      BY DEF PlaceTurn
    <3>4. PlaceTurn(l, c, p, reverse) = BandTurn(l, c, i, v) + Turn(j, n, u)
      BY <1>2 DEF PlaceTurn
    <3> HIDE DEF n, u, v, q
    <3> QED  BY <2>1, <3>1, <3>2, <3>3, <3>4
  <2>5. ASSUME NEW x \in Places(l) PROVE Earlier(x, q, reverse) <=> Earlier(x, p, reverse) \/ x = p
    <3>1. PICK a, b : a \in 1 .. N /\ b \in 1 .. Len(l[a].subspan) /\ x = <<a, b>>
      BY PlacesAre
    <3>2. a = i => (Prior(b, k, u) <=> Prior(b, j, u) \/ b = j)
      BY <2>1, <3>1
    <3>3. /\ Earlier(x, q, reverse) <=> Prior(a, i, v) \/ (a = i /\ Prior(b, k, u))
          /\ Earlier(x, p, reverse) <=> Prior(a, i, v) \/ (a = i /\ Prior(b, j, u))
          /\ x = p <=> a = i /\ b = j
      BY <1>1, <1>2, <3>1 DEF Earlier
    <3> QED  BY <3>2, <3>3
  <2> QED  BY <2>2, <2>3, <2>4, <2>5 DEF Following
<1>4. CASE ~HasNext(j, n, u)
  <2> DEFINE k == After(i, v)  m == Len(l[k].subspan)  s == First(m, u)  q == <<k, s>>
  <2>1. HasNext(i, N, v)
    BY <1>2, <1>4 DEF HasMore
  <2>2. /\ k \in 1 .. N
        /\ \A a \in 1 .. N : Prior(a, k, v) <=> Prior(a, i, v) \/ a = i
    <3> HIDE DEF N
    <3> QED  BY <1>2, <2>1, AfterIs
  <2>3. NextPlace(l, reverse, p) = q
    BY <1>2, <1>4 DEF NextPlace, FirstOf
  <2>4. BandTurn(l, c, i, v) \in Nat /\ BandTurn(l, c, k, v) = BandTurn(l, c, i, v) + n
    BY <1>2, <2>1, BandTurns
  <2>5. Turn(j, n, u) = n - 1 /\ \A b \in 1 .. n : Prior(b, j, u) \/ b = j
    <3> HIDE DEF n
    <3> QED  BY <1>2, <1>4, LastIs
  <2> HIDE DEF k
  <2>6. m \in Nat \ {0}
    BY <2>2 DEF Countable
  <2>7. s \in 1 .. m /\ Turn(s, m, u) = 0 /\ \A b \in 1 .. m : ~Prior(b, s, u)
    <3> HIDE DEF m
    <3> QED  BY <1>2, <2>6, FirstIs
  <2>8. PlaceTurn(l, c, q, reverse) = BandTurn(l, c, k, v) + Turn(s, m, u)
    BY DEF PlaceTurn
  <2>9. PlaceTurn(l, c, p, reverse) = BandTurn(l, c, i, v) + Turn(j, n, u)
    BY <1>2 DEF PlaceTurn
  <2> HIDE DEF s
  <2>10. q \in Places(l)
    BY <2>2, <2>7, PlacesAre
  <2>11. PlaceTurn(l, c, q, reverse) = PlaceTurn(l, c, p, reverse) + 1
    <3> HIDE DEF n, m, u, v, q
    <3> QED  BY <1>2, <2>4, <2>5, <2>7, <2>8, <2>9
  <2>12. ASSUME NEW x \in Places(l) PROVE Earlier(x, q, reverse) <=> Earlier(x, p, reverse) \/ x = p
    <3>1. PICK a, b : a \in 1 .. N /\ b \in 1 .. Len(l[a].subspan) /\ x = <<a, b>>
      BY PlacesAre
    <3>2. /\ a = i => (Prior(b, j, u) \/ b = j)
          /\ a = k => ~Prior(b, s, u)
          /\ Prior(a, k, v) <=> Prior(a, i, v) \/ a = i
      BY <2>2, <2>5, <2>7, <3>1
    <3>3. /\ Earlier(x, q, reverse) <=> Prior(a, k, v) \/ (a = k /\ Prior(b, s, u))
          /\ Earlier(x, p, reverse) <=> Prior(a, i, v) \/ (a = i /\ Prior(b, j, u))
          /\ x = p <=> a = i /\ b = j
      BY <1>1, <1>2, <3>1 DEF Earlier
    <3> QED  BY <3>2, <3>3
  <2> QED  BY <2>3, <2>10, <2>11, <2>12 DEF Following
<1> QED  BY <1>3, <1>4

\* Where it ends.
Ending(l, c, reverse, p) ==
  PlaceTurn(l, c, p, reverse) + 1 = c[Len(l)] /\ \A q \in Places(l) : Earlier(q, p, reverse) \/ q = p
\* The last place.
LEMMA EndingIs ==
  ASSUME NEW l, NEW c, Countable(l, c), NEW reverse \in BOOLEAN \X BOOLEAN, NEW p \in Places(l), ~HasMore(l, reverse, p)
  PROVE  Ending(l, c, reverse, p)
<1> DEFINE N == Len(l)  u == reverse[1]  v == reverse[2]
<1>1. PICK i, j : i \in 1 .. N /\ j \in 1 .. Len(l[i].subspan) /\ p = <<i, j>>
  BY PlacesAre
<1> DEFINE n == Len(l[i].subspan)
<1>2. /\ N \in Nat \ {0} /\ n \in Nat \ {0} /\ u \in BOOLEAN /\ v \in BOOLEAN
      /\ i \in 1 .. N /\ j \in 1 .. n /\ p[1] = i /\ p[2] = j
  BY <1>1 DEF Countable
<1>3. ~HasNext(j, n, u) /\ ~HasNext(i, N, v)
  BY <1>2 DEF HasMore
<1>4. BandTurn(l, c, i, v) \in Nat /\ BandTurn(l, c, i, v) + n = c[N]
  BY <1>2, <1>3, BandTurns
<1>5. PlaceTurn(l, c, p, reverse) = BandTurn(l, c, i, v) + Turn(j, n, u)
  BY <1>2 DEF PlaceTurn
<1>6. \A x : x \in Places(l) <=> \E a \in 1 .. N : \E b \in 1 .. Len(l[a].subspan) : x = <<a, b>>
  BY PlacesAre
<1>7. n = Len(l[i].subspan)
  OBVIOUS
<1> HIDE DEF N, n
<1>8. Turn(j, n, u) = n - 1 /\ \A b \in 1 .. n : Prior(b, j, u) \/ b = j
  BY <1>2, <1>3, LastIs
<1>9. \A a \in 1 .. N : Prior(a, i, v) \/ a = i
  BY <1>2, <1>3, LastIs
<1>10. PlaceTurn(l, c, p, reverse) + 1 = c[N]
  BY <1>2, <1>4, <1>5, <1>8
<1>11. ASSUME NEW x \in Places(l) PROVE Earlier(x, p, reverse) \/ x = p
  <2>1. PICK a, b : a \in 1 .. N /\ b \in 1 .. Len(l[a].subspan) /\ x = <<a, b>>
    BY <1>6
  <2>2. a = i => (Prior(b, j, u) \/ b = j)
    BY <1>7, <1>8, <2>1
  <2>3. Prior(a, i, v) \/ a = i
    BY <1>9, <2>1
  <2>4. /\ Earlier(x, p, reverse) <=> Prior(a, i, v) \/ (a = i /\ Prior(b, j, u))
        /\ x = p <=> a = i /\ b = j
    BY <1>1, <1>2, <2>1 DEF Earlier
  <2> QED  BY <2>2, <2>3, <2>4
<1> QED  BY <1>10, <1>11 DEF Ending, N

-----------------------------------------------------------------------------
(* The iterator.                                                             *)

\* Two rectangles that come one after the other are apart and in this order.
OneAfter(r, s, reverse) ==
  /\ Inside(r) \cap Inside(s) = {}
  /\ IF reverse[2] THEN s[2] <= r[2] ELSE r[2] <= s[2]
  /\ r[2] = s[2] => IF reverse[1] THEN s[3] <= r[1] ELSE r[3] <= s[1]

\* The rectangles of a good list are of this kind, and apart and in order.
LEMMA RectsAre ==
  ASSUME NEW l, Good(Rows, l), NEW p \in Places(l)
  PROVE  \E i, j : /\ i \in 1 .. Len(l) /\ j \in 1 .. Len(l[i].subspan) /\ p = <<i, j>>
                   /\ l[i].start \in Int /\ l[i].end \in Int /\ l[i].start < l[i].end
                   /\ l[i].subspan[j].start \in Int /\ l[i].subspan[j].end \in Int
                   /\ l[i].subspan[j].start < l[i].subspan[j].end
                   /\ RectAt(l, p) = <<l[i].subspan[j].start, l[i].start, l[i].subspan[j].end, l[i].end>>
<1>1. PICK i, j : i \in 1 .. Len(l) /\ j \in 1 .. Len(l[i].subspan) /\ p = <<i, j>>
  BY PlacesAre
<1>2. l \in Seq(Kind(Rows)) /\ Filled(Range(l))
  BY DEF Good
<1>3. l[i] \in Kind(Rows) /\ l[i] \in Range(l)
  BY <1>1, <1>2, RangeEquality
<1> DEFINE c == l[i].subspan
<1>4. l[i].start \in Int /\ l[i].end \in Int /\ l[i].start < l[i].end /\ c \in Rows
  BY <1>2, <1>3 DEF Kind, Filled
<1>5. c \in Seq(Kind(Single)) /\ Filled(Range(c))
  BY <1>4 DEF Rows, Good
<1>6. j \in 1 .. Len(c)
  BY <1>1
<1> HIDE DEF c
<1>7. c[j] \in Kind(Single) /\ c[j] \in Range(c)
  BY <1>5, <1>6, RangeEquality
<1>8. c[j].start \in Int /\ c[j].end \in Int /\ c[j].start < c[j].end
  BY <1>5, <1>7 DEF Kind, Filled
<1>9. RectAt(l, p) = <<c[j].start, l[i].start, c[j].end, l[i].end>>
  BY <1>1 DEF RectAt, c
<1> QED  BY <1>1, <1>4, <1>8, <1>9 DEF c

\* One place after the other gives rectangles one after the other.
LEMMA RectsApart ==
  ASSUME NEW l, Good(Rows, l), NEW reverse \in BOOLEAN \X BOOLEAN, NEW p \in Places(l), NEW q \in Places(l),
         Earlier(p, q, reverse)
  PROVE  OneAfter(RectAt(l, p), RectAt(l, q), reverse)
<1> DEFINE u == reverse[1]  v == reverse[2]
<1>1. PICK i, j : /\ i \in 1 .. Len(l) /\ j \in 1 .. Len(l[i].subspan) /\ p = <<i, j>>
                  /\ l[i].start \in Int /\ l[i].end \in Int /\ l[i].start < l[i].end
                  /\ l[i].subspan[j].start \in Int /\ l[i].subspan[j].end \in Int
                  /\ l[i].subspan[j].start < l[i].subspan[j].end
                  /\ RectAt(l, p) = <<l[i].subspan[j].start, l[i].start, l[i].subspan[j].end, l[i].end>>
  BY RectsAre
<1>2. PICK a, b : /\ a \in 1 .. Len(l) /\ b \in 1 .. Len(l[a].subspan) /\ q = <<a, b>>
                  /\ l[a].start \in Int /\ l[a].end \in Int /\ l[a].start < l[a].end
                  /\ l[a].subspan[b].start \in Int /\ l[a].subspan[b].end \in Int
                  /\ l[a].subspan[b].start < l[a].subspan[b].end
                  /\ RectAt(l, q) = <<l[a].subspan[b].start, l[a].start, l[a].subspan[b].end, l[a].end>>
  BY RectsAre
<1> DEFINE s == l[i].subspan[j]  t == l[a].subspan[b]  r1 == RectAt(l, p)  r2 == RectAt(l, q)
           y1 == l[i].start  y2 == l[i].end  z1 == l[a].start  z2 == l[a].end
<1>3. u \in BOOLEAN /\ v \in BOOLEAN
  OBVIOUS
<1>4. /\ s.start \in Int /\ s.end \in Int /\ s.start < s.end /\ t.start \in Int /\ t.end \in Int /\ t.start < t.end
      /\ y1 \in Int /\ y2 \in Int /\ y1 < y2 /\ z1 \in Int /\ z2 \in Int /\ z1 < z2
  BY <1>1, <1>2
<1>5. r1 = <<s.start, y1, s.end, y2>> /\ r2 = <<t.start, z1, t.end, z2>>
  BY <1>1, <1>2
<1>6. /\ i = a => y1 = z1
      /\ y2 = l[i].end /\ z1 = l[a].start /\ y1 = l[i].start /\ z2 = l[a].end
  OBVIOUS
<1>7. Prior(i, a, v) \/ (i = a /\ Prior(j, b, u))
  BY <1>1, <1>2 DEF Earlier
<1>8. Ordered(l) /\ Len(l) \in Nat
  BY LenProperties DEF Good
<1> HIDE DEF u, v, s, t, r1, r2, y1, y2, z1, z2
<1>9. /\ Inside(r1) = (s.start .. s.end - 1) \X (y1 .. y2 - 1)
       /\ Inside(r2) = (t.start .. t.end - 1) \X (z1 .. z2 - 1)
       /\ r1[1] = s.start /\ r1[2] = y1 /\ r1[3] = s.end /\ r2[1] = t.start /\ r2[2] = z1 /\ r2[3] = t.end
  BY <1>5 DEF Inside
<1>10. CASE Prior(i, a, v)
  <2>1. (v /\ z2 <= y1) \/ (~v /\ y2 <= z1)
    <3>1. (v /\ a < i) \/ (~v /\ i < a)
      BY <1>3, <1>10 DEF Prior
    <3> QED  BY <1>1, <1>2, <1>6, <1>8, <3>1 DEF Ordered
  <2>2. (y1 .. y2 - 1) \cap (z1 .. z2 - 1) = {}
    BY <1>4, <2>1
  <2>3. Inside(r1) \cap Inside(r2) = {}
    BY <1>9, <2>2
  <2>4. (IF v THEN r2[2] <= r1[2] ELSE r1[2] <= r2[2]) /\ r1[2] # r2[2]
    BY <1>4, <1>9, <2>1
  <2> QED  BY <2>3, <2>4 DEF OneAfter, v, r1, r2
<1>11. CASE i = a /\ Prior(j, b, u)
  <2>1. (u /\ t.end <= s.start) \/ (~u /\ s.end <= t.start)
    <3> DEFINE c == l[i].subspan
    <3>1. (u /\ b < j) \/ (~u /\ j < b)
      BY <1>3, <1>11 DEF Prior
    <3>2. Ordered(c) /\ j \in 1 .. Len(c) /\ b \in 1 .. Len(c) /\ s = c[j] /\ t = c[b]
      <4>1. l \in Seq(Kind(Rows))
        BY DEF Good
      <4>2. l[i] \in Kind(Rows)
        BY <1>1, <4>1
      <4>3. c \in Rows
        BY <4>2 DEF Kind
      <4>4. Ordered(c)
        BY <4>3 DEF Rows, Good
      <4> QED  BY <1>1, <1>2, <1>11, <4>4 DEF s, t
    <3> HIDE DEF c
    <3> QED  BY <3>1, <3>2 DEF Ordered
  <2>2. t.end <= s.start \/ s.end <= t.start
    BY <2>1
  <2>3. (s.start .. s.end - 1) \cap (t.start .. t.end - 1) = {}
    BY <1>4, <2>2
  <2>4. Inside(r1) \cap Inside(r2) = {}
    BY <1>9, <2>3
  <2>5. r1[2] = r2[2] /\ r1[2] \in Int
    BY <1>4, <1>6, <1>11, <1>9
  <2>6. IF u THEN r2[3] <= r1[1] ELSE r1[3] <= r2[1]
    BY <1>3, <1>4, <1>9, <2>1
  <2>7. IF v THEN r2[2] <= r1[2] ELSE r1[2] <= r2[2]
    BY <1>3, <2>5
  <2> QED  BY <2>4, <2>6, <2>7 DEF OneAfter, u, v, r1, r2
<1> QED  BY <1>7, <1>10, <1>11

\* The calls of sraRgnIteratorNext as a loop.
Rectangles == Int \X Int \X Int \X Int
Iterations(l) == [done : Seq(Rectangles), at : Places(l)]
IterateStop(l, reverse) == {w \in Iterations(l) : ~HasMore(l, reverse, w.at)}
IterateDone(l) == [w \in Iterations(l) |-> Append(w.done, RectAt(l, w.at))]
IterateNext(l, reverse) ==
  [w \in Iterations(l) |-> [done |-> Append(w.done, RectAt(l, w.at)), at |-> NextPlace(l, reverse, w.at)]]
IterateLoop(f, l, reverse) ==
  Loops(f, Iterations(l), IterateStop(l, reverse), IterateDone(l), IterateNext(l, reverse))
IterateFunction(f, l, reverse) ==
  f = [i \in [done : Seq(Int \X Int \X Int \X Int), at : Places(l)] |->
         IF \/ HasNext(i.at[2], Len(l[i.at[1]].subspan), reverse[1])
            \/ HasNext(i.at[1], Len(l), reverse[2])
           THEN f[[done |-> Append(i.done, RectAt(l, i.at)), at |-> NextPlace(l, reverse, i.at)]]
           ELSE Append(i.done, RectAt(l, i.at))]

\* Iterate is defined as this loop,
LEMMA IterateFunctionLoops ==
  ASSUME NEW f, NEW l, NEW reverse
  PROVE  IterateLoop(f, l, reverse) <=> IterateFunction(f, l, reverse)
<1>1. ASSUME NEW w \in Iterations(l)
      PROVE  (IF w \in IterateStop(l, reverse) THEN IterateDone(l)[w] ELSE f[IterateNext(l, reverse)[w]])
             = (IF \/ HasNext(w.at[2], Len(l[w.at[1]].subspan), reverse[1])
                   \/ HasNext(w.at[1], Len(l), reverse[2])
                  THEN f[[done |-> Append(w.done, RectAt(l, w.at)), at |-> NextPlace(l, reverse, w.at)]]
                  ELSE Append(w.done, RectAt(l, w.at)))
  <2>1. w \in IterateStop(l, reverse) <=> ~HasMore(l, reverse, w.at)
    BY DEF IterateStop
  <2>2. IterateDone(l)[w] = Append(w.done, RectAt(l, w.at))
    BY DEF IterateDone
  <2>3. IterateNext(l, reverse)[w]
        = [done |-> Append(w.done, RectAt(l, w.at)), at |-> NextPlace(l, reverse, w.at)]
    BY DEF IterateNext
  <2> QED  BY <2>1, <2>2, <2>3, Zenon DEF HasMore
<1>2. Iterations(l) = [done : Seq(Int \X Int \X Int \X Int), at : Places(l)]
  BY DEF Iterations, Rectangles
<1> QED  BY <1>1, <1>2, Zenon DEF IterateLoop, Loops, IterateFunction

\* A good list with bands can be counted.
LEMMA GoodCountable ==
  ASSUME NEW l, Good(Rows, l), l # <<>>
  PROVE  \E c : Countable(l, c) /\ CountRects(l) = c[Len(l)]
<1>1. l \in Seq(Kind(Rows)) /\ Len(l) \in Nat \ {0}
  BY EmptySeq, LenProperties DEF Good
<1>2. ASSUME NEW i \in 1 .. Len(l) PROVE Len(l[i].subspan) \in Nat \ {0}
  <2> DEFINE c == l[i].subspan
  <2>1. l[i] \in Kind(Rows)
    BY <1>1
  <2>2. c \in Rows
    BY <2>1 DEF Kind
  <2>3. c \in Seq(Spans) /\ c # <<>>
    BY <2>2 DEF Rows
  <2> HIDE DEF c
  <2>4. Len(c) \in Nat \ {0}
    BY <2>3, EmptySeq, LenProperties
  <2> QED  BY <2>4 DEF c
<1>3. PICK c : Counted(l, c) /\ CountRects(l) = c[Len(l)]
  BY <1>1, <1>2, CountRectsIs
<1> QED  BY <1>1, <1>2, <1>3 DEF Countable

\* The rectangles of a list are rectangles,
LEMMA RectsTyped ==
  ASSUME NEW l, Good(Rows, l), NEW p \in Places(l)
  PROVE  RectAt(l, p) \in Rectangles
BY RectsAre DEF Rectangles

\* and there is such a loop.
LEMMA IterateExists ==
  ASSUME NEW l, Good(Rows, l), l # <<>>, NEW reverse \in BOOLEAN \X BOOLEAN
  PROVE  \E f : IterateLoop(f, l, reverse)
<1> DEFINE next == IterateNext(l, reverse)
<1>1. ASSUME NEW w \in Iterations(l), w \notin IterateStop(l, reverse) PROVE next[w] \in Iterations(l)
  <2>1. w.done \in Seq(Rectangles) /\ w.at \in Places(l) /\ HasMore(l, reverse, w.at)
    BY <1>1 DEF Iterations, IterateStop
  <2>2. PICK c : Countable(l, c)
    BY GoodCountable
  <2>3. NextPlace(l, reverse, w.at) \in Places(l)
    BY <2>1, <2>2, FollowingIs DEF Following
  <2>4. Append(w.done, RectAt(l, w.at)) \in Seq(Rectangles)
    BY <2>1, RectsTyped, AppendProperties
  <2>5. next[w] = [done |-> Append(w.done, RectAt(l, w.at)), at |-> NextPlace(l, reverse, w.at)]
    BY DEF IterateNext
  <2> QED  BY <2>3, <2>4, <2>5 DEF Iterations
<1> HIDE DEF next
<1>2. \E f : Loops(f, Iterations(l), IterateStop(l, reverse), IterateDone(l), next)
  BY <1>1, LoopExists
<1> QED  BY <1>2 DEF IterateLoop, next

\* A list of rectangles d passes through a set of places P in the order of the iterator.
Passes(l, reverse, d, P) ==
  /\ d \in Seq(Rectangles)
  /\ \A i \in 1 .. Len(d) : \E p \in P : d[i] = RectAt(l, p)
  /\ \A i, j \in 1 .. Len(d) : i < j =>
       \E p, q \in P : d[i] = RectAt(l, p) /\ d[j] = RectAt(l, q) /\ Earlier(p, q, reverse)
  /\ \A p \in P : \E i \in 1 .. Len(d) : d[i] = RectAt(l, p)

\* With one more place that comes after them it passes through that, too.
LEMMA PassesOn ==
  ASSUME NEW l, Good(Rows, l), NEW reverse, NEW P \in SUBSET Places(l), NEW d, Passes(l, reverse, d, P),
         NEW at \in Places(l), \A p \in P : Earlier(p, at, reverse)
  PROVE  /\ Passes(l, reverse, Append(d, RectAt(l, at)), P \cup {at})
         /\ Len(Append(d, RectAt(l, at))) = Len(d) + 1
<1> DEFINE r == RectAt(l, at)  k == Append(d, r)  n == Len(d)  Q == P \cup {at}
<1>1. r \in Rectangles
  BY RectsTyped
<1>2. d \in Seq(Rectangles) /\ n \in Nat
  BY LenProperties DEF Passes
<1> HIDE DEF r
<1>3. k \in Seq(Rectangles) /\ Len(k) = n + 1 /\ k[n + 1] = r /\ \A i \in 1 .. n : k[i] = d[i]
  BY <1>1, <1>2, AppendProperties
<1>4. r = RectAt(l, at)
  BY DEF r
<1>5. /\ \A i \in 1 .. n : \E p \in P : d[i] = RectAt(l, p)
      /\ \A i, j \in 1 .. n : i < j =>
           \E p, q \in P : d[i] = RectAt(l, p) /\ d[j] = RectAt(l, q) /\ Earlier(p, q, reverse)
      /\ \A p \in P : \E i \in 1 .. n : d[i] = RectAt(l, p)
  BY DEF Passes
<1> HIDE DEF k, n
<1>6. ASSUME NEW i \in 1 .. Len(k) PROVE \E p \in Q : k[i] = RectAt(l, p)
  <2>1. CASE i = n + 1
    BY <1>3, <1>4, <2>1
  <2>2. CASE i # n + 1
    <3>1. i \in 1 .. n
      BY <1>2, <1>3, <2>2
    <3>2. PICK p \in P : d[i] = RectAt(l, p)
      BY <1>5, <3>1
    <3> QED  BY <1>3, <3>1, <3>2
  <2> QED  BY <2>1, <2>2
<1>7. ASSUME NEW i \in 1 .. Len(k), NEW j \in 1 .. Len(k), i < j
      PROVE  \E p, q \in Q : k[i] = RectAt(l, p) /\ k[j] = RectAt(l, q) /\ Earlier(p, q, reverse)
  <2>1. i \in 1 .. n
    BY <1>2, <1>3, <1>7
  <2>2. CASE j = n + 1
    <3>1. PICK p \in P : d[i] = RectAt(l, p)
      BY <1>5, <2>1
    <3>2. k[i] = RectAt(l, p) /\ k[j] = RectAt(l, at) /\ Earlier(p, at, reverse)
      BY <1>3, <1>4, <2>1, <2>2, <3>1
    <3> QED  BY <3>2
  <2>3. CASE j # n + 1
    <3>1. j \in 1 .. n
      BY <1>2, <1>3, <2>3
    <3>2. PICK p \in P, q \in P : d[i] = RectAt(l, p) /\ d[j] = RectAt(l, q) /\ Earlier(p, q, reverse)
      BY <1>5, <1>7, <2>1, <3>1
    <3>3. k[i] = RectAt(l, p) /\ k[j] = RectAt(l, q)
      BY <1>3, <2>1, <3>1, <3>2
    <3> QED  BY <3>2, <3>3
  <2> QED  BY <2>2, <2>3
<1>8. ASSUME NEW p \in Q PROVE \E i \in 1 .. Len(k) : k[i] = RectAt(l, p)
  <2>1. CASE p = at
    <3>1. n + 1 \in 1 .. Len(k)
      BY <1>2, <1>3
    <3> QED  BY <1>3, <1>4, <2>1, <3>1
  <2>2. CASE p \in P
    <3>1. PICK i \in 1 .. n : d[i] = RectAt(l, p)
      BY <1>5, <2>2
    <3>2. i \in 1 .. Len(k)
      BY <1>2, <1>3
    <3> QED  BY <1>3, <3>1, <3>2
  <2> QED  BY <2>1, <2>2
<1> QED  BY <1>3, <1>6, <1>7, <1>8 DEF Passes, k, r, n

\* The places before p.
PlacesBefore(l, reverse, p) == {q \in Places(l) : Earlier(q, p, reverse)}

\* The iterator passes through all places and counts them.
LEMMA IteratePasses ==
  ASSUME NEW l, Good(Rows, l), l # <<>>, NEW reverse \in BOOLEAN \X BOOLEAN
  PROVE  Passes(l, reverse, Iterate(l, reverse), Places(l)) /\ Len(Iterate(l, reverse)) = CountRects(l)
<1>1. PICK c : Countable(l, c) /\ CountRects(l) = c[Len(l)]
  BY GoodCountable
<1> DEFINE J == {w \in Iterations(l) : /\ Passes(l, reverse, w.done, PlacesBefore(l, reverse, w.at))
                                       /\ Len(w.done) = PlaceTurn(l, c, w.at, reverse)}
           rank == [w \in J |-> c[Len(l)] - PlaceTurn(l, c, w.at, reverse)]
           Q == {k \in Seq(Rectangles) : Passes(l, reverse, k, Places(l)) /\ Len(k) = c[Len(l)]}
           start == FirstOf(l, reverse, First(Len(l), reverse[2]))
           w0 == [done |-> <<>>, at |-> start]
           f == CHOOSE g : IterateFunction(g, l, reverse)
           stop == IterateStop(l, reverse)  next == IterateNext(l, reverse)  res == IterateDone(l)
<1>2. Iterate(l, reverse) = f[w0]
  BY DEF Iterate, IterateFunction
<1>3. IterateLoop(f, l, reverse)
  <2>1. \E g : IterateFunction(g, l, reverse)
    BY IterateExists, IterateFunctionLoops
  <2>2. IterateFunction(f, l, reverse)
    BY <2>1
  <2> HIDE DEF f
  <2> QED  BY <2>2, IterateFunctionLoops
<1> HIDE DEF f
<1>4. ASSUME NEW p \in Places(l)
      PROVE  PlaceTurn(l, c, p, reverse) \in Nat /\ PlaceTurn(l, c, p, reverse) < c[Len(l)]
  <2>1. PICK i, j : i \in 1 .. Len(l) /\ j \in 1 .. Len(l[i].subspan) /\ p = <<i, j>>
    BY PlacesAre
  <2> DEFINE n == Len(l[i].subspan)  b == BandTurn(l, c, i, reverse[2])  t == Turn(j, n, reverse[1])
  <2>2. n \in Nat \ {0}
    BY <1>1, <2>1 DEF Countable
  <2>3. c[Len(l)] \in Nat
    BY <1>1 DEF Countable, Counted
  <2>4. b \in Nat /\ b + n <= c[Len(l)]
    BY <1>1, <2>1, BandTurns
  <2>5. t \in Nat /\ t < n
    BY <2>1, <2>2 DEF Turn
  <2>6. PlaceTurn(l, c, p, reverse) = b + t
    BY <2>1 DEF PlaceTurn
  <2> HIDE DEF n, b, t
  <2> QED  BY <2>2, <2>3, <2>4, <2>5, <2>6
<1>5. c[Len(l)] \in Nat
  BY <1>1 DEF Countable, Counted
<1>6. ASSUME NEW w \in J
      PROVE  /\ w.done \in Seq(Rectangles) /\ w.at \in Places(l)
             /\ Passes(l, reverse, Append(w.done, RectAt(l, w.at)), PlacesBefore(l, reverse, w.at) \cup {w.at})
             /\ Len(Append(w.done, RectAt(l, w.at))) = PlaceTurn(l, c, w.at, reverse) + 1
             /\ Append(w.done, RectAt(l, w.at)) \in Seq(Rectangles)
  <2>1. /\ w.done \in Seq(Rectangles) /\ w.at \in Places(l)
        /\ Passes(l, reverse, w.done, PlacesBefore(l, reverse, w.at)) /\ Len(w.done) = PlaceTurn(l, c, w.at, reverse)
    BY DEF Iterations
  <2>2. PlacesBefore(l, reverse, w.at) \in SUBSET Places(l) /\ \A p \in PlacesBefore(l, reverse, w.at) : Earlier(p, w.at, reverse)
    BY DEF PlacesBefore
  <2>3. /\ Passes(l, reverse, Append(w.done, RectAt(l, w.at)), PlacesBefore(l, reverse, w.at) \cup {w.at})
        /\ Len(Append(w.done, RectAt(l, w.at))) = Len(w.done) + 1
    BY <2>1, <2>2, PassesOn
  <2> QED  BY <2>1, <2>3 DEF Passes
<1>7. ASSUME NEW w \in J, w \notin stop PROVE next[w] \in J /\ rank[next[w]] < rank[w]
  <2> DEFINE n == NextPlace(l, reverse, w.at)  d == Append(w.done, RectAt(l, w.at))  v == [done |-> d, at |-> n]
  <2>1. w \in Iterations(l) /\ HasMore(l, reverse, w.at)
    BY <1>7 DEF IterateStop
  <2>2. Following(l, c, reverse, w.at, n)
    BY <1>1, <1>6, <2>1, FollowingIs
  <2>3. next[w] = v
    BY <2>1 DEF IterateNext
  <2>4. PlacesBefore(l, reverse, n) = PlacesBefore(l, reverse, w.at) \cup {w.at}
    BY <1>6, <2>2 DEF Following, PlacesBefore
  <2>5. n \in Places(l) /\ PlaceTurn(l, c, n, reverse) = PlaceTurn(l, c, w.at, reverse) + 1
    BY <2>2 DEF Following
  <2>6. d \in Seq(Rectangles) /\ Passes(l, reverse, d, PlacesBefore(l, reverse, n)) /\ Len(d) = PlaceTurn(l, c, n, reverse)
    BY <1>6, <2>4, <2>5
  <2> HIDE DEF n, d
  <2>7. v \in J
    BY <2>5, <2>6 DEF Iterations
  <2>8. rank[v] = c[Len(l)] - PlaceTurn(l, c, n, reverse) /\ rank[w] = c[Len(l)] - PlaceTurn(l, c, w.at, reverse)
    BY <2>7
  <2>9. PlaceTurn(l, c, w.at, reverse) \in Nat
    BY <1>4, <1>6
  <2> HIDE DEF J, rank
  <2> QED  BY <1>5, <2>3, <2>5, <2>7, <2>8, <2>9
<1>8. Turns(Iterations(l), stop, next, J, rank)
  <2>1. rank \in [J -> Nat]
    <3>1. ASSUME NEW w \in J PROVE c[Len(l)] - PlaceTurn(l, c, w.at, reverse) \in Nat
      <4>1. PlaceTurn(l, c, w.at, reverse) \in Nat /\ PlaceTurn(l, c, w.at, reverse) < c[Len(l)]
        BY <1>4, <1>6
      <4> QED  BY <1>5, <4>1
    <3> HIDE DEF J
    <3> QED  BY <3>1
  <2>2. J \in SUBSET Iterations(l)
    OBVIOUS
  <2> HIDE DEF J, rank, stop, next
  <2> QED  BY <1>7, <2>1, <2>2 DEF Turns
<1>9. Ends(stop, res, J, Q)
  <2>1. ASSUME NEW w \in J, w \in stop PROVE res[w] \in Q
    <3>1. w \in Iterations(l) /\ ~HasMore(l, reverse, w.at)
      BY <2>1 DEF IterateStop
    <3>2. Ending(l, c, reverse, w.at)
      BY <1>1, <1>6, <3>1, EndingIs
    <3>3. PlacesBefore(l, reverse, w.at) \cup {w.at} = Places(l)
      BY <1>6, <3>2 DEF Ending, PlacesBefore
    <3>4. PlaceTurn(l, c, w.at, reverse) + 1 = c[Len(l)]
      BY <3>2 DEF Ending
    <3>5. res[w] = Append(w.done, RectAt(l, w.at))
      BY <3>1 DEF IterateDone
    <3> QED  BY <1>6, <3>3, <3>4, <3>5
  <2> HIDE DEF J, Q, stop, res
  <2> QED  BY <2>1 DEF Ends
<1>10. w0 \in J
  <2>1. StartsAt(l, c, reverse, start)
    BY <1>1, BeginningIs
  <2> HIDE DEF start
  <2>2. start \in Places(l) /\ PlaceTurn(l, c, start, reverse) = 0 /\ PlacesBefore(l, reverse, start) = {}
    BY <2>1 DEF StartsAt, PlacesBefore
  <2>3. <<>> \in Seq(Rectangles) /\ Len(<<>>) = 0 /\ Passes(l, reverse, <<>>, {})
    BY DEF Passes
  <2> QED  BY <2>2, <2>3 DEF Iterations
<1> HIDE DEF J, rank, stop, next, res, w0, Q
<1>11. Loops(f, Iterations(l), stop, res, next)
  BY <1>3 DEF IterateLoop, stop, res, next
<1>12. \A w \in J : f[w] \in Q
  BY <1>8, <1>9, <1>11, LoopResult
<1>13. f[w0] \in Q
  BY <1>10, <1>12
<1> QED  BY <1>1, <1>2, <1>13 DEF Q

\* The iterator goes through the rectangles of a region's list once, in the order
\* asked for, and through all its pixels (rfbregion.c 707-796).
LEMMA IterateShows ==
  ASSUME NEW l, NEW S, Shows(l, S), NEW reverse \in BOOLEAN \X BOOLEAN
  PROVE  LET rs == Iterate(l, reverse)
         IN  /\ InOrder(rs, reverse) /\ Len(rs) = CountRects(l)
             /\ UNION {Inside(rs[i]) : i \in 1 .. Len(rs)} = S
<1> DEFINE rs == Iterate(l, reverse)
<1>1. Good(Rows, l) /\ Covered(l) = S
  BY DEF Shows
<1>2. CASE l = <<>>
  <2>1. rs = <<>> /\ Len(l) = 0 /\ Len(rs) = 0
    BY <1>2 DEF Iterate
  <2>2. PICK c : Counted(l, c) /\ CountRects(l) = c[Len(l)]
    BY <2>1, CountRectsIs
  <2>3. CountRects(l) = 0
    BY <2>1, <2>2 DEF Counted
  <2>4. \A p : p \notin Places(l)
    BY <2>1, PlacesAre
  <2>5. S = {}
    BY <1>1, <2>4 DEF Covered
  <2> HIDE DEF rs
  <2>6. InOrder(rs, reverse) /\ UNION {Inside(rs[i]) : i \in 1 .. Len(rs)} = {}
    BY <2>1 DEF InOrder
  <2> QED  BY <2>1, <2>3, <2>5, <2>6 DEF rs
<1>3. CASE l # <<>>
  <2>1. Passes(l, reverse, rs, Places(l)) /\ Len(rs) = CountRects(l)
    BY <1>1, <1>3, IteratePasses
  <2> HIDE DEF rs
  <2>2. ASSUME NEW i \in 1 .. Len(rs), NEW j \in 1 .. Len(rs), i < j
        PROVE  OneAfter(rs[i], rs[j], reverse)
    <3>1. PICK p \in Places(l), q \in Places(l) :
            rs[i] = RectAt(l, p) /\ rs[j] = RectAt(l, q) /\ Earlier(p, q, reverse)
      BY <2>1, <2>2 DEF Passes
    <3> QED  BY <1>1, <3>1, RectsApart
  <2>3. InOrder(rs, reverse)
    BY <2>2 DEF InOrder, OneAfter
  <2>4. \A r : (\E i \in 1 .. Len(rs) : r = rs[i]) <=> \E p \in Places(l) : r = RectAt(l, p)
    BY <2>1 DEF Passes
  <2>5. UNION {Inside(rs[i]) : i \in 1 .. Len(rs)} = S
    <3>1. ASSUME NEW x PROVE x \in UNION {Inside(rs[i]) : i \in 1 .. Len(rs)} <=> x \in S
      <4>1. x \in S <=> \E p \in Places(l) : x \in Inside(RectAt(l, p))
        BY <1>1 DEF Covered
      <4>2. x \in UNION {Inside(rs[i]) : i \in 1 .. Len(rs)} <=> \E i \in 1 .. Len(rs) : x \in Inside(rs[i])
        OBVIOUS
      <4> QED  BY <2>4, <4>1, <4>2
    <3> QED  BY <3>1
  <2> QED  BY <2>1, <2>3, <2>5 DEF rs
<1> QED  BY <1>2, <1>3

\* The iterator passes through every pixel of a region once, in the order that its
\* caller asks for, and sraRgnCountRects says how many rectangles it gives: what
\* rfbSendFramebufferUpdate announces and rfbSendCopyRegion and rfbDoCopyRegion rely on.
THEOREM IteratorTraverses == Spec => []Traversal
<1>1. RegionInv => Traversal
  <2> SUFFICES ASSUME RegionInv, since = 0, NEW g \in Regions, NEW reverse \in BOOLEAN \X BOOLEAN
               PROVE  LET rs == Iterate(list[g], reverse)
                      IN  /\ InOrder(rs, reverse) /\ Len(rs) = CountRects(list[g])
                          /\ UNION {Inside(rs[i]) : i \in 1 .. Len(rs)} = pixels[g]
    BY DEF Traversal
  <2>1. Shows(list[g], pixels[g])
    BY DEF RegionInv, AllShow
  <2> QED  BY <2>1, IterateShows
<1> QED  BY <1>1, AlwaysShown, PTL
=============================================================================
