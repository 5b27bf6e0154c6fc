------------------------------- MODULE Turns -------------------------------
(* The loops of the encoders and decoders (PixelEncodings!InTurn): what is    *)
(* there after i members of a sequence, for any step.  Instances of this      *)
(* module give the step, whose first two arguments stay as they are.          *)
EXTENDS Integers, Sequences

CONSTANT Step(_, _, _, _)

\* What there is after each of the members.
After(a, b, start, seq) ==
  LET after[i \in 0 .. Len(seq)] == IF i = 0 THEN start ELSE Step(a, b, after[i - 1], seq[i])
  IN  after

\* Induction, up to a number and over a set: what the lemmas take for granted
\* (UpdateMessageProofs!Reached), as this module has many instances.
Upward == \A n \in Nat : \A Q :
            0 \in Q /\ (\A i \in 0 .. n - 1 : i \in Q => i + 1 \in Q) => \A i \in 0 .. n : i \in Q

\* There is such a function.
LEMMA AfterExists ==
  ASSUME NEW a, NEW b, NEW start, NEW seq, Len(seq) \in Nat, Upward
  PROVE  LET f == After(a, b, start, seq)
         IN  /\ DOMAIN f = 0 .. Len(seq) /\ f[0] = start
             /\ \A i \in 1 .. Len(seq) : f[i] = Step(a, b, f[i - 1], seq[i])
<1> DEFINE n == Len(seq)
           Is(f, k) == f = [i \in 0 .. k |-> IF i = 0 THEN start ELSE Step(a, b, f[i - 1], seq[i])]
           Q == {k \in 0 .. n : \E f : Is(f, k)}
<1>1. ASSUME NEW f, NEW k \in Nat, Is(f, k)
      PROVE  /\ DOMAIN f = 0 .. k /\ f[0] = start
             /\ \A i \in 1 .. k : f[i] = Step(a, b, f[i - 1], seq[i])
  <2> DEFINE r == [i \in 0 .. k |-> IF i = 0 THEN start ELSE Step(a, b, f[i - 1], seq[i])]
  <2>1. f = r
    BY <1>1
  <2>2. DOMAIN r = 0 .. k
    OBVIOUS
  <2>3. r[0] = start
    <3>1. 0 \in 0 .. k
      OBVIOUS
    <3> QED  BY <3>1
  <2>4. ASSUME NEW i \in 1 .. k PROVE r[i] = Step(a, b, f[i - 1], seq[i])
    <3>1. i \in 0 .. k /\ i # 0
      OBVIOUS
    <3> QED  BY <3>1
  <2> HIDE DEF r
  <2> QED  BY <2>1, <2>2, <2>3, <2>4
<1>2. 0 \in Q
  <2> DEFINE f == [i \in 0 .. 0 |-> start]
  <2>1. Is(f, 0)
    OBVIOUS
  <2> HIDE DEF Is, f
  <2> QED  BY <2>1
<1>3. ASSUME NEW k \in 0 .. n - 1, k \in Q PROVE k + 1 \in Q
  <2>1. PICK f : Is(f, k)
    BY <1>3
  <2>2. /\ k \in Nat /\ f[0] = start
        /\ \A i \in 1 .. k : f[i] = Step(a, b, f[i - 1], seq[i])
    <3>1. k \in Nat
      OBVIOUS
    <3> QED  BY <1>1, <2>1, <3>1
  <2> DEFINE g == [i \in 0 .. k + 1 |-> IF i = k + 1 THEN Step(a, b, f[k], seq[k + 1]) ELSE f[i]]
             r == [i \in 0 .. k + 1 |-> IF i = 0 THEN start ELSE Step(a, b, g[i - 1], seq[i])]
  <2> HIDE DEF Is
  <2>3. ASSUME NEW i \in 0 .. k + 1 PROVE g[i] = r[i]
    <3>1. CASE i = 0
      BY <2>2, <3>1
    <3>2. CASE i # 0 /\ i # k + 1
      <4>1. i \in 1 .. k /\ i - 1 \in 0 .. k + 1 /\ i - 1 # k + 1
        BY <2>2, <3>2
      <4>2. g[i] = f[i] /\ g[i - 1] = f[i - 1]
        BY <3>2, <4>1
      <4>3. r[i] = Step(a, b, g[i - 1], seq[i])
        BY <3>2
      <4> HIDE DEF g, r
      <4> QED  BY <2>2, <4>1, <4>2, <4>3
    <3>3. CASE i = k + 1
      <4>1. i - 1 = k /\ k \in 0 .. k + 1 /\ k # k + 1 /\ i # 0
        BY <2>2, <3>3
      <4>2. g[i] = Step(a, b, f[k], seq[k + 1]) /\ g[k] = f[k]
        BY <3>3, <4>1
      <4>3. r[i] = Step(a, b, g[i - 1], seq[i])
        BY <4>1
      <4> HIDE DEF g, r
      <4> QED  BY <3>3, <4>1, <4>2, <4>3
    <3> QED  BY <3>1, <3>2, <3>3
  <2>4. g = r
    <3>1. DOMAIN g = 0 .. k + 1 /\ DOMAIN r = 0 .. k + 1 /\ g = [i \in 0 .. k + 1 |-> g[i]] /\ r = [i \in 0 .. k + 1 |-> r[i]]
      OBVIOUS
    <3> HIDE DEF g, r
    <3> QED  BY <2>3, <3>1
  <2>5. Is(g, k + 1)
    BY <2>4 DEF Is
  <2> HIDE DEF g
  <2> QED  BY <2>5
<1>4. n \in Q
  <2>1. \A k \in 0 .. n : k \in Q
    <3> HIDE DEF Q
    <3> QED  BY <1>2, <1>3 DEF Upward
  <2> QED  BY <2>1
<1>5. PICK f : Is(f, n)
  BY <1>4
<1>6. After(a, b, start, seq) = CHOOSE h : Is(h, n)
  BY DEF After
<1> HIDE DEF Is
<1>7. Is(After(a, b, start, seq), n)
  BY <1>5, <1>6
<1> QED  BY <1>1, <1>7

\* What there is after one more member.
LEMMA AfterMore ==
  ASSUME NEW a, NEW b, NEW start, NEW S, NEW seq \in Seq(S), NEW e \in S, Upward
  PROVE  After(a, b, start, Append(seq, e))[Len(seq) + 1] = Step(a, b, After(a, b, start, seq)[Len(seq)], e)
<1> DEFINE n == Len(seq)  f == After(a, b, start, seq)  g == After(a, b, start, Append(seq, e))
           Q == {i \in 0 .. n : f[i] = g[i]}
<1>1. n \in Nat /\ Len(Append(seq, e)) = n + 1 /\ Append(seq, e)[n + 1] = e
      /\ \A i \in 1 .. n : Append(seq, e)[i] = seq[i]
  OBVIOUS
<1>2. f[0] = start /\ \A i \in 1 .. n : f[i] = Step(a, b, f[i - 1], seq[i])
  BY <1>1, AfterExists
<1>3. g[0] = start /\ \A i \in 1 .. n + 1 : g[i] = Step(a, b, g[i - 1], Append(seq, e)[i])
  BY <1>1, AfterExists
<1> HIDE DEF f, g
<1>4. 0 \in Q
  BY <1>1, <1>2, <1>3
<1>5. ASSUME NEW i \in 0 .. n - 1, i \in Q PROVE i + 1 \in Q
  <2>1. i + 1 \in 1 .. n /\ i + 1 \in 0 .. n /\ i + 1 \in 1 .. n + 1 /\ (i + 1) - 1 = i
    BY <1>1
  <2>2. f[i + 1] = Step(a, b, f[i], seq[i + 1])
    BY <1>2, <2>1
  <2>3. g[i + 1] = Step(a, b, g[i], seq[i + 1])
    BY <1>1, <1>3, <2>1
  <2>4. f[i] = g[i]
    BY <1>5
  <2> QED  BY <2>1, <2>2, <2>3, <2>4
<1>6. n \in Q
  <2>1. \A k \in 0 .. n : k \in Q
    <3> HIDE DEF Q
    <3> QED  BY <1>1, <1>4, <1>5 DEF Upward
  <2> QED  BY <1>1, <2>1
<1>7. g[n + 1] = Step(a, b, g[n], e)
  <2>1. n + 1 \in 1 .. n + 1 /\ (n + 1) - 1 = n
    BY <1>1
  <2> QED  BY <1>1, <1>3, <2>1
<1> QED  BY <1>6, <1>7 DEF f, g
=============================================================================
