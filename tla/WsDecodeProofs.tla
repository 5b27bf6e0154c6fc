-------------------------- MODULE WsDecodeProofs ----------------------------
(* The decode buffer of WsDecode is never overrun; no assumption is made     *)
(* about how long frames are, or about what the socket holds.  And the       *)
(* decoder emulates a read on a byte stream: what the caller is given is a   *)
(* beginning of what the client sent, whatever the frames, the pieces they   *)
(* arrive in and the lengths asked for.                                      *)
EXTENDS WsDecode, SequenceTheorems, WellFoundedInduction, NaturalsInduction, TLAPS

-----------------------------------------------------------------------------
(* Sequences.  Nothing needs to be known of their elements.                  *)

\* s is a sequence.
Listed(s) == \E S : s \in Seq(S)

LEMMA FirstListed ==
  ASSUME NEW s, NEW n \in Nat
  PROVE  Listed(First(s, n)) /\ Len(First(s, n)) = n
<1> DEFINE S == {s[j] : j \in 1 .. n}
<1>1. First(s, n) \in Seq(S) /\ Len(First(s, n)) = n
  BY DEF First
<1> QED  BY <1>1 DEF Listed

LEMMA ConcatListed ==
  ASSUME NEW s, NEW t, Listed(s), Listed(t)
  PROVE  Listed(s \o t) /\ Len(s \o t) = Len(s) + Len(t)
<1>1. PICK S : s \in Seq(S)
  BY DEF Listed
<1>2. PICK T : t \in Seq(T)
  BY DEF Listed
<1>3. s \in Seq(S \cup T) /\ t \in Seq(S \cup T)
  BY <1>1, <1>2
<1>4. s \o t \in Seq(S \cup T) /\ Len(s \o t) = Len(s) + Len(t)
  BY <1>3, ConcatProperties
<1> QED  BY <1>4 DEF Listed

LEMMA LenListed ==
  ASSUME NEW s, Listed(s)
  PROVE  Len(s) \in Nat
<1>1. PICK S : s \in Seq(S)
  BY DEF Listed
<1> QED  BY <1>1

LEMMA RestListed ==
  ASSUME NEW s, Listed(s), NEW n \in 0 .. Len(s)
  PROVE  Listed(Rest(s, n)) /\ Len(Rest(s, n)) = Len(s) - n
<1>1. PICK S : s \in Seq(S)
  BY DEF Listed
<1>2. Len(s) \in Nat
  BY <1>1
<1>3. SubSeq(s, n + 1, Len(s)) \in Seq(S) /\ Len(SubSeq(s, n + 1, Len(s))) = Len(s) - n
  BY <1>1, <1>2, SubSeqProperties
<1> QED  BY <1>3 DEF Rest, Listed

-----------------------------------------------------------------------------
(* The inductive invariant.  Only of a decoder that waits for a header, or   *)
(* for more of one, must more be known: nothing is carried over, and what    *)
(* it has read is less than the header.                                      *)

Fields == {"hybiDecodeState", "nRead", "opcode", "continuation", "nReadPayload",
           "carry", "ready", "writePos", "terminator"}

Buffered(k) ==
  /\ DOMAIN k = Fields
  /\ k.nReadPayload \in Int
  /\ Listed(k.carry) /\ Len(k.carry) \in 0 .. 3
  /\ k.writePos \in Nat /\ k.writePos + Len(k.carry) < BufSize
  /\ k.terminator \in 0 .. BufSize - 1

Pending(k, f) ==
  k.hybiDecodeState = "header_pending" =>
    k.carry = <<>> /\ k.nRead \in Nat /\ k.nRead < HeaderLen(f)

Decoder ==
  /\ frames \in Traffic /\ current \in Nat \ {0}
  /\ current <= Len(frames) => Buffered(ctx) /\ Pending(ctx, frames[current])

LEMMA HeaderLength ==
  ASSUME NEW f \in Frame
  PROVE  HeaderLen(f) \in 1 .. 14
<1> QED  BY DEF Frame, Forms, HeaderLen

LEMMA FramesTyped ==
  ASSUME frames \in Traffic
  PROVE  /\ Len(frames) \in Nat
         /\ \A i \in 1 .. Len(frames) : frames[i] \in Frame
<1>1. frames \in Seq(Frame)
  BY DecoderAssumption
<1> QED  BY <1>1

LEMMA FreshBuffered ==
  ASSUME NEW cont, NEW f \in Frame
  PROVE  Buffered(Fresh(cont)) /\ Pending(Fresh(cont), f)
<1>1. Listed(<< >>) /\ Len(<< >>) = 0
  <2>1. << >> \in Seq({})
    OBVIOUS
  <2> QED  BY <2>1 DEF Listed
<1>2. HeaderLen(f) \in 1 .. 14
  BY HeaderLength
<1>3. BufSize \in Nat /\ BufSize > 17
  BY DecoderAssumption
<1> QED  BY <1>1, <1>2, <1>3 DEF Fresh, Buffered, Pending, Fields

\* What is left of a frame is known only modulo Wide.
LEMMA RemainingTyped ==
  ASSUME NEW read \in Int, frames \in Traffic, current \in 1 .. Len(frames)
  PROVE  Remaining(read) \in Nat
<1>1. frames[current].len \in Nat
  BY FramesTyped DEF Frame
<1>2. Wide \in Nat /\ Wide > 0
  BY DecoderAssumption
<1>3. (Wide + frames[current].len) - read \in Int
  BY <1>1, <1>2
<1> QED  BY <1>2, <1>3 DEF Remaining

-----------------------------------------------------------------------------
(* The end of a call.                                                        *)

LEMMA SettleBuffered ==
  ASSUME NEW k, NEW given, frames \in Traffic, current \in 1 .. Len(frames),
         Buffered(k), k.hybiDecodeState # "header_pending",
         frames' = frames, Settle(k, given)
  PROVE  Decoder'
<1>1. CASE k.hybiDecodeState = "frame_complete"
  <2>1. current' = current + 1 /\ \E cont : ctx' = Fresh(cont)
    BY <1>1 DEF Settle, CleanupComplete, CleanupForContinuation
  <2>2. ASSUME current' <= Len(frames')
        PROVE  Buffered(ctx') /\ Pending(ctx', frames'[current'])
    <3>1. frames'[current'] \in Frame
      BY <2>1, <2>2, FramesTyped
    <3> QED  BY <2>1, <3>1, FreshBuffered
  <2> QED  BY <2>1, <2>2 DEF Decoder
<1>2. CASE k.hybiDecodeState # "frame_complete"
  <2>1. current' = current /\ ctx' = k
    BY <1>2 DEF Settle
  <2> QED  BY <2>1 DEF Decoder, Pending
<1> QED  BY <1>1, <1>2

LEMMA ReturnDataBuffered ==
  ASSUME NEW k, NEW len, frames \in Traffic, current \in 1 .. Len(frames),
         Buffered(k), k.hybiDecodeState # "header_pending",
         frames' = frames, ReturnData(k, len)
  PROVE  Decoder'
<1> DEFINE n    == IF Len(k.ready) > len THEN len ELSE Len(k.ready)
           rest == Rest(k.ready, n)
           next == IF rest # <<>> THEN "data_available"
                   ELSE IF n = 0 THEN k.hybiDecodeState
                   ELSE IF Remaining(k.nReadPayload) = 0 THEN "frame_complete"
                   ELSE "data_needed"
           r    == [k EXCEPT !.ready = rest, !.hybiDecodeState = next]
<1>1. Settle(r, First(k.ready, n))
  BY DEF ReturnData
<1>2. next # "header_pending"
  <2> HIDE DEF rest, n
  <2> QED  OBVIOUS
<1>3. Buffered(r) /\ r.hybiDecodeState # "header_pending"
  <2> HIDE DEF rest, next
  <2> QED  BY <1>2 DEF Buffered, Fields
<1> HIDE DEF r
<1> QED  BY <1>1, <1>3, SettleBuffered

-----------------------------------------------------------------------------
(* A read.  What the socket is asked for leaves one byte of the buffer free, *)
(* and of a block no more than three bytes are carried over.                 *)

LEMMA ReadFits ==
  ASSUME NEW k, NEW s, frames \in Traffic, current \in 1 .. Len(frames),
         Buffered(k), NEW n \in Reads(NextRead(k), s)
  PROVE  n \in Nat /\ k.writePos + Len(k.carry) + n < BufSize
<1>1. Remaining(k.nReadPayload) \in Nat
  BY RemainingTyped DEF Buffered
<1>2. k.writePos \in Nat /\ Len(k.carry) \in Nat /\ BufSize \in Nat
      /\ k.writePos + Len(k.carry) < BufSize
  BY DecoderAssumption DEF Buffered
<1>3. NextRead(k) \in Nat /\ NextRead(k) <= BufSize - (k.writePos + Len(k.carry)) - 1
  BY <1>1, <1>2 DEF NextRead
<1>4. n \in 0 .. NextRead(k)
  BY <1>3 DEF Reads
<1> QED  BY <1>2, <1>3, <1>4

LEMMA WholeBounds ==
  ASSUME NEW m \in Nat, NEW complete \in BOOLEAN
  PROVE  Whole(m, complete) \in 0 .. m /\ m - Whole(m, complete) \in 0 .. 3
<1>1. m % 4 \in 0 .. 3 /\ m % 4 <= m
  OBVIOUS
<1> QED  BY <1>1 DEF Whole

\* What is written of the buffer, after n bytes were read to the w + c that were
\* there and r are left over.
LEMMA EndFits ==
  ASSUME NEW w \in Nat, NEW c \in Nat, NEW n \in Nat, NEW b \in Nat, NEW r \in 0 .. 3,
         NEW size \in Nat, w + c + n < size, b <= w, r <= c + b + n
  PROVE  /\ w + c + n - r \in Nat
         /\ (w + c + n - r) + r < size
         /\ w + c + n - r \in 0 .. size - 1
<1> QED  OBVIOUS

LEMMA ReadAndDecodeBuffered ==
  ASSUME NEW k, NEW buffered, NEW s, NEW len,
         frames \in Traffic, current \in 1 .. Len(frames),
         Buffered(k), k.hybiDecodeState # "header_pending",
         Listed(buffered), Len(buffered) <= k.writePos,
         NEW n \in Reads(NextRead(k), s),
         frames' = frames, ReadAndDecode(k, buffered, s, n, len)
  PROVE  Decoder'
<1> DEFINE read     == k.nReadPayload + n
           complete == Remaining(read) = 0
           block    == k.carry \o buffered \o First(s, n)
           whole    == Whole(Len(block), complete)
           carry    == Rest(block, whole)
           end      == k.writePos + Len(k.carry) + n - Len(carry)
           more     == [k EXCEPT !.nReadPayload = read, !.carry = carry, !.writePos = end,
                                 !.terminator = end,
                                 !.hybiDecodeState = IF complete THEN "frame_complete" ELSE @]
           closing  == [more EXCEPT !.hybiDecodeState =
                                      IF complete THEN @ ELSE "close_reason_pending"]
           decoded  == [more EXCEPT
                          !.writePos = IF k.opcode = "ping" THEN @ ELSE HeaderLen(frames[current]),
                          !.ready = Payload(k.opcode, Unmasked(First(block, whole)))]
<1>1. /\ n \in Nat /\ k.writePos \in Nat /\ Len(k.carry) \in Nat /\ BufSize \in Nat
      /\ k.writePos + Len(k.carry) + n < BufSize /\ BufSize > 17
  <2>1. n \in Nat /\ k.writePos + Len(k.carry) + n < BufSize
    BY ReadFits
  <2>2. BufSize \in Nat /\ BufSize > 17
    BY DecoderAssumption
  <2>3. k.writePos \in Nat /\ Len(k.carry) \in Nat
    BY DEF Buffered
  <2> QED  BY <2>1, <2>2, <2>3
<1>2. read \in Int
  BY <1>1 DEF Buffered
<1>3. Listed(block) /\ Len(block) = Len(k.carry) + Len(buffered) + n
  <2>1. Listed(k.carry \o buffered) /\ Len(k.carry \o buffered) = Len(k.carry) + Len(buffered)
    BY ConcatListed DEF Buffered
  <2>2. Listed(First(s, n)) /\ Len(First(s, n)) = n
    BY <1>1, FirstListed
  <2> QED  BY <2>1, <2>2, ConcatListed
<1>4. Len(buffered) \in Nat
  BY LenListed
<1>5. Len(block) \in Nat
  BY <1>1, <1>3, <1>4
<1>6. whole \in 0 .. Len(block) /\ Len(block) - whole \in 0 .. 3
  BY <1>5, WholeBounds
<1>7. Listed(carry) /\ Len(carry) = Len(block) - whole
  BY <1>3, <1>6, RestListed
<1> HIDE DEF read, complete, block, whole, carry
<1>8. Len(carry) \in 0 .. 3 /\ Len(carry) <= Len(k.carry) + Len(buffered) + n
  BY <1>1, <1>3, <1>4, <1>5, <1>6, <1>7
<1>9. end \in Nat /\ end + Len(carry) < BufSize /\ end \in 0 .. BufSize - 1
  <2> DEFINE w == k.writePos
             c == Len(k.carry)
             b == Len(buffered)
             r == Len(carry)
  <2>1. w \in Nat /\ c \in Nat /\ n \in Nat /\ b \in Nat /\ BufSize \in Nat
    BY <1>1, <1>4
  <2>2. w + c + n < BufSize /\ b <= w
    BY <1>1
  <2>3. r \in 0 .. 3 /\ r <= c + b + n
    BY <1>8
  <2>4. end = w + c + n - r
    OBVIOUS
  <2> HIDE DEF w, c, b, r, end
  <2>5. end \in Nat /\ end + r < BufSize /\ end \in 0 .. BufSize - 1
    BY <2>1, <2>2, <2>3, <2>4, EndFits
  <2> QED  BY <2>5 DEF r
<1>10. HeaderLen(frames[current]) \in 1 .. 14
  BY FramesTyped, HeaderLength
<1> HIDE DEF end
<1>11. DOMAIN k = Fields
  BY DEF Buffered
<1>12. Buffered(more) /\ more.hybiDecodeState # "header_pending"
  BY <1>2, <1>7, <1>8, <1>9, <1>11 DEF Buffered, Fields
<1>13. CASE k.opcode = "close"
  <2>1. Settle(closing, <<>>)
    BY <1>13 DEF ReadAndDecode, read, complete, block, whole, carry, end
  <2>2. Buffered(closing) /\ closing.hybiDecodeState # "header_pending"
    <3> HIDE DEF more
    <3> QED  BY <1>12 DEF Buffered, Fields
  <2> HIDE DEF closing
  <2> QED  BY <2>1, <2>2, SettleBuffered
<1>14. CASE k.opcode # "close"
  <2>1. ReturnData(decoded, len)
    BY <1>14 DEF ReadAndDecode, read, complete, block, whole, carry, end
  <2>2. more.carry = carry
    BY <1>11 DEF Fields
  <2>3. Buffered(decoded) /\ decoded.hybiDecodeState # "header_pending"
    <3> DEFINE ready  == Payload(k.opcode, Unmasked(First(block, whole)))
               header == HeaderLen(frames[current])
    <3>1. header + Len(carry) < BufSize /\ header \in Nat
      <4> DEFINE r == Len(carry)
      <4>1. header \in 1 .. 14
        BY <1>10
      <4>2. r \in 0 .. 3
        BY <1>8
      <4>3. BufSize \in Nat /\ BufSize > 17
        BY <1>1
      <4> HIDE DEF header, r
      <4>4. header + r < BufSize /\ header \in Nat
        BY <4>1, <4>2, <4>3
      <4> QED  BY <4>4 DEF r
    <3> HIDE DEF more, ready, header
    <3>2. /\ DOMAIN decoded = Fields /\ decoded.carry = more.carry
          /\ decoded.nReadPayload = more.nReadPayload
          /\ decoded.terminator = more.terminator
          /\ decoded.hybiDecodeState = more.hybiDecodeState
          /\ decoded.writePos = IF k.opcode = "ping" THEN more.writePos ELSE header
      BY <1>12 DEF Buffered, Fields, header
    <3> HIDE DEF decoded
    <3> QED  BY <1>12, <2>2, <3>1, <3>2 DEF Buffered
  <2> HIDE DEF decoded
  <2> QED  BY <2>1, <2>3, ReturnDataBuffered
<1> QED  BY <1>13, <1>14

-----------------------------------------------------------------------------
(* The actions.                                                              *)

LEMMA HeaderKept ==
  ASSUME NEW len, Decoder, current \in 1 .. Len(frames),
         frames' = frames, ReadHeader(len)
  PROVE  Decoder'
<1>1. frames \in Traffic /\ frames[current] \in Frame
  BY FramesTyped DEF Decoder
<1>2. PICK n \in Reads(WSHLENMAX - ctx.nRead, socket) :
        LET f      == frames[current]
            got    == ctx.nRead + n
            bad    == got >= 2 /\ BadStart(f, ctx.continuation)
            all    == got >= HeaderLen(f)
            extra  == Rest(First(socket, n), HeaderLen(f) - ctx.nRead)
            k      == [Header(got) EXCEPT !.hybiDecodeState = "data_needed", !.writePos = got,
                                          !.nReadPayload = Len(extra)]
        IN  \/ /\ ~bad /\ ~all
               /\ ctx' = Header(got) /\ socket' = Rest(socket, n)
               /\ UNCHANGED <<current, out, status>>
            \/ /\ bad \/ (all /\ BadLength(f))
               /\ Fail("protocol") /\ socket' = Rest(socket, n)
            \/ /\ ~bad /\ all /\ ~BadLength(f)
               /\ \E m \in Reads(NextRead(k), Rest(socket, n)) :
                    ReadAndDecode(k, extra, Rest(socket, n), m, len)
  BY DEF ReadHeader
<1> DEFINE f      == frames[current]
           got    == ctx.nRead + n
           extra  == Rest(First(socket, n), HeaderLen(f) - ctx.nRead)
           k      == [Header(got) EXCEPT !.hybiDecodeState = "data_needed", !.writePos = got,
                                         !.nReadPayload = Len(extra)]
<1>3. /\ ctx.hybiDecodeState = "header_pending" /\ Buffered(ctx)
      /\ ctx.carry = <<>> /\ ctx.nRead \in Nat /\ ctx.nRead < HeaderLen(f)
  BY DEF Decoder, Pending, ReadHeader
<1>4. HeaderLen(f) \in 1 .. 14
  BY <1>1, HeaderLength
<1>5. n \in Nat /\ got \in Nat /\ got <= 14
  BY <1>3, <1>4 DEF Reads, WSHLENMAX
<1>6. /\ Buffered(Header(got)) /\ Header(got).carry = <<>> /\ Header(got).nRead = got
      /\ DOMAIN Header(got) = Fields
  BY <1>3 DEF Header, Buffered, Fields
<1>7. CASE got < HeaderLen(f) /\ ctx' = Header(got) /\ current' = current
  BY <1>1, <1>5, <1>6, <1>7 DEF Decoder, Pending
<1>8. CASE Fail("protocol")
  <2>1. ctx' = Fresh(Invalid) /\ current' = current
    BY <1>8 DEF Fail, CleanupComplete
  <2> QED  BY <1>1, <2>1, FreshBuffered DEF Decoder
<1>9. CASE got >= HeaderLen(f)
           /\ \E m \in Reads(NextRead(k), Rest(socket, n)) :
                ReadAndDecode(k, extra, Rest(socket, n), m, len)
  <2>1. HeaderLen(f) - ctx.nRead \in 0 .. n
    <3>1. got >= HeaderLen(f)
      BY <1>9
    <3> DEFINE h == HeaderLen(f)
    <3>2. h \in 1 .. 14 /\ ctx.nRead \in Nat /\ ctx.nRead < h /\ n \in Nat /\ ctx.nRead + n >= h
      BY <1>3, <1>4, <1>5, <3>1
    <3> HIDE DEF h
    <3>3. h - ctx.nRead \in 0 .. n
      BY <3>2
    <3> QED  BY <3>3 DEF h
  <2>2. Listed(First(socket, n)) /\ Len(First(socket, n)) = n
    BY <1>5, FirstListed
  <2>3. Listed(extra) /\ Len(extra) = n - (HeaderLen(f) - ctx.nRead)
    BY <2>1, <2>2, RestListed
  <2>4. Len(extra) \in Nat /\ Len(extra) <= got
    BY <1>3, <1>4, <1>5, <2>1, <2>3
  <2> HIDE DEF extra, got
  <2>5. BufSize \in Nat /\ BufSize > 17
    BY DecoderAssumption
  <2>6. Buffered(k) /\ k.hybiDecodeState # "header_pending" /\ k.writePos = got
    BY <1>5, <1>6, <2>4, <2>5 DEF Buffered, Fields
  <2> HIDE DEF k
  <2>7. PICK m \in Reads(NextRead(k), Rest(socket, n)) :
          ReadAndDecode(k, extra, Rest(socket, n), m, len)
    BY <1>9
  <2> QED  BY <1>1, <2>3, <2>4, <2>6, <2>7, ReadAndDecodeBuffered
<1> QED  BY <1>2, <1>3, <1>4, <1>5, <1>7, <1>8, <1>9, SMTT(30)

LEMMA MoreKept ==
  ASSUME NEW len, Decoder, current \in 1 .. Len(frames),
         frames' = frames, ReadMore(len)
  PROVE  Decoder'
<1>1. PICK n \in Reads(NextRead(ctx), socket) : ReadAndDecode(ctx, <<>>, socket, n, len)
  BY DEF ReadMore
<1>2. frames \in Traffic /\ Buffered(ctx) /\ ctx.hybiDecodeState # "header_pending"
  BY DEF Decoder, ReadMore
<1>3. Listed(<<>>) /\ Len(<<>>) = 0
  <2>1. << >> \in Seq({})
    OBVIOUS
  <2> QED  BY <2>1 DEF Listed
<1>4. Len(<<>>) <= ctx.writePos
  BY <1>2, <1>3 DEF Buffered
<1> QED  BY <1>1, <1>2, <1>3, <1>4, ReadAndDecodeBuffered

LEMMA ReadyKept ==
  ASSUME NEW len, Decoder, current \in 1 .. Len(frames),
         frames' = frames, ReturnReady(len)
  PROVE  Decoder'
<1>1. /\ frames \in Traffic /\ Buffered(ctx)
      /\ ctx.hybiDecodeState # "header_pending" /\ ReturnData(ctx, len)
  BY DEF Decoder, ReturnReady
<1> QED  BY <1>1, ReturnDataBuffered

LEMMA FailureKept ==
  ASSUME Decoder, current \in 1 .. Len(frames), SocketFails
  PROVE  Decoder'
<1>1. frames \in Traffic /\ frames[current] \in Frame
  BY FramesTyped DEF Decoder
<1>2. ctx' = Fresh(Invalid) /\ current' = current /\ frames' = frames
  BY DEF SocketFails, Fail, CleanupComplete
<1> QED  BY <1>1, <1>2, FreshBuffered DEF Decoder

\* A call leaves the frames alone, and ends in the frame it began in or in
\* the next.
LEMMA CurrentAdvances ==
  ASSUME Next
  PROVE  frames' = frames /\ current' \in {current, current + 1}
<1>1. ASSUME NEW k, NEW given, Settle(k, given)
      PROVE  current' \in {current, current + 1}
  BY <1>1 DEF Settle
<1>2. ASSUME NEW k, NEW len, ReturnData(k, len)
      PROVE  current' \in {current, current + 1}
  BY <1>1, <1>2 DEF ReturnData
<1>3. ASSUME NEW k, NEW buffered, NEW s, NEW n, NEW len, ReadAndDecode(k, buffered, s, n, len)
      PROVE  current' \in {current, current + 1}
  <2>1. CASE k.opcode = "close"
    BY <1>1, <1>3, <2>1 DEF ReadAndDecode
  <2>2. CASE k.opcode # "close"
    BY <1>2, <1>3, <2>2 DEF ReadAndDecode
  <2> QED  BY <2>1, <2>2
<1>4. CASE SocketFails
  BY <1>4 DEF SocketFails, Fail
<1>5. ASSUME NEW len, webSocketsDecodeHybi(len)
      PROVE  frames' = frames /\ current' \in {current, current + 1}
  <2>1. CASE ReadHeader(len)
    BY <1>3, <1>5, <2>1 DEF webSocketsDecodeHybi, ReadHeader, Fail
  <2>2. CASE ReadMore(len)
    BY <1>3, <1>5, <2>2 DEF webSocketsDecodeHybi, ReadMore
  <2>3. CASE ReturnReady(len)
    BY <1>2, <1>5, <2>3 DEF webSocketsDecodeHybi, ReturnReady
  <2> QED  BY <1>5, <2>1, <2>2, <2>3 DEF webSocketsDecodeHybi
<1> QED  BY <1>4, <1>5 DEF Next

-----------------------------------------------------------------------------
(* The theorem.                                                              *)

LEMMA DecoderInit == Init => Decoder
<1> SUFFICES ASSUME Init PROVE Decoder
  OBVIOUS
<1>1. frames \in Traffic /\ current = 1 /\ ctx = Fresh(Invalid)
  BY DEF Init, CleanupComplete
<1>2. 1 <= Len(frames) => frames[current] \in Frame
  BY <1>1, FramesTyped
<1> QED  BY <1>1, <1>2, FreshBuffered DEF Decoder

LEMMA DecoderStep == Decoder /\ [Next]_vars => Decoder'
<1> SUFFICES ASSUME Decoder, [Next]_vars PROVE Decoder'
  OBVIOUS
<1>1. CASE UNCHANGED vars
  BY <1>1 DEF vars, Decoder, Pending
<1>2. CASE Next /\ current > Len(frames)
  <2>1. frames' = frames /\ current' \in {current, current + 1}
    BY <1>2, CurrentAdvances
  <2>2. frames \in Traffic /\ current \in Nat \ {0} /\ Len(frames) \in Nat
    BY FramesTyped DEF Decoder
  <2>3. current' \in Nat \ {0} /\ ~(current' <= Len(frames))
    BY <1>2, <2>1, <2>2
  <2> QED  BY <2>1, <2>2, <2>3 DEF Decoder
<1>3. CASE Next /\ current <= Len(frames)
  <2>1. current \in 1 .. Len(frames) /\ frames' = frames
    BY <1>3, FramesTyped, CurrentAdvances DEF Decoder
  <2>2. CASE SocketFails
    BY <2>1, <2>2, FailureKept
  <2>3. ASSUME NEW len \in Lengths, webSocketsDecodeHybi(len)
        PROVE  Decoder'
    <3>1. ReadHeader(len) \/ ReadMore(len) \/ ReturnReady(len)
      BY <2>3 DEF webSocketsDecodeHybi
    <3> QED  BY <2>1, <3>1, HeaderKept, MoreKept, ReadyKept
  <2> QED  BY <1>3, <2>2, <2>3 DEF Next
<1>4. current > Len(frames) \/ current <= Len(frames)
  BY FramesTyped DEF Decoder
<1> QED  BY <1>1, <1>2, <1>3, <1>4

\* Whatever frames the client sends, of whatever length, in whatever pieces they
\* arrive and however much the caller asks for, the decoder never writes past
\* codeBufDecode and never carries over more than three bytes, as long as it
\* is within the frames the client sends (hybiReadAndDecode, ws_decode.c
\* 346-438).
THEOREM DecodeBufferSafe == Spec => []BufferBounded
<1>1. Init => Decoder
  BY DecoderInit
<1>2. Decoder /\ [Next]_vars => Decoder'
  BY DecoderStep
<1>3. Decoder => BufferBounded
  BY DEF Decoder, Buffered, BufferBounded
<1> QED  BY <1>1, <1>2, <1>3, PTL DEF Spec

-----------------------------------------------------------------------------
(* Sequences of sequences.  FlattenSeq is a recursive function; what is known *)
(* of it is derived from its partial results.                                 *)

\* A set of numbers that contains 0 and with every number below n the next one
\* contains every number up to n.
LEMMA Climb ==
  ASSUME NEW n \in Nat, NEW T, 0 \in T, \A i \in 0 .. n - 1 : i \in T => i + 1 \in T
  PROVE  \A i \in 0 .. n : i \in T
<1> DEFINE Bad == (0 .. n) \ T
<1>1. SUFFICES ASSUME Bad # {} PROVE FALSE
  OBVIOUS
<1>2. Bad \subseteq Nat
  OBVIOUS
<1>3. PICK i \in Bad : \A j \in Bad : ~(<<j, i>> \in OpToRel(<, Nat))
  <2> HIDE DEF Bad
  <2> QED  BY <1>1, <1>2, WFMin, NatLessThanWellFounded, Zenon
<1>4. \A j \in Bad : ~(j < i)
  <2>1. \A x, y \in Nat : x < y => <<x, y>> \in OpToRel(<, Nat)
    BY Zenon DEF OpToRel
  <2> QED  BY <1>2, <1>3, <2>1
<1>5. i \in 1 .. n
  OBVIOUS
<1>6. i - 1 \in T
  BY <1>4, <1>5
<1> QED  BY <1>5, <1>6

\* G holds the first n partial results of putting together the sequences of s.
Partial(S, s, n, G) ==
  /\ G \in [0 .. n -> Seq(S)] /\ G[0] = <<>>
  /\ \A i \in 1 .. n : G[i] = G[i - 1] \o s[i]

LEMMA PartialExists ==
  ASSUME NEW S, NEW s \in Seq(Seq(S))
  PROVE  \E G : Partial(S, s, Len(s), G)
<1> DEFINE T == {n \in 0 .. Len(s) : \E G : Partial(S, s, n, G)}
<1>0. Len(s) \in Nat /\ \A i \in 1 .. Len(s) : s[i] \in Seq(S)
  OBVIOUS
<1>1. 0 \in T
  <2>1. Partial(S, s, 0, [i \in 0 .. 0 |-> <<>>])
    BY EmptySeq DEF Partial
  <2> QED  BY <1>0, <2>1
<1>2. ASSUME NEW n \in 0 .. Len(s) - 1, n \in T PROVE n + 1 \in T
  <2>1. PICK G : Partial(S, s, n, G)
    BY <1>2
  <2> DEFINE H == [i \in 0 .. n + 1 |-> IF i = n + 1 THEN G[n] \o s[n + 1] ELSE G[i]]
  <2>2. G[n] \o s[n + 1] \in Seq(S)
    BY <1>0, <2>1, ConcatProperties DEF Partial
  <2>3. H \in [0 .. n + 1 -> Seq(S)] /\ H[0] = <<>>
    BY <1>2, <2>1, <2>2 DEF Partial
  <2>4. n \in Nat /\ n + 1 \in Nat /\ (n + 1) - 1 = n
    BY <1>0, <1>2
  <2>5. H[n + 1] = G[n] \o s[n + 1] /\ \A i \in 0 .. n : H[i] = G[i]
    <3>1. n + 1 \in 0 .. n + 1 /\ \A i \in 0 .. n : i \in 0 .. n + 1 /\ i # n + 1
      BY <2>4
    <3> QED  BY <3>1
  <2> HIDE DEF H
  <2>6. ASSUME NEW i \in 1 .. n + 1 PROVE H[i] = H[i - 1] \o s[i]
    <3>1. CASE i = n + 1
      <4>1. i - 1 = n /\ n \in 0 .. n
        BY <2>4, <3>1
      <4> QED  BY <2>5, <3>1, <4>1
    <3>2. CASE i # n + 1
      <4>1. i \in 1 .. n /\ i \in 0 .. n /\ i - 1 \in 0 .. n
        BY <2>4, <3>2
      <4> QED  BY <2>1, <2>5, <4>1 DEF Partial
    <3> QED  BY <3>1, <3>2
  <2>7. Partial(S, s, n + 1, H)
    BY <2>3, <2>6 DEF Partial
  <2> QED  BY <1>0, <2>4, <2>7
<1> HIDE DEF T
<1>3. \A n \in 0 .. Len(s) : n \in T
  <2> DEFINE n == Len(s)
  <2>1. n \in Nat /\ \A i \in 0 .. n - 1 : i \in T => i + 1 \in T
    BY <1>0, <1>2
  <2> HIDE DEF n
  <2>2. \A i \in 0 .. n : i \in T
    BY <1>1, <2>1, Climb
  <2> QED  BY <2>2 DEF n
<1> QED  BY <1>0, <1>3 DEF T

LEMMA FlattenIsPartial ==
  ASSUME NEW S, NEW s \in Seq(Seq(S)), NEW G, Partial(S, s, Len(s), G)
  PROVE  FlattenSeq(s) = G[Len(s)]
<1>0. Len(s) \in Nat /\ \A i \in 1 .. Len(s) : s[i] \in Seq(S)
  OBVIOUS
<1>1. CASE Len(s) = 0
  BY <1>1 DEF FlattenSeq, Partial
<1>2. CASE Len(s) # 0
  <2> DEFINE Flattens(f) == f = [i \in 1 .. Len(s) |-> IF i = 1 THEN s[i] ELSE f[i - 1] \o s[i]]
             f == CHOOSE g : Flattens(g)
             h == [i \in 1 .. Len(s) |-> G[i]]
  <2>1. Flattens(h)
    <3>1. ASSUME NEW i \in 1 .. Len(s) PROVE h[i] = IF i = 1 THEN s[i] ELSE h[i - 1] \o s[i]
      <4>1. G[i] = G[i - 1] \o s[i]
        BY DEF Partial
      <4>2. CASE i = 1
        BY <1>0, <4>1, <4>2, ConcatEmptySeq DEF Partial
      <4>3. CASE i # 1
        <5>1. i - 1 \in 1 .. Len(s)
          BY <1>0, <4>3
        <5>2. h[i] = G[i] /\ h[i - 1] = G[i - 1]
          BY <5>1
        <5> QED  BY <4>1, <4>3, <5>2
      <4> QED  BY <4>2, <4>3
    <3> QED  BY <3>1
  <2>2. Flattens(f)
    BY <2>1
  <2>3. FlattenSeq(s) = f[Len(s)]
    BY <1>2 DEF FlattenSeq
  <2> DEFINE T == {i \in 0 .. Len(s) : i = 0 \/ f[i] = G[i]}
  <2>4. ASSUME NEW i \in 1 .. Len(s)
        PROVE  f[i] = IF i = 1 THEN s[i] ELSE f[i - 1] \o s[i]
    <3> HIDE DEF f
    <3> QED  BY <2>2
  <2>5. ASSUME NEW i \in 1 .. Len(s)
        PROVE  G[i] = IF i = 1 THEN s[i] ELSE G[i - 1] \o s[i]
    <3> HIDE DEF f
    <3>1. \A j \in 1 .. Len(s) : h[j] = G[j]
      OBVIOUS
    <3>2. h[i] = IF i = 1 THEN s[i] ELSE h[i - 1] \o s[i]
      <4> HIDE DEF h
      <4> QED  BY <2>1
    <3>3. i # 1 => i - 1 \in 1 .. Len(s)
      BY <1>0
    <3> QED  BY <3>1, <3>2, <3>3
  <2> HIDE DEF f, h
  <2>6. 0 \in T /\ \A i \in 0 .. Len(s) - 1 : i \in T => i + 1 \in T
    <3>1. 0 \in T
      BY <1>0
    <3>2. ASSUME NEW i \in 0 .. Len(s) - 1, i \in T PROVE i + 1 \in T
      <4>1. i + 1 \in 1 .. Len(s) /\ (i + 1) - 1 = i /\ (i + 1 = 1 <=> i = 0)
        BY <1>0
      <4> QED  BY <1>0, <2>4, <2>5, <3>2, <4>1
    <3> QED  BY <3>1, <3>2
  <2>7. Len(s) \in T
    <3> DEFINE n == Len(s)
    <3>1. n \in Nat /\ \A i \in 0 .. n - 1 : i \in T => i + 1 \in T
      BY <1>0, <2>6
    <3> HIDE DEF T, n
    <3>2. \A i \in 0 .. n : i \in T
      BY <2>6, <3>1, Climb
    <3> QED  BY <3>1, <3>2 DEF n
  <2> QED  BY <1>2, <2>3, <2>7
<1> QED  BY <1>1, <1>2

LEMMA FlattenConcat ==
  ASSUME NEW S, NEW s \in Seq(Seq(S)), NEW t \in Seq(Seq(S))
  PROVE  /\ FlattenSeq(s) \in Seq(S)
         /\ FlattenSeq(s \o t) = FlattenSeq(s) \o FlattenSeq(t)
<1> DEFINE m == Len(s)
           n == Len(t)
           u == s \o t
<1>1. /\ m \in Nat /\ n \in Nat /\ u \in Seq(Seq(S)) /\ Len(u) = m + n
      /\ \A i \in 1 .. m : u[i] = s[i] /\ s[i] \in Seq(S)
      /\ \A i \in 1 .. n : u[m + i] = t[i] /\ t[i] \in Seq(S)
  <2>1. \A i \in 1 .. m + n : u[i] = IF i <= m THEN s[i] ELSE t[i - m]
    BY ConcatProperties
  <2>2. m \in Nat /\ n \in Nat /\ u \in Seq(Seq(S)) /\ Len(u) = m + n
    BY ConcatProperties
  <2>3. (\A i \in 1 .. m : s[i] \in Seq(S)) /\ (\A i \in 1 .. n : t[i] \in Seq(S))
    OBVIOUS
  <2> HIDE DEF m, n, u
  <2>4. \A i \in 1 .. n : m + i \in 1 .. m + n /\ ~(m + i <= m) /\ (m + i) - m = i
    BY <2>2
  <2>5. \A i \in 1 .. m : i \in 1 .. m + n /\ i <= m
    BY <2>2
  <2> QED  BY <2>1, <2>2, <2>3, <2>4, <2>5
<1>2. PICK A : Partial(S, s, m, A)
  BY PartialExists
<1>3. PICK B : Partial(S, t, n, B)
  BY PartialExists
<1>4. PICK G : Partial(S, u, Len(u), G)
  BY <1>1, PartialExists
<1>5. FlattenSeq(s) = A[m] /\ FlattenSeq(t) = B[n] /\ FlattenSeq(u) = G[m + n]
  BY <1>1, <1>2, <1>3, <1>4, FlattenIsPartial
<1> HIDE DEF m, n, u
<1>6. \A i \in 0 .. m : A[i] \in Seq(S)
  BY <1>2 DEF Partial
<1>7. \A i \in 0 .. n : B[i] \in Seq(S)
  BY <1>3 DEF Partial
<1>8. G[m] = A[m]
  <2> DEFINE T == {i \in 0 .. m : G[i] = A[i]}
  <2>1. 0 \in T
    BY <1>1, <1>2, <1>4 DEF Partial
  <2>2. ASSUME NEW i \in 0 .. m - 1, i \in T PROVE i + 1 \in T
    <3>1. i + 1 \in 1 .. m /\ i + 1 \in 1 .. m + n /\ (i + 1) - 1 = i
      BY <1>1
    <3>2. A[i + 1] = A[i] \o s[i + 1] /\ G[i + 1] = G[i] \o u[i + 1]
      BY <1>1, <1>2, <1>4, <3>1 DEF Partial
    <3>3. G[i] = A[i] /\ u[i + 1] = s[i + 1]
      BY <1>1, <2>2, <3>1
    <3>4. G[i + 1] = A[i + 1]
      BY <3>2, <3>3
    <3>5. i + 1 \in 0 .. m
      BY <3>1
    <3> QED  BY <3>4, <3>5
  <2> HIDE DEF T
  <2>3. \A i \in 0 .. m : i \in T
    BY <1>1, <2>1, <2>2, Climb
  <2> QED  BY <1>1, <2>3 DEF T
<1>9. G[m + n] = A[m] \o B[n]
  <2> DEFINE T == {i \in 0 .. n : G[m + i] = A[m] \o B[i]}
  <2>1. 0 \in T
    <3>1. A[m] \in Seq(S) /\ B[0] = <<>> /\ m + 0 = m
      BY <1>1, <1>3, <1>6 DEF Partial
    <3>2. A[m] \o <<>> = A[m]
      BY <3>1, ConcatEmptySeq
    <3>3. G[m + 0] = A[m] \o B[0]
      BY <1>8, <3>1, <3>2
    <3>4. 0 \in 0 .. n
      BY <1>1
    <3> QED  BY <3>3, <3>4, Zenon
  <2>2. ASSUME NEW i \in 0 .. n - 1, i \in T PROVE i + 1 \in T
    <3>1. i \in 0 .. n /\ i + 1 \in 1 .. n /\ m + (i + 1) \in 1 .. m + n /\ (i + 1) - 1 = i /\ (m + (i + 1)) - 1 = m + i
      BY <1>1
    <3>2. B[i + 1] = B[i] \o t[i + 1] /\ G[m + (i + 1)] = G[m + i] \o u[m + (i + 1)]
      BY <1>1, <1>3, <1>4, <3>1 DEF Partial
    <3>3. u[m + (i + 1)] = t[i + 1] /\ t[i + 1] \in Seq(S)
      BY <1>1, <3>1
    <3>4. G[m + i] = A[m] \o B[i]
      BY <2>2
    <3>5. (A[m] \o B[i]) \o t[i + 1] = A[m] \o (B[i] \o t[i + 1])
      <4>1. A[m] \in Seq(S) /\ B[i] \in Seq(S)
        BY <1>1, <1>6, <1>7, <3>1
      <4> DEFINE a == A[m]
                 b == B[i]
                 c == t[i + 1]
      <4>2. a \in Seq(S) /\ b \in Seq(S) /\ c \in Seq(S)
        BY <3>3, <4>1
      <4> HIDE DEF a, b, c
      <4>3. (a \o b) \o c = a \o (b \o c)
        BY <4>2, ConcatAssociative, SMTT(60)
      <4> QED  BY <4>3 DEF a, b, c
    <3>6. G[m + (i + 1)] = A[m] \o B[i + 1]
      BY <3>2, <3>3, <3>4, <3>5
    <3>7. i + 1 \in 0 .. n
      BY <3>1
    <3> QED  BY <3>6, <3>7
  <2> HIDE DEF T
  <2>3. \A i \in 0 .. n : i \in T
    BY <1>1, <2>1, <2>2, Climb
  <2>4. n \in T
    BY <1>1, <2>3
  <2> QED  BY <2>4 DEF T
<1> QED  BY <1>1, <1>5, <1>6, <1>9 DEF u

LEMMA FlattenOne ==
  ASSUME NEW S, NEW x \in Seq(S)
  PROVE  FlattenSeq(<<x>>) = x
<1>1. <<x>> \in Seq(Seq(S)) /\ Len(<<x>>) = 1 /\ <<x>>[1] = x
  OBVIOUS
<1>2. PICK G : Partial(S, <<x>>, Len(<<x>>), G)
  BY <1>1, PartialExists
<1>3. G[1] = G[0] \o x /\ G[0] = <<>>
  <2>1. 1 \in 1 .. Len(<<x>>) /\ 1 - 1 = 0
    BY <1>1
  <2> QED  BY <1>1, <1>2, <2>1 DEF Partial
<1>4. FlattenSeq(<<x>>) = G[Len(<<x>>)]
  BY <1>1, <1>2, FlattenIsPartial, Zenon
<1>5. <<>> \o x = x
  BY ConcatEmptySeq
<1> QED  BY <1>1, <1>3, <1>4, <1>5

LEMMA FlattenNone == FlattenSeq(<<>>) = <<>>
BY DEF FlattenSeq

\* The sequence number i of s between what comes before and what comes after.
LEMMA FlattenParts ==
  ASSUME NEW S, NEW s \in Seq(Seq(S)), NEW i \in 1 .. Len(s)
  PROVE  /\ FlattenSeq(SubSeq(s, 1, i)) = FlattenSeq(SubSeq(s, 1, i - 1)) \o s[i]
         /\ FlattenSeq(SubSeq(s, i, Len(s))) = s[i] \o FlattenSeq(SubSeq(s, i + 1, Len(s)))
<1>1. Len(s) \in Nat /\ s[i] \in Seq(S) /\ <<s[i]>> \in Seq(Seq(S))
  OBVIOUS
<1>2. FlattenSeq(<<s[i]>>) = s[i]
  BY <1>1, FlattenOne
<1>3. SubSeq(s, 1, i) = SubSeq(s, 1, i - 1) \o <<s[i]>>
  BY <1>1, SubSeqRecursiveSecond
<1>4. SubSeq(s, i, Len(s)) = <<s[i]>> \o SubSeq(s, i + 1, Len(s))
  BY <1>1, SubSeqRecursiveFirst
<1>5. SubSeq(s, 1, i - 1) \in Seq(Seq(S)) /\ SubSeq(s, i + 1, Len(s)) \in Seq(Seq(S))
  BY <1>1, SubSeqProperties
<1> DEFINE a == SubSeq(s, 1, i - 1)  b == SubSeq(s, i + 1, Len(s))  one == <<s[i]>>
<1>6. a \in Seq(Seq(S)) /\ b \in Seq(Seq(S)) /\ one \in Seq(Seq(S)) /\ FlattenSeq(one) = s[i]
  BY <1>1, <1>2, <1>5
<1> HIDE DEF a, b, one
<1>7. FlattenSeq(a) \in Seq(S) /\ FlattenSeq(a \o one) = FlattenSeq(a) \o FlattenSeq(one)
  BY <1>6, FlattenConcat, Zenon
<1>8. FlattenSeq(one) \in Seq(S) /\ FlattenSeq(one \o b) = FlattenSeq(one) \o FlattenSeq(b)
  BY <1>6, FlattenConcat, Zenon
<1> QED  BY <1>3, <1>4, <1>6, <1>7, <1>8 DEF a, b, one

\* What the parts up to i come to is the beginning of what all of them come to.
LEMMA FlattenSplit ==
  ASSUME NEW S, NEW s \in Seq(Seq(S)), NEW i \in 0 .. Len(s)
  PROVE  /\ FlattenSeq(s) = FlattenSeq(SubSeq(s, 1, i)) \o FlattenSeq(SubSeq(s, i + 1, Len(s)))
         /\ FlattenSeq(SubSeq(s, 1, i)) \in Seq(S) 
         /\ FlattenSeq(SubSeq(s, i + 1, Len(s))) \in Seq(S) 
<1>1. Len(s) \in Nat
  OBVIOUS
<1>2. SubSeq(s, 1, i) \in Seq(Seq(S)) /\ SubSeq(s, i + 1, Len(s)) \in Seq(Seq(S))
  BY <1>1, SubSeqProperties
<1>3. s = SubSeq(s, 1, i) \o SubSeq(s, i + 1, Len(s))
  <2>1. SubSeq(s, 1, Len(s)) = s
    BY SubSeqFull
  <2>2. 1 \in 1 .. Len(s) + 1 /\ i \in 1 - 1 .. Len(s) /\ Len(s) \in i .. Len(s)
    BY <1>1
  <2> QED  BY <2>1, <2>2, ConcatAdjacentSubSeq, Zenon
<1> QED  BY <1>2, <1>3, FlattenConcat

-----------------------------------------------------------------------------
(* The bytes of a frame in a row.                                            *)

\* The bytes after a up to b of frame i.
Span(i, a, b) == [j \in 1 .. b - a |-> <<i, a + j>>]
Bytes == Nat \X Int

LEMMA SpanListed ==
  ASSUME NEW i \in Nat, NEW a \in Int, NEW b \in Int, a <= b
  PROVE  /\ Span(i, a, b) \in Seq(Bytes) /\ Len(Span(i, a, b)) = b - a
         /\ \A j \in 1 .. b - a : Span(i, a, b)[j] = <<i, a + j>>
<1>1. b - a \in Nat
  OBVIOUS
<1>2. \A j \in 1 .. b - a : <<i, a + j>> \in Bytes
  BY DEF Bytes
<1> DEFINE n == b - a
<1>3. n \in Nat /\ \A j \in 1 .. n : <<i, a + j>> \in Bytes
  BY <1>1, <1>2
<1> HIDE DEF n
<1>4. /\ [j \in 1 .. n |-> <<i, a + j>>] \in Seq(Bytes)
      /\ Len([j \in 1 .. n |-> <<i, a + j>>]) = n
      /\ \A j \in 1 .. n : [l \in 1 .. n |-> <<i, a + l>>][j] = <<i, a + j>>
  BY <1>3
<1> QED  BY <1>4 DEF Span, n

LEMMA SpanEmpty ==
  ASSUME NEW i \in Nat, NEW a \in Int
  PROVE  Span(i, a, a) = <<>>
<1>1. Span(i, a, a) \in Seq(Bytes) /\ Len(Span(i, a, a)) = 0
  <2>1. a <= a /\ a - a = 0
    OBVIOUS
  <2> QED  BY <2>1, SpanListed
<1> QED  BY <1>1, EmptySeq

LEMMA SpanInside ==
  ASSUME NEW i \in Nat, NEW a \in Int, NEW b \in Int, a <= b, NEW n \in 0 .. b - a
  PROVE  Span(i, a, b) \in Seq(Bytes) /\ Span(i, a + n, b) \in Seq(Bytes)
<1>1. a + n \in Int /\ a + n <= b
  OBVIOUS
<1> QED  BY <1>1, SpanListed

LEMMA SpanOfLength ==
  ASSUME NEW i \in Nat, NEW a \in Int, NEW n \in Nat
  PROVE  /\ Span(i, a, a + n) \in Seq(Bytes) /\ Len(Span(i, a, a + n)) = n
         /\ \A j \in 1 .. n : Span(i, a, a + n)[j] = <<i, a + j>>
<1> DEFINE b == a + n
<1>1. b \in Int /\ a <= b /\ b - a = n
  OBVIOUS
<1> HIDE DEF b
<1>2. /\ Span(i, a, b) \in Seq(Bytes) /\ Len(Span(i, a, b)) = n
      /\ \A j \in 1 .. n : Span(i, a, b)[j] = <<i, a + j>>
  BY <1>1, SpanListed
<1> QED  BY <1>2 DEF b

LEMMA SpanConcat ==
  ASSUME NEW i \in Nat, NEW a \in Int, NEW b \in Int, NEW d \in Int, a <= b, b <= d
  PROVE  Span(i, a, b) \o Span(i, b, d) = Span(i, a, d)
<1> DEFINE s == Span(i, a, b)
           t == Span(i, b, d)
           u == Span(i, a, d)
<1>0. a <= d
  OBVIOUS
<1>1. /\ s \in Seq(Bytes) /\ Len(s) = b - a /\ \A j \in 1 .. b - a : s[j] = <<i, a + j>>
      /\ t \in Seq(Bytes) /\ Len(t) = d - b /\ \A j \in 1 .. d - b : t[j] = <<i, b + j>>
      /\ u \in Seq(Bytes) /\ Len(u) = d - a /\ \A j \in 1 .. d - a : u[j] = <<i, a + j>>
  BY <1>0, SpanListed
<1> HIDE DEF s, t, u
<1>2. /\ s \o t \in Seq(Bytes) /\ Len(s \o t) = Len(s) + Len(t)
      /\ \A j \in 1 .. Len(s) + Len(t) : (s \o t)[j] = IF j <= Len(s) THEN s[j] ELSE t[j - Len(s)]
  BY <1>1, ConcatProperties
<1>3. Len(s \o t) = d - a /\ Len(s) = b - a /\ Len(t) = d - b /\ Len(s) + Len(t) = d - a
  <2>1. (b - a) + (d - b) = d - a
    OBVIOUS
  <2> QED  BY <1>1, <1>2, <2>1
<1>4. ASSUME NEW j \in 1 .. d - a PROVE (s \o t)[j] = u[j]
  <2>1. CASE j <= b - a
    <3>1. j \in 1 .. b - a
      BY <2>1
    <3>2. (s \o t)[j] = s[j]
      BY <1>2, <1>3, <2>1
    <3> QED  BY <1>1, <3>1, <3>2
  <2>2. CASE ~(j <= b - a)
    <3>1. j - (b - a) \in 1 .. d - b /\ b + (j - (b - a)) = a + j
      BY <2>2
    <3>2. (s \o t)[j] = t[j - (b - a)]
      BY <1>2, <1>3, <2>2
    <3> QED  BY <1>1, <3>1, <3>2
  <2> QED  BY <2>1, <2>2
<1>5. s \o t = u
  BY <1>1, <1>2, <1>3, <1>4, SeqEqual
<1> QED  BY <1>5 DEF s, t, u

\* What of a frame is read next, before t, and what is left of it.
Taken(i, a, b, n, t) ==
  /\ First(Span(i, a, b) \o t, n) = Span(i, a, a + n)
  /\ Rest(Span(i, a, b) \o t, n) = Span(i, a + n, b) \o t

LEMMA SpanTaken ==
  ASSUME NEW i \in Nat, NEW a \in Int, NEW b \in Int, a <= b, NEW n \in 0 .. b - a,
         NEW t \in Seq(Bytes)
  PROVE  Taken(i, a, b, n, t)
<1> DEFINE s == Span(i, a, a + n)
           u == Span(i, a + n, b)
           r == u \o t
           w == s \o r
<1>0. a + n \in Int /\ a <= a + n /\ a + n <= b /\ (a + n) - a = n
  OBVIOUS
<1>1. /\ s \in Seq(Bytes) /\ Len(s) = n /\ \A j \in 1 .. n : s[j] = <<i, a + j>>
      /\ u \in Seq(Bytes)
  <2>1. /\ Span(i, a, a + n) \in Seq(Bytes) /\ Len(Span(i, a, a + n)) = (a + n) - a
        /\ \A j \in 1 .. (a + n) - a : Span(i, a, a + n)[j] = <<i, a + j>>
    BY <1>0, SpanListed
  <2>2. Span(i, a + n, b) \in Seq(Bytes)
    BY <1>0, SpanListed
  <2> QED  BY <1>0, <2>1, <2>2
<1>2. Span(i, a, b) \o t = w
  <2>1. Span(i, a, b) = s \o u
    BY <1>0, SpanConcat
  <2> HIDE DEF s, u
  <2>2. (s \o u) \o t = s \o (u \o t)
    BY <1>1, ConcatAssociative, SMTT(60)
  <2> QED  BY <2>1, <2>2
<1> HIDE DEF u
<1>3. r \in Seq(Bytes) /\ Len(r) \in Nat
  BY <1>1, ConcatProperties
<1> HIDE DEF r
<1>4. /\ w \in Seq(Bytes) /\ Len(w) = n + Len(r)
      /\ \A j \in 1 .. n + Len(r) : w[j] = IF j <= n THEN s[j] ELSE r[j - n]
  <2> HIDE DEF s
  <2> QED  BY <1>1, <1>3, ConcatProperties
<1>5. First(w, n) = Span(i, a, a + n)
  <2>1. \A j \in 1 .. n : w[j] = <<i, a + j>>
    BY <1>1, <1>3, <1>4, SMTT(30)
  <2>2. (a + n) - a = n
    OBVIOUS
  <2> HIDE DEF w, s
  <2> QED  BY <2>1, <2>2 DEF First, Span
<1> HIDE DEF w, s
<1>6. Rest(w, n) = r
  <2> DEFINE v == SubSeq(w, n + 1, Len(w))
  <2>1. \A j \in n + 1 .. Len(w) : w[j] \in Bytes
    BY <1>3, <1>4
  <2>2. /\ v \in Seq(Bytes) /\ Len(v) = Len(r)
        /\ \A j \in 1 .. Len(r) : v[j] = w[n + j]
    <3>1. n + 1 \in Int /\ Len(w) \in Int /\ Len(w) - (n + 1) + 1 = Len(r)
      BY <1>3, <1>4
    <3>2. /\ v \in Seq(Bytes) /\ Len(v) = IF n + 1 <= Len(w) THEN Len(w) - (n + 1) + 1 ELSE 0
          /\ \A j \in 1 .. Len(w) - (n + 1) + 1 : v[j] = w[(n + 1) + j - 1]
      BY <2>1, <3>1, SubSeqProperties
    <3> HIDE DEF v
    <3>3. Len(v) = Len(r)
      BY <1>3, <1>4, <3>2
    <3>4. \A j \in 1 .. Len(r) : (n + 1) + j - 1 = n + j
      BY <1>3
    <3> QED  BY <3>1, <3>2, <3>3, <3>4
  <2>3. \A j \in 1 .. Len(r) : v[j] = r[j]
    <3>1. \A j \in 1 .. Len(r) : n + j \in 1 .. n + Len(r) /\ ~(n + j <= n) /\ (n + j) - n = j
      BY <1>3
    <3> HIDE DEF v
    <3> QED  BY <1>4, <2>2, <3>1
  <2> HIDE DEF v
  <2>4. v = r
    BY <1>3, <2>2, <2>3, SeqEqual
  <2> QED  BY <2>4 DEF v, Rest
<1> QED  BY <1>2, <1>5, <1>6 DEF r, u, Taken

LEMMA SpanParts ==
  ASSUME NEW i \in Nat, NEW a \in Int, NEW b \in Int, a <= b, NEW n \in 0 .. b - a
  PROVE  /\ First(Span(i, a, b), n) = Span(i, a, a + n)
         /\ Rest(Span(i, a, b), n) = Span(i, a + n, b)
<1>1. <<>> \in Seq(Bytes)
  OBVIOUS
<1>2. Span(i, a, b) \o <<>> = Span(i, a, b) /\ Span(i, a + n, b) \o <<>> = Span(i, a + n, b)
  <2>1. Span(i, a, b) \in Seq(Bytes) /\ Span(i, a + n, b) \in Seq(Bytes)
    BY SpanInside
  <2> QED  BY <2>1, ConcatEmptySeq
<1>3. /\ First(Span(i, a, b) \o <<>>, n) = Span(i, a, a + n)
      /\ Rest(Span(i, a, b) \o <<>>, n) = Span(i, a + n, b) \o <<>>
  <2>1. Taken(i, a, b, n, <<>>)
    BY <1>1, SpanTaken
  <2> QED  BY <2>1 DEF Taken
<1> QED  BY <1>2, <1>3

\* More of a frame after what came of it already.
LEMMA SpanAfter ==
  ASSUME NEW i \in Nat, NEW a \in Int, NEW b \in Int, NEW d \in Int, a <= b, b <= d,
         NEW s \in Seq(Bytes)
  PROVE  (s \o Span(i, a, b)) \o Span(i, b, d) = s \o Span(i, a, d)
<1> DEFINE t == Span(i, a, b)
           u == Span(i, b, d)
<1>1. t \in Seq(Bytes) /\ u \in Seq(Bytes)
  BY SpanListed
<1>2. t \o u = Span(i, a, d)
  BY SpanConcat
<1> HIDE DEF t, u
<1>3. (s \o t) \o u = s \o (t \o u)
  BY <1>1, ConcatAssociative, SMTT(60)
<1> QED  BY <1>2, <1>3 DEF t, u

LEMMA SpanBegun ==
  ASSUME NEW i \in Nat, NEW b \in Nat, NEW d \in Nat, b <= d, NEW s \in Seq(Bytes)
  PROVE  (s \o Span(i, 0, b)) \o Span(i, b, d) = s \o Span(i, 0, d)
<1>1. 0 <= b /\ 0 \in Int /\ b \in Int /\ d \in Int
  OBVIOUS
<1>2. ASSUME NEW x \in Int, NEW y \in Int, NEW z \in Int, x <= y, y <= z, NEW t \in Seq(Bytes)
      PROVE  (t \o Span(i, x, y)) \o Span(i, y, z) = t \o Span(i, x, z)
  BY <1>2, SpanAfter, SMTT(60)
<1> QED  BY <1>1, <1>2

-----------------------------------------------------------------------------
(* The decoder's arithmetic, for a frame it can receive.                     *)

\* Data of f, if the opcode op stands for text, is Base64 in whole groups.
Grouped(op, f) == op = "text" => f.len % 4 = 0 /\ (f.pad = 0 \/ f.len > 0)

\* How many bytes the first n bytes of payload of f decode to.
Decoded(op, f, n) ==
  CASE op = "text" -> IF 3 * (n \div 4) < 3 * (f.len \div 4) - f.pad
                        THEN 3 * (n \div 4) ELSE 3 * (f.len \div 4) - f.pad
    [] op = "binary" -> n
    [] OTHER -> 0

LEMMA ReceivableFrame ==
  ASSUME frames \in Traffic, Receivable(frames), NEW i \in 1 .. Len(frames)
  PROVE  /\ Len(frames) \in Nat /\ i \in Nat
         /\ frames[i] \in Frame /\ frames[i].op \in Opcodes
         /\ frames[i].len \in Nat /\ frames[i].len < Wide /\ frames[i].pad \in 0 .. 2
         /\ HeaderLen(frames[i]) \in 1 .. 14
         /\ i < Len(frames) => HeaderLen(frames[i]) + frames[i].len >= 14
<1>1. Len(frames) \in Nat /\ frames[i] \in Frame
  BY FramesTyped
<1>2. HeaderLen(frames[i]) \in 1 .. 14
  BY <1>1, HeaderLength
<1>3. frames[i].op \in Opcodes /\ frames[i].len \in Nat /\ frames[i].pad \in 0 .. 2
  BY <1>1 DEF Frame
<1>4. frames[i].len < Wide /\ (i < Len(frames) => HeaderLen(frames[i]) + frames[i].len >= 14)
  BY DEF Receivable, WSHLENMAX
<1> QED  BY <1>1, <1>2, <1>3, <1>4

LEMMA DecodedBounds ==
  ASSUME NEW op, NEW f \in Frame, Grouped(op, f), NEW n \in 0 .. f.len
  PROVE  /\ Decoded(op, f, n) \in Nat /\ Decoded(op, f, n) <= Decoded(op, f, f.len)
         /\ Decoded(op, f, f.len) \in Nat /\ Decoded(op, f, f.len) <= f.len
         /\ Decoded(op, f, 0) = 0
<1> DEFINE l == f.len
           d == f.pad
<1>1. l \in Nat /\ d \in 0 .. 2 /\ n \in 0 .. l
  BY DEF Frame
<1>2. CASE op = "text"
  <2>1. l % 4 = 0 /\ (d = 0 \/ l > 0)
    BY <1>2 DEF Grouped
  <2> DEFINE e(m) == IF 3 * (m \div 4) < 3 * (l \div 4) - d THEN 3 * (m \div 4) ELSE 3 * (l \div 4) - d
  <2>2. \A m : Decoded(op, f, m) = e(m)
    BY <1>2 DEF Decoded
  <2> HIDE DEF l, d
  <2>3. n \in Nat /\ n <= l
    BY <1>1
  <2>4. l \div 4 \in Nat /\ l = 4 * (l \div 4) /\ n \div 4 \in Nat /\ n \div 4 <= l \div 4 /\ 0 \div 4 = 0
    BY <1>1, <2>1, <2>3
  <2>5. 3 * (l \div 4) - d \in Nat
    BY <1>1, <2>1, <2>4
  <2>6. e(n) \in Nat /\ e(n) <= e(l) /\ e(l) \in Nat /\ e(l) <= l /\ e(0) = 0
    BY <1>1, <2>4, <2>5
  <2> QED  BY <2>2, <2>6 DEF l
<1>3. CASE op = "binary"
  BY <1>1, <1>3 DEF Decoded
<1>4. CASE op \notin {"text", "binary"}
  BY <1>1, <1>4 DEF Decoded
<1> QED  BY <1>2, <1>3, <1>4

LEMMA DecodedMonotonic ==
  ASSUME NEW op, NEW f \in Frame, Grouped(op, f), NEW n \in Nat, NEW m \in Nat, n <= m, m <= f.len
  PROVE  Decoded(op, f, n) <= Decoded(op, f, m)
<1> DEFINE l == f.len
           d == f.pad
<1>1. l \in Nat /\ d \in 0 .. 2
  BY DEF Frame
<1>2. CASE op = "text"
  <2> DEFINE e(x) == IF 3 * (x \div 4) < 3 * (l \div 4) - d THEN 3 * (x \div 4) ELSE 3 * (l \div 4) - d
  <2>1. \A x : Decoded(op, f, x) = e(x)
    BY <1>2 DEF Decoded
  <2> HIDE DEF l, d
  <2>2. n \div 4 \in Nat /\ m \div 4 \in Nat /\ n \div 4 <= m \div 4 /\ l \div 4 \in Nat
    BY <1>1
  <2>3. e(n) <= e(m)
    BY <1>1, <2>2
  <2> QED  BY <2>1, <2>3
<1>3. CASE op = "binary"
  BY <1>3 DEF Decoded
<1>4. CASE op \notin {"text", "binary"}
  BY <1>4 DEF Decoded
<1> QED  BY <1>2, <1>3, <1>4

\* As long as less than the whole frame was read, hybiRemaining does not wrap.
LEMMA RemainingExact ==
  ASSUME frames \in Traffic, Receivable(frames), current \in 1 .. Len(frames),
         NEW read \in 0 .. frames[current].len
  PROVE  Remaining(read) = frames[current].len - read
<1> DEFINE l == frames[current].len
<1>1. l \in Nat /\ l < Wide /\ Wide \in Nat /\ read \in 0 .. l
  BY ReceivableFrame, DecoderAssumption
<1>2. Remaining(read) = ((Wide + l) - read) % Wide
  BY DEF Remaining
<1> HIDE DEF l
<1> DEFINE x == l - read
<1>3. x \in 0 .. Wide - 1 /\ (Wide + l) - read = Wide + x
  BY <1>1
<1> HIDE DEF x
<1>4. (Wide + x) % Wide = x
  BY <1>1, <1>3
<1> QED  BY <1>2, <1>3, <1>4 DEF x, l

-----------------------------------------------------------------------------
(* Unmasking and decoding a block of payload.                                *)

LEMMA UnmaskedBlock ==
  ASSUME current \in Nat \ {0}, NEW q \in Nat, NEW w \in Nat, q % 4 = 0
  PROVE  Unmasked(Span(current, q, q + w)) = Span(current, q, q + w)
<1> DEFINE b == Span(current, q, q + w)
<1>1. b \in Seq(Bytes) /\ Len(b) = w /\ \A j \in 1 .. w : b[j] = <<current, q + j>>
  <2>1. current \in Nat /\ q \in Int
    OBVIOUS
  <2> QED  BY <2>1, SpanOfLength, Zenon
<1>2. b = [j \in 1 .. w |-> <<current, q + j>>]
  <2>1. (q + w) - q = w
    OBVIOUS
  <2> QED  BY <2>1 DEF Span
<1> HIDE DEF b
<1>3. ASSUME NEW j \in 1 .. w
      PROVE  (IF b[j][1] = current /\ b[j][2] >= 1 /\ ((b[j][2] - j) % 4) = 0
                THEN b[j] ELSE Garbage) = <<current, q + j>>
  <2>1. b[j] = <<current, q + j>> /\ (q + j) - j = q /\ q + j >= 1
    BY <1>1
  <2> QED  BY <2>1
<1>4. Unmasked(b) = [j \in 1 .. w |-> <<current, q + j>>]
  BY <1>1, <1>3 DEF Unmasked
<1> QED  BY <1>2, <1>4 DEF b

LEMMA PayloadOfBlock ==
  ASSUME frames \in Traffic, current \in 1 .. Len(frames), NEW op, Grouped(op, frames[current]),
         NEW q \in Nat, NEW w \in Nat, q % 4 = 0, q + w <= frames[current].len,
         w % 4 = 0 \/ q + w = frames[current].len
  PROVE  Payload(op, Unmasked(Span(current, q, q + w)))
         = Span(current, Decoded(op, frames[current], q), Decoded(op, frames[current], q + w))
<1> DEFINE f == frames[current]
           b == Span(current, q, q + w)
           a == Decoded(op, f, q)
           z == Decoded(op, f, q + w)
<1>1. current \in Nat \ {0} /\ f \in Frame /\ f.len \in Nat /\ f.pad \in 0 .. 2
  BY FramesTyped DEF Frame
<1>2. Unmasked(b) = b
  BY <1>1, UnmaskedBlock
<1>3. q \in 0 .. f.len /\ q + w \in 0 .. f.len
  BY <1>1
<1>4. a \in Nat /\ z \in Nat
  BY <1>1, <1>3, DecodedBounds
<1>5. CASE op = "text"
  <2> DEFINE l == f.len
             d == f.pad
             total == 3 * (l \div 4) - d
  <2>1. l \in Nat /\ d \in 0 .. 2 /\ l % 4 = 0 /\ (d = 0 \/ l > 0) /\ q + w <= l
    BY <1>1, <1>5 DEF Grouped
  <2>2. /\ a = IF 3 * (q \div 4) < total THEN 3 * (q \div 4) ELSE total
        /\ z = IF 3 * ((q + w) \div 4) < total THEN 3 * ((q + w) \div 4) ELSE total
    BY <1>5 DEF Decoded
  <2>3. w % 4 = 0
    <3> HIDE DEF l
    <3> QED  BY <2>1 DEF l
  <2>4. Payload(op, b) = Base64(b)
    BY <1>5 DEF Payload
  <2>5. CASE w = 0
    <3>1. q + w = q
      BY <2>5
    <3>2. b = <<>> /\ Span(current, a, z) = <<>>
      BY <1>1, <1>4, <3>1, SpanEmpty
    <3> QED  BY <1>2, <2>4, <3>2 DEF Base64
  <2>6. CASE w # 0
    <3>1. /\ b \in Seq(Bytes) /\ Len(b) = w /\ DOMAIN b = 1 .. w
          /\ \A j \in 1 .. w : b[j] = <<current, q + j>>
      <4>1. b \in Seq(Bytes) /\ Len(b) = w /\ \A j \in 1 .. w : b[j] = <<current, q + j>>
        <5>1. current \in Nat /\ q \in Int
          BY <1>1
        <5> QED  BY <5>1, SpanOfLength, Zenon
      <4> HIDE DEF b
      <4> QED  BY <4>1, LenProperties
    <3>2. b # <<>> /\ Garbage \notin Range(b)
      <4>1. \A j \in 1 .. w : b[j] # Garbage
        BY <1>1, <3>1 DEF Garbage
      <4>2. Len(b) # 0
        BY <2>6, <3>1
      <4> HIDE DEF b
      <4> QED  BY <3>1, <4>1, <4>2 DEF Range
    <3> DEFINE first == 3 * (b[1][2] \div 4)
               last  == first + 3 * (Len(b) \div 4)
    <3>3. Base64(b) = [j \in 1 .. (IF last < total THEN last ELSE total) - first |-> <<current, first + j>>]
      <4>1. ~(b = <<>> \/ Garbage \in Range(b) \/ Len(b) % 4 # 0)
        BY <2>3, <3>1, <3>2
      <4> HIDE DEF b
      <4> QED  BY <4>1 DEF Base64
    <3>4. b[1] = <<current, q + 1>>
      BY <2>6, <3>1
    <3>5. first = 3 * (q \div 4) /\ last = 3 * ((q + w) \div 4)
      <4>1. b[1][2] = q + 1 /\ Len(b) = w
        BY <3>1, <3>4
      <4> HIDE DEF b
      <4>2. (q + 1) \div 4 = q \div 4 /\ (q + w) \div 4 = q \div 4 + w \div 4
        BY <2>3
      <4> QED  BY <4>1, <4>2
    <3>6. 3 * (q \div 4) < total
      <4> HIDE DEF l, d
      <4>1. q \div 4 \in Nat /\ l \div 4 \in Nat /\ q \div 4 < l \div 4
        BY <2>1, <2>3, <2>6
      <4> QED  BY <2>1, <4>1
    <3>7. a = first /\ z = IF last < total THEN last ELSE total
      <4> HIDE DEF total, first, last, a, z
      <4> QED  BY <2>2, <3>5, <3>6
    <3> HIDE DEF first, last, total, b, a, z
    <3>8. Base64(b) = [j \in 1 .. z - a |-> <<current, a + j>>]
      BY <3>3, <3>7
    <3> QED  BY <1>2, <2>4, <3>8 DEF Span, b, a, z
  <2> QED  BY <2>5, <2>6
<1>6. CASE op = "binary"
  BY <1>2, <1>6 DEF Payload, Decoded
<1>7. CASE op \notin {"text", "binary"}
  <2>1. Payload(op, b) = <<>>
    BY <1>7 DEF Payload
  <2>2. Span(current, a, z) = <<>>
    BY <1>1, <1>7, SpanEmpty DEF Decoded
  <2> QED  BY <1>2, <2>1, <2>2
<1> QED  BY <1>5, <1>6, <1>7

-----------------------------------------------------------------------------
(* Where frames begin and end: the bytes from a frame on, and the data that   *)
(* was promised before it.                                                    *)

Wires == [i \in 1 .. Len(frames) |-> Wire(i)]
Parts == [i \in 1 .. Len(frames) |->
            IF IsData(i) /\ (\A e \in Ends : i < e) THEN Content(i) ELSE <<>>]

\* The bytes of the frames from i on.
Unread(i) == FlattenSeq(SubSeq(Wires, i, Len(frames)))
\* The data of the frames before i.
Delivered(i) == FlattenSeq(SubSeq(Parts, 1, i - 1))

LEMMA PlacesAreBytes == Seq(Places) \subseteq Seq(Bytes)
<1>1. Places \subseteq Bytes
  <2>1. \A p \in Places : p \in Bytes
    BY DecoderAssumption DEF Places, Bytes, WSHLENMAX
  <2> QED  BY <2>1
<1> QED  BY <1>1, SeqMonotonic

LEMMA SpanPlaced ==
  ASSUME frames \in Traffic, NEW i \in 1 .. Len(frames), NEW a \in Int, NEW b \in Int,
         -14 <= a, a <= b, b < Wide
  PROVE  Span(i, a, b) \in Seq(Places)
<1>1. Len(frames) \in Nat /\ Wide \in Nat /\ i \in Nat
  BY FramesTyped, DecoderAssumption
<1> DEFINE n == b - a
<1>2. n \in Nat
  OBVIOUS
<1>3. \A j \in 1 .. n : <<i, a + j>> \in Places
  <2>1. ASSUME NEW j \in 1 .. n PROVE a + j \in 1 - 14 .. Wide - 1 /\ i \in 0 .. Len(frames)
    BY <1>1, <1>2
  <2> QED  BY <2>1 DEF Places, WSHLENMAX
<1> HIDE DEF n
<1>4. [j \in 1 .. n |-> <<i, a + j>>] \in Seq(Places)
  BY <1>2, <1>3
<1> QED  BY <1>4 DEF Span, n

LEMMA WireIsSpan ==
  ASSUME frames \in Traffic, Receivable(frames), NEW i \in 1 .. Len(frames)
  PROVE  /\ Wire(i) = Span(i, -HeaderLen(frames[i]), frames[i].len)
         /\ Wire(i) \in Seq(Places)
<1> DEFINE h == HeaderLen(frames[i])
           l == frames[i].len
<1>1. h \in 1 .. 14 /\ l \in Nat /\ l < Wide /\ i \in Nat
  BY ReceivableFrame
<1>2. Wire(i) = [o \in 1 .. h + l |-> <<i, o - h>>]
  BY DEF Wire
<1> HIDE DEF h, l
<1>3. l - (-h) = h + l /\ \A o \in 1 .. h + l : o - h = (-h) + o
  BY <1>1
<1>4. Wire(i) = Span(i, -h, l)
  BY <1>2, <1>3 DEF Span
<1>5. Span(i, -h, l) \in Seq(Places)
  <2>1. -h \in Int /\ l \in Int /\ -14 <= -h /\ -h <= l
    BY <1>1
  <2> QED  BY <1>1, <2>1, SpanPlaced
<1> QED  BY <1>4, <1>5 DEF h, l

\* Wherever it comes from, the data of a frame is a row of its bytes.
LEMMA ContentIsSpan ==
  ASSUME frames \in Traffic, Receivable(frames), NEW i \in 1 .. Len(frames)
  PROVE  \E n \in 0 .. frames[i].len : Content(i) = Span(i, 0, n)
<1> DEFINE f == frames[i]
           g == [f EXCEPT !.op = frames[Beginning(i)].op]
           d == Data(g)
           n == IF d < 0 THEN 0 ELSE d
<1>1. f.len \in Nat /\ f.pad \in 0 .. 2 /\ f \in Frame
  BY ReceivableFrame
<1>2. g.len = f.len /\ g.pad = f.pad
  BY <1>1 DEF Frame
<1>3. d = IF g.op = "text" THEN 3 * (f.len \div 4) - f.pad ELSE f.len
  <2> HIDE DEF g
  <2> QED  BY <1>2 DEF Data
<1>4. d \in Int /\ d <= f.len
  <2> DEFINE l == f.len
             p == f.pad
  <2> HIDE DEF l, p, d
  <2>1. l \in Nat /\ p \in 0 .. 2
    BY <1>1 DEF l, p
  <2>2. 3 * (l \div 4) - p \in Int /\ 3 * (l \div 4) - p <= l
    BY <2>1
  <2> QED  BY <1>3, <2>1, <2>2 DEF l, p
<1>5. Content(i) = [j \in 1 .. d |-> <<i, j>>]
  BY DEF Content
<1> HIDE DEF d
<1>6. n \in 0 .. f.len /\ 1 .. d = 1 .. n - 0 /\ \A j \in 1 .. d : 0 + j = j
  BY <1>1, <1>4
<1>7. Content(i) = Span(i, 0, n)
  <2> HIDE DEF n
  <2> QED  BY <1>5, <1>6 DEF Span
<1> QED  BY <1>6, <1>7

LEMMA PartsPlaced ==
  ASSUME frames \in Traffic, Receivable(frames)
  PROVE  /\ Wires \in Seq(Seq(Places)) /\ Len(Wires) = Len(frames)
         /\ Parts \in Seq(Seq(Places)) /\ Len(Parts) = Len(frames)
         /\ \A i \in 1 .. Len(frames) : Wires[i] = Wire(i)
<1>1. Len(frames) \in Nat
  BY FramesTyped
<1>2. \A i \in 1 .. Len(frames) : Wire(i) \in Seq(Places)
  BY WireIsSpan
<1>3. ASSUME NEW i \in 1 .. Len(frames)
      PROVE  (IF IsData(i) /\ (\A e \in Ends : i < e) THEN Content(i) ELSE <<>>) \in Seq(Places)
  <2>1. PICK n \in 0 .. frames[i].len : Content(i) = Span(i, 0, n)
    BY ContentIsSpan
  <2>2. n \in Int /\ -14 <= 0 /\ 0 <= n /\ n < Wide
    BY ReceivableFrame, DecoderAssumption
  <2>3. Content(i) \in Seq(Places)
    BY <2>1, <2>2, SpanPlaced
  <2>4. <<>> \in Seq(Places)
    OBVIOUS
  <2> QED  BY <2>3, <2>4
<1>4. Wires \in Seq(Seq(Places)) /\ Len(Wires) = Len(frames)
  BY <1>1, <1>2 DEF Wires
<1>5. Parts \in Seq(Seq(Places)) /\ Len(Parts) = Len(frames)
  <2> DEFINE part(i) == IF IsData(i) /\ (\A e \in Ends : i < e) THEN Content(i) ELSE <<>>
  <2>1. \A i \in 1 .. Len(frames) : part(i) \in Seq(Places)
    BY <1>3
  <2> HIDE DEF part
  <2>2. /\ [i \in 1 .. Len(frames) |-> part(i)] \in Seq(Seq(Places))
        /\ Len([i \in 1 .. Len(frames) |-> part(i)]) = Len(frames)
    BY <1>1, <2>1
  <2> QED  BY <2>2 DEF Parts, part
<1>6. \A i \in 1 .. Len(frames) : Wires[i] = Wire(i)
  BY DEF Wires
<1> QED  BY <1>4, <1>5, <1>6

LEMMA UnreadParts ==
  ASSUME frames \in Traffic, Receivable(frames)
  PROVE  /\ \A i \in 1 .. Len(frames) : Unread(i) = Wire(i) \o Unread(i + 1)
         /\ Unread(Len(frames) + 1) = <<>> /\ Unread(1) = Stream
         /\ \A i \in 1 .. Len(frames) + 1 : Unread(i) \in Seq(Places)
<1>1. /\ Wires \in Seq(Seq(Places)) /\ Len(Wires) = Len(frames) /\ Len(frames) \in Nat
      /\ \A i \in 1 .. Len(frames) : Wires[i] = Wire(i)
  BY PartsPlaced, FramesTyped
<1>2. ASSUME NEW i \in 1 .. Len(frames) PROVE Unread(i) = Wire(i) \o Unread(i + 1)
  <2>1. i \in 1 .. Len(Wires)
    BY <1>1
  <2>2. FlattenSeq(SubSeq(Wires, i, Len(Wires))) = Wires[i] \o FlattenSeq(SubSeq(Wires, i + 1, Len(Wires)))
    BY <1>1, <2>1, FlattenParts
  <2> QED  BY <1>1, <2>2 DEF Unread
<1>3. Unread(Len(frames) + 1) = <<>>
  <2>1. SubSeq(Wires, Len(frames) + 1, Len(frames)) = <<>>
    BY <1>1, SubSeqEmpty
  <2> QED  BY <2>1, FlattenNone DEF Unread
<1>4. Unread(1) = Stream
  <2>1. SubSeq(Wires, 1, Len(Wires)) = Wires
    BY <1>1, SubSeqFull
  <2> QED  BY <1>1, <2>1 DEF Unread, Stream, Wires
<1>5. ASSUME NEW i \in 1 .. Len(frames) + 1 PROVE Unread(i) \in Seq(Places)
  <2>1. i - 1 \in 0 .. Len(Wires) /\ (i - 1) + 1 = i
    BY <1>1
  <2>2. FlattenSeq(SubSeq(Wires, (i - 1) + 1, Len(Wires))) \in Seq(Places)
    BY <1>1, <2>1, FlattenSplit
  <2> QED  BY <1>1, <2>1, <2>2 DEF Unread
<1> QED  BY <1>2, <1>3, <1>4, <1>5

LEMMA DeliveredParts ==
  ASSUME frames \in Traffic, Receivable(frames)
  PROVE  /\ \A i \in 1 .. Len(frames) : Delivered(i + 1) = Delivered(i) \o Parts[i] /\ Parts[i] \in Seq(Places)
         /\ Delivered(1) = <<>>
         /\ \A i \in 1 .. Len(frames) + 1 :
              Delivered(i) \in Seq(Places) /\ \E t \in Seq(Places) : Promised = Delivered(i) \o t
<1>1. Parts \in Seq(Seq(Places)) /\ Len(Parts) = Len(frames) /\ Len(frames) \in Nat
  BY PartsPlaced, FramesTyped
<1>2. ASSUME NEW i \in 1 .. Len(frames)
      PROVE  Delivered(i + 1) = Delivered(i) \o Parts[i] /\ Parts[i] \in Seq(Places)
  <2>1. i \in 1 .. Len(Parts) /\ (i + 1) - 1 = i
    BY <1>1
  <2>2. FlattenSeq(SubSeq(Parts, 1, i)) = FlattenSeq(SubSeq(Parts, 1, i - 1)) \o Parts[i]
    BY <1>1, <2>1, FlattenParts
  <2>3. Parts[i] \in Seq(Places)
    BY <1>1, <2>1
  <2> QED  BY <2>1, <2>2, <2>3 DEF Delivered
<1>3. Delivered(1) = <<>>
  <2>1. SubSeq(Parts, 1, 1 - 1) = <<>>
    BY SubSeqEmpty
  <2> QED  BY <2>1, FlattenNone DEF Delivered
<1>4. ASSUME NEW i \in 1 .. Len(frames) + 1
      PROVE  Delivered(i) \in Seq(Places) /\ \E t \in Seq(Places) : Promised = Delivered(i) \o t
  <2>1. i - 1 \in 0 .. Len(Parts)
    BY <1>1
  <2>2. /\ FlattenSeq(Parts) = FlattenSeq(SubSeq(Parts, 1, i - 1)) \o FlattenSeq(SubSeq(Parts, (i - 1) + 1, Len(Parts)))
        /\ FlattenSeq(SubSeq(Parts, 1, i - 1)) \in Seq(Places)
        /\ FlattenSeq(SubSeq(Parts, (i - 1) + 1, Len(Parts))) \in Seq(Places)
    BY <1>1, <2>1, FlattenSplit
  <2>3. Promised = FlattenSeq(Parts)
    BY DEF Promised, Parts
  <2> QED  BY <2>2, <2>3 DEF Delivered
<1> QED  BY <1>2, <1>3, <1>4

-----------------------------------------------------------------------------
(* Fragments.  What the decoder remembers of the message it is in is what the *)
(* frames before say.                                                         *)

\* A decoder before frame i takes a continuation for cont.
Fragment(i, cont) ==
  \/ cont = Invalid /\ \A j \in 1 .. i - 1 : ~Continues(i, j)
  \/ \E j \in 1 .. i - 1 : Continues(i, j) /\ cont = frames[j].op

\* What it remembers when frame i has ended.
Remembered(i, cont) ==
  IF frames[i].fin /\ ~IsControl(Opcode(frames[i], cont)) THEN Invalid
  ELSE Continuation(frames[i], cont)

LEMMA FragmentTyped ==
  ASSUME NEW i, NEW cont, Fragment(i, cont)
  PROVE  cont \in {"text", "binary", Invalid}
<1>1. CASE cont = Invalid
  BY <1>1
<1>2. CASE \E j \in 1 .. i - 1 : Continues(i, j) /\ cont = frames[j].op
  BY <1>2 DEF Continues, Starts
<1> QED  BY <1>1, <1>2 DEF Fragment

\* Only one frame can have begun the message.
LEMMA OneBeginning ==
  ASSUME NEW i \in Nat, NEW j \in Nat, NEW n \in Nat, Continues(i, j), Continues(i, n)
  PROVE  j = n
<1>1. j < i /\ n < i /\ frames[j].op \in {"text", "binary"} /\ frames[n].op \in {"text", "binary"}
  BY DEF Continues, Starts
<1>2. ASSUME NEW a \in Nat, NEW b \in Nat, a < b, b < i, Continues(i, a)
      PROVE  frames[b].op \notin {"text", "binary"}
  <2>1. b \in a + 1 .. i - 1
    BY <1>2
  <2>2. IsControl(frames[b].op) \/ frames[b].op = "continuation"
    BY <1>2, <2>1 DEF Continues
  <2> QED  BY <2>2 DEF IsControl
<1>3. ~(j < n)
  BY <1>1, <1>2
<1>4. ~(n < j)
  BY <1>1, <1>2
<1> QED  BY <1>3, <1>4

\* The bytes of the header may be looked at more than once.
LEMMA HeaderAgain ==
  ASSUME NEW f, NEW cont
  PROVE  /\ Opcode(f, Continuation(f, cont)) = Opcode(f, cont)
         /\ Continuation(f, Continuation(f, cont)) = Continuation(f, cont)
         /\ BadStart(f, Continuation(f, cont)) <=> BadStart(f, cont)
<1>1. CASE f.op = "continuation"
  BY <1>1 DEF Opcode, Continuation, BadStart, IsControl
<1>2. CASE IsControl(f.op)
  BY <1>2 DEF Opcode, Continuation, BadStart, IsControl
<1>3. CASE f.op # "continuation" /\ ~IsControl(f.op)
  BY <1>3 DEF Opcode, Continuation, BadStart
<1> QED  BY <1>1, <1>2, <1>3

\* A frame is refused exactly if it is not well-formed.
LEMMA RefusedIfBad ==
  ASSUME frames \in Traffic, NEW i \in 1 .. Len(frames), NEW cont, Fragment(i, cont)
  PROVE  WellFormed(i) <=> ~BadStart(frames[i], cont) /\ ~BadLength(frames[i])
<1>1. cont = Invalid <=> \A j \in 1 .. i - 1 : ~Continues(i, j)
  <2>1. CASE \E j \in 1 .. i - 1 : Continues(i, j) /\ cont = frames[j].op
    BY <2>1 DEF Continues, Starts, Invalid
  <2> QED  BY <2>1 DEF Fragment
<1>2. Len(frames) \in Nat
  BY FramesTyped
<1>3. (\E j \in 1 .. i : Continues(i, j)) <=> \E j \in 1 .. i - 1 : Continues(i, j)
  <2>1. ASSUME NEW j \in 1 .. i, Continues(i, j) PROVE j \in 1 .. i - 1
    <3>1. j < i
      BY <2>1 DEF Continues
    <3> QED  BY <1>2, <3>1
  <2> QED  BY <1>2, <2>1
<1>4. (\E j \in 1 .. i : Continues(i, j)) <=> cont # Invalid
  BY <1>1, <1>3
<1> HIDE DEF Invalid
<1> QED  BY <1>4 DEF WellFormed, BadStart

LEMMA FragmentNext ==
  ASSUME frames \in Traffic, NEW i \in 1 .. Len(frames), NEW cont, Fragment(i, cont), WellFormed(i)
  PROVE  Fragment(i + 1, Remembered(i, cont))
<1> DEFINE f == frames[i]
<1>1. f \in Frame /\ f.op \in Opcodes /\ f.fin \in BOOLEAN /\ i \in Nat /\ Len(frames) \in Nat
  BY FramesTyped DEF Frame
<1>2. ASSUME NEW j \in 1 .. i
      PROVE  Continues(i + 1, j) <=>
               \/ j = i /\ Starts(i) /\ ~f.fin
               \/ j < i /\ Continues(i, j) /\ (IsControl(f.op) \/ (f.op = "continuation" /\ ~f.fin))
  <2> DEFINE Inner(n) == IsControl(frames[n].op) \/ (frames[n].op = "continuation" /\ ~frames[n].fin)
  <2>1. Continues(i + 1, j) <=> Starts(j) /\ ~frames[j].fin /\ \A n \in j + 1 .. i : Inner(n)
    <3>1. j < i + 1 /\ (i + 1) - 1 = i
      BY <1>1
    <3> QED  BY <3>1 DEF Continues
  <2>2. Continues(i, j) <=> j < i /\ Starts(j) /\ ~frames[j].fin /\ \A n \in j + 1 .. i - 1 : Inner(n)
    BY DEF Continues
  <2>3. CASE j = i
    BY <1>1, <2>1, <2>3
  <2>4. CASE j < i
    <3>1. \A n : n \in j + 1 .. i <=> n \in j + 1 .. i - 1 \/ n = i
      BY <1>1, <2>4
    <3> HIDE DEF Inner
    <3>2. (\A n \in j + 1 .. i : Inner(n)) <=> (\A n \in j + 1 .. i - 1 : Inner(n)) /\ Inner(i)
      BY <3>1
    <3>3. j # i
      BY <1>1, <2>4
    <3> QED  BY <2>1, <2>2, <2>4, <3>2, <3>3 DEF Inner
  <2> QED  BY <1>1, <2>3, <2>4
<1>3. CASE Starts(i)
  <2>1. ~IsControl(f.op) /\ f.op # "continuation" /\ Opcode(f, cont) = f.op
    BY <1>3 DEF Starts, IsControl, Opcode
  <2>2. CASE f.fin
    <3>1. \A j \in 1 .. i : ~Continues(i + 1, j)
      BY <1>2, <2>1, <2>2
    <3> QED  BY <1>1, <2>1, <2>2, <3>1 DEF Fragment, Remembered
  <2>3. CASE ~f.fin
    <3>1. Continues(i + 1, i) /\ i \in 1 .. (i + 1) - 1
      BY <1>1, <1>2, <1>3, <2>3
    <3>2. Remembered(i, cont) = f.op
      BY <2>1, <2>3 DEF Remembered, Continuation
    <3> QED  BY <3>1, <3>2 DEF Fragment
  <2> QED  BY <2>2, <2>3
<1>4. CASE IsControl(f.op)
  <2>1. Remembered(i, cont) = cont /\ ~Starts(i)
    BY <1>4 DEF Remembered, Continuation, Opcode, IsControl, Starts
  <2>2. \A j \in 1 .. i : Continues(i + 1, j) <=> j < i /\ Continues(i, j)
    BY <1>2, <1>4, <2>1
  <2> QED  BY <1>1, <2>1, <2>2 DEF Fragment
<1>5. CASE f.op = "continuation" /\ ~f.fin
  <2>1. Remembered(i, cont) = cont /\ ~Starts(i)
    BY <1>5 DEF Remembered, Continuation, Starts
  <2>2. \A j \in 1 .. i : Continues(i + 1, j) <=> j < i /\ Continues(i, j)
    BY <1>2, <1>5, <2>1
  <2> QED  BY <1>1, <2>1, <2>2 DEF Fragment
<1>6. CASE f.op = "continuation" /\ f.fin
  <2>1. cont \in {"text", "binary"}
    BY <1>6, FragmentTyped, RefusedIfBad DEF BadStart
  <2>2. Remembered(i, cont) = Invalid /\ ~Starts(i) /\ ~IsControl(f.op)
    BY <1>6, <2>1 DEF Remembered, Opcode, Starts, IsControl
  <2>3. \A j \in 1 .. i : ~Continues(i + 1, j)
    BY <1>2, <1>6, <2>2
  <2> QED  BY <1>1, <2>2, <2>3 DEF Fragment
<1> QED  BY <1>1, <1>3, <1>4, <1>5, <1>6 DEF Opcodes, Starts, IsControl

\* What comes as text can be decoded.
LEMMA TextGrouped ==
  ASSUME frames \in Traffic, Receivable(frames), NEW i \in 1 .. Len(frames),
         NEW cont, Fragment(i, cont)
  PROVE  Grouped(Opcode(frames[i], cont), frames[i])
<1> DEFINE f == frames[i]
<1>1. SUFFICES ASSUME Opcode(f, cont) = "text" PROVE InBase64(frames, i)
  BY DEF Grouped, Receivable
<1>2. CASE f.op # "continuation"
  BY <1>1, <1>2 DEF Opcode, InBase64
<1>3. CASE f.op = "continuation"
  <2>1. cont = "text"
    BY <1>1, <1>3 DEF Opcode
  <2>2. PICK j \in 1 .. i - 1 : Continues(i, j) /\ cont = frames[j].op
    BY <2>1 DEF Fragment, Invalid
  <2>3. \A n \in j + 1 .. i - 1 : frames[n].op \notin {"text", "binary"}
    BY <2>2 DEF Continues, IsControl
  <2> QED  BY <1>3, <2>1, <2>2, <2>3 DEF InBase64
<1> QED  BY <1>2, <1>3

\* A frame that is taken contributes what its payload decodes to.
LEMMA PartOfFrame ==
  ASSUME frames \in Traffic, Receivable(frames), NEW i \in 1 .. Len(frames),
         NEW cont, Fragment(i, cont), WellFormed(i), \A e \in Ends : i <= e
  PROVE  Parts[i] = Span(i, 0, Decoded(Opcode(frames[i], cont), frames[i], frames[i].len))
<1> DEFINE f == frames[i]
           op == Opcode(f, cont)
<1>1. /\ f \in Frame /\ f.op \in Opcodes /\ i \in Nat /\ Len(frames) \in Nat
      /\ f.len \in Nat /\ f.pad \in 0 .. 2
  BY ReceivableFrame
<1>2. Parts[i] = IF IsData(i) /\ (\A e \in Ends : i < e) THEN Content(i) ELSE <<>>
  BY DEF Parts
<1>3. CASE IsControl(f.op)
  <2>1. ~IsData(i)
    BY <1>3 DEF IsData, Starts, IsControl
  <2>2. op \notin {"text", "binary"}
    BY <1>3 DEF Opcode, IsControl
  <2>3. Decoded(op, f, f.len) = 0
    <3> HIDE DEF op
    <3> QED  BY <2>2 DEF Decoded
  <2> QED  BY <1>1, <1>2, <2>1, <2>3, SpanEmpty
<1>4. CASE ~IsControl(f.op)
  <2>1. IsData(i)
    BY <1>1, <1>4 DEF IsData, Starts, Opcodes, IsControl
  <2>2. \A e \in Ends : i < e
    <3>1. i \notin Ends
      BY <1>4 DEF Ends, IsControl
    <3>2. \A e \in Ends : e \in Nat
      BY <1>1 DEF Ends
    <3> QED  BY <1>1, <3>1, <3>2
  <2>3. frames[Beginning(i)].op = op /\ op \in {"text", "binary"}
    <3>1. CASE Starts(i)
      BY <3>1 DEF Beginning, Opcode, Starts
    <3>2. CASE ~Starts(i)
      <4>1. f.op = "continuation" /\ op = cont
        BY <1>1, <1>4, <3>2 DEF Starts, Opcodes, IsControl, Opcode
      <4>2. cont # Invalid
        BY <4>1, RefusedIfBad DEF BadStart
      <4>3. PICK j \in 1 .. i - 1 : Continues(i, j) /\ cont = frames[j].op
        BY <4>2 DEF Fragment
      <4>4. j \in 1 .. i
        BY <1>1
      <4>5. Beginning(i) \in 1 .. i /\ Continues(i, Beginning(i))
        BY <3>2, <4>3, <4>4 DEF Beginning
      <4>6. Beginning(i) = j
        BY <1>1, <4>3, <4>5, OneBeginning
      <4> QED  BY <4>1, <4>3, <4>6 DEF Continues, Starts
    <3> QED  BY <3>1, <3>2
  <2> DEFINE g == [f EXCEPT !.op = op]
             d == Decoded(op, f, f.len)
  <2>4. g.len = f.len /\ g.pad = f.pad /\ g.op = op
    BY <1>1 DEF Frame
  <2>5. Content(i) = [j \in 1 .. Data(g) |-> <<i, j>>]
    BY <2>3 DEF Content
  <2>6. Data(g) = d
    <3>1. Data(g) = IF op = "text" THEN 3 * (f.len \div 4) - f.pad ELSE f.len
      <4> HIDE DEF g
      <4> QED  BY <2>4 DEF Data
    <3> HIDE DEF op
    <3>2. CASE op = "text"
      <4> DEFINE t == 3 * (f.len \div 4)
                 p == f.pad
      <4>1. t \in Int /\ p \in 0 .. 2
        BY <1>1
      <4>2. Decoded(op, f, f.len) = IF t < t - p THEN t ELSE t - p
        BY <3>2 DEF Decoded
      <4>3. Data(g) = t - p
        BY <3>1, <3>2
      <4> HIDE DEF t, p, g
      <4>4. (IF t < t - p THEN t ELSE t - p) = t - p
        BY <4>1
      <4> QED  BY <4>2, <4>3, <4>4
    <3>3. CASE op = "binary"
      BY <3>1, <3>3 DEF Decoded
    <3> QED  BY <2>3, <3>2, <3>3 DEF op
  <2>7. d \in Nat
    <3>1. Grouped(op, f)
      BY TextGrouped
    <3>2. f.len \in 0 .. f.len
      BY <1>1
    <3> HIDE DEF op
    <3> QED  BY <1>1, <3>1, <3>2, DecodedBounds
  <2> HIDE DEF d, g
  <2>8. d - 0 = d /\ \A j \in 1 .. d : 0 + j = j
    BY <2>7
  <2>9. Content(i) = Span(i, 0, d)
    BY <2>5, <2>6, <2>8 DEF Span
  <2> QED  BY <1>2, <2>1, <2>2, <2>9 DEF d
<1> QED  BY <1>3, <1>4

-----------------------------------------------------------------------------
(* The inductive invariant.  The place the decoder is at in the frames tells  *)
(* what is still in the socket, what is carried over, what is ready and what  *)
(* has been returned.                                                         *)

Opened == {"text", "binary", Invalid}

\* Between two frames, or within a header.
AtHeader(c, k, s, o) ==
  LET f == frames[c]
  IN  /\ k.carry = <<>> /\ k.ready = <<>> /\ k.nReadPayload = 0
      /\ k.opcode \in Opcodes \cup {Invalid}
      /\ o = Delivered(c)
      /\ \E cont \in Opened : /\ Fragment(c, cont)
                              /\ \/ k.continuation = cont
                                 \/ c <= Len(frames) /\ k.continuation = Continuation(f, cont)
      /\ IF c <= Len(frames)
           THEN /\ k.nRead \in 0 .. HeaderLen(f) - 1
                /\ s = Span(c, k.nRead - HeaderLen(f), f.len) \o Unread(c + 1)
           ELSE k.nRead = 0 /\ s = <<>> /\ k.writePos = 0 /\ k.terminator = 0

\* The header of frame c was taken where cont was remembered.
Begun(c, k, cont) ==
  /\ DOMAIN k = Fields /\ k.nRead \in 0 .. 14
  /\ Fragment(c, cont) /\ WellFormed(c)
  /\ k.opcode = Opcode(frames[c], cont) /\ k.continuation = Continuation(frames[c], cont)

\* Of the payload of frame c, q bytes are decoded, and of what they decode to g
\* bytes are returned.
Within(c, k, s, o, q, g) ==
  LET f == frames[c]
      p == k.nReadPayload
      d == Decoded(k.opcode, f, q)
  IN  /\ p \in 0 .. f.len /\ q \in 0 .. p /\ g \in 0 .. d
      /\ q % 4 = 0 \/ q = f.len
      /\ p = f.len => q = f.len
      /\ k.carry = Span(c, q, p)
      /\ s = Span(c, p, f.len) \o Unread(c + 1)
      /\ k.ready = Span(c, g, d)
      /\ o = Delivered(c) \o Span(c, 0, g)
      /\ \/ k.hybiDecodeState = "data_available" /\ g < d
         \/ k.hybiDecodeState \in {"data_needed", "close_reason_pending"} /\ g = d /\ p < f.len

Located(c, k, s, o) ==
  /\ c \in 1 .. Len(frames) + 1 /\ \A e \in Ends : c <= e
  /\ DOMAIN k = Fields
  /\ \/ k.hybiDecodeState = "header_pending" /\ AtHeader(c, k, s, o)
     \/ /\ c <= Len(frames)
        /\ \E cont \in Opened : Begun(c, k, cont)
        /\ \E q \in 0 .. k.nReadPayload :
             \E g \in 0 .. Decoded(k.opcode, frames[c], q) : Within(c, k, s, o, q, g)

Position == Located(current, ctx, socket, out)

\* How a call ends that closes the connection.
Closed ==
  /\ status' \in {"reset", "protocol", "failed"} /\ out' = out
  /\ current' \in 1 .. Len(frames) + 1
  /\ \E cont \in Opened : ctx' = Fresh(cont)
  /\ socket' \in Seq(Places)

\* How any other call ends; it returns something, or nothing.
Given == out' = out \/ \E given \in Seq(Bytes) : out' = out \o given
Moved == status' = "open" /\ Located(current', ctx', socket', out') /\ Given

LEMMA FreshLocated ==
  ASSUME frames \in Traffic, Receivable(frames), NEW c \in 1 .. Len(frames) + 1,
         NEW cont, Fragment(c, cont), \A e \in Ends : c <= e
  PROVE  Located(c, Fresh(cont), Unread(c), Delivered(c))
<1> DEFINE k == Fresh(cont)
<1>1. /\ k.hybiDecodeState = "header_pending" /\ k.carry = <<>> /\ k.ready = <<>>
      /\ k.nReadPayload = 0 /\ k.opcode = Invalid /\ k.continuation = cont /\ k.nRead = 0
      /\ k.writePos = 0 /\ k.terminator = 0 /\ DOMAIN k = Fields
  BY DEF Fresh, Fields
<1>2. cont \in Opened
  BY FragmentTyped DEF Opened
<1> HIDE DEF k
<1>3. CASE c <= Len(frames)
  <2>1. c \in 1 .. Len(frames)
    BY <1>3, FramesTyped
  <2> DEFINE h == HeaderLen(frames[c])
  <2>2. h \in 1 .. 14
    BY <2>1, ReceivableFrame
  <2>3. Unread(c) = Span(c, -h, frames[c].len) \o Unread(c + 1)
    BY <2>1, WireIsSpan, UnreadParts
  <2> HIDE DEF h
  <2>4. k.nRead \in 0 .. h - 1 /\ k.nRead - h = -h
    BY <1>1, <2>2
  <2> QED  BY <1>1, <1>2, <1>3, <2>3, <2>4 DEF Located, AtHeader, h, k
<1>4. CASE ~(c <= Len(frames))
  <2>1. c = Len(frames) + 1
    BY <1>4, FramesTyped
  <2>2. Unread(c) = <<>>
    BY <2>1, UnreadParts
  <2> QED  BY <1>1, <1>2, <1>4, <2>2 DEF Located, AtHeader, k
<1> QED  BY <1>3, <1>4

\* A frame that is complete is left for the next one.
LEMMA SettleDone ==
  ASSUME frames \in Traffic, Receivable(frames), current \in 1 .. Len(frames),
         \A e \in Ends : current <= e,
         NEW k, NEW cont, Begun(current, k, cont), k.opcode # "close",
         k.hybiDecodeState = "frame_complete", NEW given, Settle(k, given),
         out \o given = Delivered(current) \o
                          Span(current, 0, Decoded(k.opcode, frames[current], frames[current].len))
  PROVE  Located(current', ctx', Unread(current + 1), out')
<1> DEFINE f == frames[current]
<1>1. current + 1 \in 1 .. Len(frames) + 1 /\ current \in Nat
  BY FramesTyped
<1>2. Fragment(current + 1, Remembered(current, cont))
  BY FragmentNext DEF Begun
<1>3. ctx' = Fresh(Remembered(current, cont)) /\ current' = current + 1 /\ out' = out \o given
  BY DEF Settle, CleanupComplete, CleanupForContinuation, Remembered, Begun
<1>4. \A e \in Ends : current + 1 <= e
  <2>1. frames[current].op # "close"
    BY DEF Begun, Opcode
  <2>2. current \notin Ends
    BY <2>1 DEF Begun, Ends
  <2>3. \A e \in Ends : e \in Nat
    BY FramesTyped DEF Ends
  <2> QED  BY <1>1, <2>2, <2>3
<1>5. out' = Delivered(current + 1)
  <2>1. Parts[current] = Span(current, 0, Decoded(k.opcode, f, f.len))
    BY PartOfFrame DEF Begun
  <2>2. Delivered(current + 1) = Delivered(current) \o Parts[current]
    BY DeliveredParts
  <2> QED  BY <1>3, <2>1, <2>2
<1>6. Located(current + 1, Fresh(Remembered(current, cont)), Unread(current + 1), Delivered(current + 1))
  BY <1>1, <1>2, <1>4, FreshLocated
<1> QED  BY <1>3, <1>5, <1>6

\* Returning data moves the place within the frame, or on to the next frame.
LEMMA ReturnDataLocated ==
  ASSUME frames \in Traffic, Receivable(frames), current \in 1 .. Len(frames),
         \A e \in Ends : current <= e,
         NEW k, NEW cont, Begun(current, k, cont), k.opcode # "close",
         NEW q \in 0 .. k.nReadPayload, NEW g \in Nat, NEW s,
         k.nReadPayload \in 0 .. frames[current].len,
         q % 4 = 0 \/ q = frames[current].len,
         k.nReadPayload = frames[current].len => q = frames[current].len,
         k.carry = Span(current, q, k.nReadPayload),
         s = Span(current, k.nReadPayload, frames[current].len) \o Unread(current + 1),
         g <= Decoded(k.opcode, frames[current], q),
         k.ready = Span(current, g, Decoded(k.opcode, frames[current], q)),
         out = Delivered(current) \o Span(current, 0, g),
         \/ k.hybiDecodeState = "data_available" /\ g < Decoded(k.opcode, frames[current], q)
         \/ k.hybiDecodeState = "frame_complete" /\ k.nReadPayload = frames[current].len
         \/ /\ k.hybiDecodeState \in {"data_needed", "close_reason_pending"}
            /\ k.nReadPayload < frames[current].len,
         NEW len \in Nat \ {0}, ReturnData(k, len)
  PROVE  Located(current', ctx', s, out') /\ Given
<1> DEFINE c    == current
           f    == frames[c]
           p    == k.nReadPayload
           d    == Decoded(k.opcode, f, q)
           n    == IF Len(k.ready) > len THEN len ELSE Len(k.ready)
           rest == Rest(k.ready, n)
           next == IF rest # <<>> THEN "data_available"
                   ELSE IF n = 0 THEN k.hybiDecodeState
                   ELSE IF Remaining(k.nReadPayload) = 0 THEN "frame_complete"
                   ELSE "data_needed"
           r    == [k EXCEPT !.ready = rest, !.hybiDecodeState = next]
<1>1. /\ c \in Nat \ {0} /\ c \in 1 .. Len(frames) + 1 /\ c <= Len(frames)
      /\ f \in Frame /\ f.len \in Nat
  BY ReceivableFrame
<1>2. Grouped(k.opcode, f)
  BY TextGrouped DEF Begun
<1>3. d \in Nat /\ d <= Decoded(k.opcode, f, f.len)
  <2>1. q \in 0 .. f.len
    BY <1>1, SMTT(30)
  <2> QED  BY <1>1, <1>2, <2>1, DecodedBounds
<1>4. Remaining(p) = f.len - p
  BY RemainingExact
<1>5. Settle(r, First(k.ready, n))
  BY DEF ReturnData
<1> HIDE DEF d
<1> DEFINE e == g + n
<1>6. /\ c \in Nat /\ g \in Int /\ d \in Int /\ g <= d
      /\ k.ready = Span(c, g, d) /\ out = Delivered(c) \o Span(c, 0, g)
  BY <1>1, <1>3 DEF d
<1>7. n \in 0 .. d - g /\ (n = 0 <=> g = d) /\ e = g + n /\ e \in Int /\ 0 <= e /\ g <= e /\ e <= d
  <2> DEFINE m == Len(k.ready)
  <2>1. m = d - g
    <3>1. Len(Span(c, g, d)) = d - g
      BY <1>6, SpanListed
    <3> QED  BY <1>6, <3>1
  <2>2. n = IF m > len THEN len ELSE m
    OBVIOUS
  <2> HIDE DEF n, m
  <2>3. n \in 0 .. d - g /\ (n = 0 <=> g = d)
    BY <1>3, <1>6, <2>1, <2>2
  <2>4. g + n \in Int /\ 0 <= g + n /\ g <= g + n /\ g + n <= d
    BY <1>6, <2>3
  <2> QED  BY <2>3, <2>4
<1> HIDE DEF n
<1>8. rest = Span(c, e, d) /\ First(k.ready, n) = Span(c, g, e)
  <2>1. First(Span(c, g, d), n) = Span(c, g, g + n) /\ Rest(Span(c, g, d), n) = Span(c, g + n, d)
    BY <1>6, <1>7, SpanParts, ZenonT(60)
  <2> QED  BY <1>6, <2>1
<1> HIDE DEF e
<1>9. out \o First(k.ready, n) = Delivered(c) \o Span(c, 0, e)
  <2>1. Delivered(c) \in Seq(Bytes)
    BY <1>1, DeliveredParts, PlacesAreBytes
  <2>2. e \in Nat
    BY <1>7
  <2>3. (Delivered(c) \o Span(c, 0, g)) \o Span(c, g, e) = Delivered(c) \o Span(c, 0, e)
    <3>1. \A y, z \in Nat : y <= z => \A t \in Seq(Bytes) :
            (t \o Span(c, 0, y)) \o Span(c, y, z) = t \o Span(c, 0, z)
      BY <1>6, SpanBegun
    <3> QED  BY <1>7, <2>1, <2>2, <3>1
  <2> QED  BY <1>6, <1>8, <2>3
<1>10. rest = <<>> <=> e = d
  <2>1. Len(Span(c, e, d)) = d - e
    BY <1>6, <1>7, SpanListed
  <2>2. Len(<<>>) = 0
    OBVIOUS
  <2>3. e = d => Span(c, e, d) = <<>>
    BY <1>6, SpanEmpty
  <2>4. Span(c, e, d) = <<>> => e = d
    BY <1>6, <1>7, <2>1, <2>2
  <2> QED  BY <1>8, <2>3, <2>4
<1> HIDE DEF rest, next
<1>11. /\ DOMAIN r = Fields /\ r.ready = rest /\ r.hybiDecodeState = next
       /\ r.carry = k.carry /\ r.nReadPayload = p /\ r.opcode = k.opcode /\ r.nRead = k.nRead
       /\ r.continuation = k.continuation
  BY DEF Begun, Fields
<1>12. Begun(c, r, cont) /\ cont \in Opened
  BY <1>11, FragmentTyped DEF Begun, Opened
<1> HIDE DEF r
<1>13. Given
  <2>1. out' = out \o First(k.ready, n)
    BY <1>5 DEF Settle
  <2>2. Span(c, g, e) \in Seq(Bytes)
    BY <1>6, <1>7, SpanListed
  <2> QED  BY <1>8, <2>1, <2>2 DEF Given
<1>14. ASSUME next # "frame_complete",
              \/ next = "data_available" /\ e < d
              \/ next \in {"data_needed", "close_reason_pending"} /\ e = d /\ p < f.len
       PROVE  Located(current', ctx', s, out')
  <2>1. ctx' = r /\ current' = c /\ out' = Delivered(c) \o Span(c, 0, e)
    BY <1>5, <1>9, <1>11, <1>14 DEF Settle
  <2>2. Within(c, r, s, out', q, e)
    BY <1>7, <1>8, <1>11, <1>14, <2>1 DEF Within, d
  <2>3. q \in 0 .. r.nReadPayload /\ e \in 0 .. Decoded(r.opcode, frames[c], q)
    BY <2>2 DEF Within
  <2> QED  BY <1>1, <1>11, <1>12, <2>1, <2>2, <2>3 DEF Located
<1>15. ASSUME next = "frame_complete", e = d, p = f.len
       PROVE  Located(current', ctx', s, out')
  <2>1. q = f.len
    BY <1>15
  <2>2. out \o First(k.ready, n) = Delivered(c) \o Span(c, 0, Decoded(r.opcode, f, f.len))
    BY <1>9, <1>11, <1>15, <2>1 DEF d
  <2>3. Located(current', ctx', Unread(c + 1), out')
    BY <1>5, <1>11, <1>12, <1>15, <2>2, SettleDone
  <2>4. s = Unread(c + 1)
    <3>1. Span(c, f.len, f.len) = <<>>
      BY <1>1, SpanEmpty
    <3>2. Unread(c + 1) \in Seq(Places)
      <4>1. c + 1 \in 1 .. Len(frames) + 1
        BY <1>1, FramesTyped
      <4> QED  BY <4>1, UnreadParts
    <3> QED  BY <1>15, <3>1, <3>2, ConcatEmptySeq
  <2> QED  BY <2>3, <2>4
<1>16. CASE rest # <<>>
  <2>1. next = "data_available"
    BY <1>16 DEF next
  <2>2. e < d
    BY <1>3, <1>7, <1>10, <1>16
  <2> QED  BY <1>13, <1>14, <2>1, <2>2
<1>17. CASE rest = <<>> /\ n = 0
  <2>1. next = k.hybiDecodeState
    BY <1>17 DEF next
  <2>2. e = d /\ g = d
    BY <1>7, <1>10, <1>17
  <2>3. k.hybiDecodeState # "data_available"
    BY <1>3, <2>2 DEF d
  <2> QED  BY <1>13, <1>14, <1>15, <2>1, <2>2, <2>3
<1>18. CASE rest = <<>> /\ n # 0
  <2>1. e = d
    BY <1>10, <1>18
  <2>2. next = IF Remaining(p) = 0 THEN "frame_complete" ELSE "data_needed"
    BY <1>18 DEF next
  <2>3. CASE p = f.len
    BY <1>1, <1>4, <1>13, <1>15, <2>1, <2>2, <2>3
  <2>4. CASE p # f.len
    <3>1. p < f.len /\ f.len - p # 0
      BY <1>1, <2>4
    <3>2. next = "data_needed"
      BY <1>4, <2>2, <3>1
    <3> QED  BY <1>13, <1>14, <2>1, <3>1, <3>2
  <2> QED  BY <2>3, <2>4
<1> QED  BY <1>13, <1>16, <1>17, <1>18

-----------------------------------------------------------------------------
(* A read of payload: what was carried over, what came with the header and    *)
(* what is read now are a row of bytes of the frame.                          *)

\* The most that may be read is r, the buffer has room for b.
LEMMA ReadBounds ==
  ASSUME NEW l \in Nat, NEW p \in 0 .. l, NEW b \in Nat, NEW r, r = l - p,
         NEW m, m = IF r > b THEN b ELSE r, NEW s, NEW n \in Nat, n \in Reads(m, s)
  PROVE  p + n <= l
<1>1. m \in Nat /\ m <= l - p
  OBVIOUS
<1>2. n <= m
  BY <1>1 DEF Reads
<1> QED  BY <1>1, <1>2

LEMMA ReadWithin ==
  ASSUME frames \in Traffic, Receivable(frames), current \in 1 .. Len(frames),
         NEW k, NEW s, Buffered(k), k.nReadPayload \in 0 .. frames[current].len,
         NEW n \in Reads(NextRead(k), s)
  PROVE  n \in Nat /\ k.nReadPayload + n <= frames[current].len
<1> DEFINE l == frames[current].len
           p == k.nReadPayload
           r == Remaining(p)
           b == BufSize - (k.writePos + Len(k.carry)) - 1
           m == NextRead(k)
<1>1. l \in Nat /\ p \in 0 .. l /\ r = l - p
  BY ReceivableFrame, RemainingExact
<1>2. n \in Nat
  BY ReadFits
<1>3. b \in Nat
  BY DecoderAssumption, SMTT(30) DEF Buffered
<1>4. m = IF r > b THEN b ELSE r
  BY DEF NextRead
<1>5. n \in Reads(m, s)
  OBVIOUS
<1> HIDE DEF l, p, r, b, m
<1>6. p + n <= l
  BY <1>1, <1>2, <1>3, <1>4, <1>5, ReadBounds, Zenon
<1> QED  BY <1>2, <1>6 DEF p, l

\* How much of what is there is unmasked, from q on up to z.
LEMMA WholeExact ==
  ASSUME NEW q \in Nat, NEW e \in Nat, q <= e, q % 4 = 0, NEW complete \in BOOLEAN
  PROVE  /\ Whole(e - q, complete) \in 0 .. e - q
         /\ q + Whole(e - q, complete) \in q .. e
         /\ (q + Whole(e - q, complete)) % 4 = 0 \/ complete
         /\ complete => q + Whole(e - q, complete) = e
<1>1. CASE complete
  <2>1. Whole(e - q, complete) = e - q
    BY <1>1 DEF Whole
  <2>2. e - q \in 0 .. e - q /\ q + (e - q) \in q .. e /\ q + (e - q) = e
    OBVIOUS
  <2> QED  BY <1>1, <2>1, <2>2
<1>2. CASE ~complete
  <2>1. Whole(e - q, complete) = (e - q) - ((e - q) % 4)
    BY <1>2 DEF Whole
  <2>2. ASSUME NEW m \in Nat
        PROVE  m - (m % 4) \in 0 .. m /\ (q + (m - (m % 4))) % 4 = 0
    <3>1. m % 4 \in 0 .. 3 /\ m % 4 <= m /\ (m - (m % 4)) % 4 = 0
      OBVIOUS
    <3>2. ASSUME NEW x \in Nat, x % 4 = 0 PROVE (q + x) % 4 = 0
      BY <3>2
    <3>3. m - (m % 4) \in Nat
      BY <3>1
    <3> QED  BY <3>1, <3>2, <3>3
  <2>3. e - q \in Nat
    OBVIOUS
  <2>4. /\ (e - q) - ((e - q) % 4) \in 0 .. e - q
        /\ (q + ((e - q) - ((e - q) % 4))) % 4 = 0
    BY <2>2, <2>3
  <2> DEFINE w == (e - q) - ((e - q) % 4)
  <2> HIDE DEF w
  <2>5. w \in 0 .. e - q => q + w \in q .. e
    OBVIOUS
  <2> QED  BY <1>2, <2>1, <2>4, <2>5 DEF w
<1> QED  BY <1>1, <1>2

\* The bytes from a up to b are there, those up to d are read.
LEMMA RowTaken ==
  ASSUME NEW i \in Nat, NEW a \in Int, NEW b \in Int, NEW d \in Int,
         a <= b, b <= d, NEW n \in 0 .. d - b, NEW t \in Seq(Bytes)
  PROVE  /\ Span(i, a, b) \o First(Span(i, b, d) \o t, n) = Span(i, a, b + n)
         /\ Rest(Span(i, b, d) \o t, n) = Span(i, b + n, d) \o t
         /\ Len(Span(i, a, b + n)) = (b + n) - a
<1> DEFINE e == b + n
<1>1. e \in Int /\ b <= e /\ a <= e
  OBVIOUS
<1>2. First(Span(i, b, d) \o t, n) = Span(i, b, e) /\ Rest(Span(i, b, d) \o t, n) = Span(i, e, d) \o t
  <2>1. Taken(i, b, d, n, t)
    BY SpanTaken
  <2> QED  BY <2>1 DEF Taken
<1> HIDE DEF e
<1>3. Span(i, a, b) \o Span(i, b, e) = Span(i, a, e)
  BY <1>1, SpanConcat, SMTT(60)
<1>4. Len(Span(i, a, e)) = e - a
  BY <1>1, SpanListed
<1> QED  BY <1>2, <1>3, <1>4 DEF e

\* The bytes from q up to p are there, n more are read: those up to z are
\* unmasked, the others carried over.
Row(i, q, p, l, n, t) ==
  LET s     == Span(i, p, l) \o t
      block == Span(i, q, p) \o First(s, n)
      whole == Whole(Len(block), p + n = l)
      z     == q + whole
  IN  /\ whole \in Nat /\ z \in Nat /\ q <= z /\ z <= p + n
      /\ z % 4 = 0 \/ z = l
      /\ p + n = l => z = l
      /\ First(block, whole) = Span(i, q, z)
      /\ Rest(block, whole) = Span(i, z, p + n)
      /\ First(s, n) = Span(i, p, p + n)
      /\ Rest(s, n) = Span(i, p + n, l) \o t

LEMMA RowRead ==
  ASSUME NEW i \in Nat, NEW q \in Int, NEW p \in Int, NEW l \in Int,
         q <= p, p <= l, NEW n \in 0 .. l - p, NEW t \in Seq(Bytes)
  PROVE  q \in Nat /\ q % 4 = 0 => Row(i, q, p, l, n, t)
<1>1. /\ Span(i, q, p) \o First(Span(i, p, l) \o t, n) = Span(i, q, p + n)
      /\ Rest(Span(i, p, l) \o t, n) = Span(i, p + n, l) \o t
      /\ Len(Span(i, q, p + n)) = (p + n) - q
  BY RowTaken, ZenonT(60)
<1>0. First(Span(i, p, l) \o t, n) = Span(i, p, p + n)
  <2>1. Taken(i, p, l, n, t)
    BY SpanTaken
  <2> QED  BY <2>1 DEF Taken
<1>2. SUFFICES ASSUME q \in Nat, q % 4 = 0 PROVE Row(i, q, p, l, n, t)
  OBVIOUS
<1> DEFINE s     == Span(i, p, l) \o t
           block == Span(i, q, p) \o First(s, n)
           e     == p + n
           complete == e = l
           whole == Whole(e - q, complete)
           z     == q + whole
<1>3. complete \in BOOLEAN /\ e \in Int /\ e \in Nat /\ p <= e /\ q <= e /\ e <= l /\ (complete <=> e = l)
  BY <1>2
<1>4. block = Span(i, q, e) /\ Rest(s, n) = Span(i, e, l) \o t /\ Len(block) = e - q
  BY <1>1
<1> HIDE DEF e, s, block, complete
<1>5. /\ whole \in 0 .. e - q /\ z \in q .. e
      /\ z % 4 = 0 \/ complete
      /\ complete => z = e
  <2>1. ASSUME NEW x \in Nat, x <= e, x % 4 = 0
        PROVE  /\ Whole(e - x, complete) \in 0 .. e - x
               /\ x + Whole(e - x, complete) \in x .. e
               /\ (x + Whole(e - x, complete)) % 4 = 0 \/ complete
               /\ complete => x + Whole(e - x, complete) = e
    BY <1>2, <1>3, <2>1, WholeExact
  <2>2. /\ Whole(e - q, complete) \in 0 .. e - q
        /\ q + Whole(e - q, complete) \in q .. e
        /\ (q + Whole(e - q, complete)) % 4 = 0 \/ complete
        /\ complete => q + Whole(e - q, complete) = e
    BY <1>2, <1>3, <2>1, Zenon
  <2> QED  BY <2>2
<1> HIDE DEF whole
<1>6. First(block, whole) = Span(i, q, z) /\ Rest(block, whole) = Span(i, z, e)
  <2>1. /\ First(Span(i, q, e), whole) = Span(i, q, q + whole)
        /\ Rest(Span(i, q, e), whole) = Span(i, q + whole, e)
    BY <1>3, <1>5, SpanParts, Zenon
  <2> QED  BY <1>4, <2>1
<1> HIDE DEF z
<1>7. whole \in Nat /\ z \in Nat /\ q <= z /\ z <= e /\ (complete => z = l) /\ (z % 4 = 0 \/ z = l)
  BY <1>2, <1>3, <1>5
<1>8. whole = Whole(Len(block), complete)
  BY <1>4 DEF whole
<1> QED  BY <1>0, <1>4, <1>6, <1>7, <1>8 DEF Row, s, block, e, z, complete

\* What a row of bytes up to z decodes to.
LEMMA PayloadOfRow ==
  ASSUME frames \in Traffic, current \in 1 .. Len(frames), NEW op, Grouped(op, frames[current]),
         NEW q \in Nat, NEW z \in Nat, q <= z, z <= frames[current].len,
         q % 4 = 0, z % 4 = 0 \/ z = frames[current].len
  PROVE  /\ Payload(op, Unmasked(Span(current, q, z)))
            = Span(current, Decoded(op, frames[current], q), Decoded(op, frames[current], z))
         /\ Decoded(op, frames[current], q) \in Nat /\ Decoded(op, frames[current], z) \in Nat
         /\ Decoded(op, frames[current], q) <= Decoded(op, frames[current], z)
<1> DEFINE l == frames[current].len
           w == z - q
<1>1. frames[current] \in Frame /\ l \in Nat
  BY FramesTyped DEF Frame
<1>2. w \in Nat /\ q + w = z
  OBVIOUS
<1>3. w % 4 = 0 \/ q + w = l
  <2>1. CASE z % 4 = 0
    <3>1. ASSUME NEW x \in Nat, x % 4 = 0, NEW y \in Nat, y % 4 = 0, x <= y
          PROVE  (y - x) % 4 = 0
      BY <3>1
    <3> QED  BY <2>1, <3>1
  <2> QED  BY <1>2, <2>1
<1>4. Payload(op, Unmasked(Span(current, q, q + w)))
      = Span(current, Decoded(op, frames[current], q), Decoded(op, frames[current], q + w))
  <2> HIDE DEF w
  <2> QED  BY <1>2, <1>3, PayloadOfBlock
<1>5. q \in 0 .. l /\ z \in 0 .. l
  BY <1>1
<1>6. Decoded(op, frames[current], q) \in Nat /\ Decoded(op, frames[current], z) \in Nat
  BY <1>1, <1>5, DecodedBounds
<1>7. Decoded(op, frames[current], q) <= Decoded(op, frames[current], z)
  BY <1>1, DecodedMonotonic
<1> QED  BY <1>2, <1>4, <1>6, <1>7

LEMMA ReadAndDecodeLocated ==
  ASSUME frames \in Traffic, Receivable(frames), current \in 1 .. Len(frames),
         \A e \in Ends : current <= e,
         NEW k, NEW cont, Begun(current, k, cont), Buffered(k),
         k.hybiDecodeState \in {"data_needed", "close_reason_pending"}, k.ready = <<>>,
         NEW q \in Nat, q % 4 = 0, q <= k.nReadPayload,
         k.nReadPayload \in 0 .. frames[current].len,
         NEW buffered, k.carry \o buffered = Span(current, q, k.nReadPayload),
         NEW s, s = Span(current, k.nReadPayload, frames[current].len) \o Unread(current + 1),
         out = Delivered(current) \o Span(current, 0, Decoded(k.opcode, frames[current], q)),
         NEW n \in Reads(NextRead(k), s), NEW len \in Nat \ {0},
         status = "open", ReadAndDecode(k, buffered, s, n, len)
  PROVE  Moved \/ Closed
<1> DEFINE c        == current
           f        == frames[c]
           l        == f.len
           p        == k.nReadPayload
           read     == p + n
           complete == Remaining(read) = 0
           block    == k.carry \o buffered \o First(s, n)
           whole    == Whole(Len(block), complete)
           carry    == Rest(block, whole)
           end      == k.writePos + Len(k.carry) + n - Len(carry)
           more     == [k EXCEPT !.nReadPayload = read, !.carry = carry, !.writePos = end,
                                 !.terminator = end,
                                 !.hybiDecodeState = IF complete THEN "frame_complete" ELSE @]
           closing  == [more EXCEPT !.hybiDecodeState =
                                      IF complete THEN @ ELSE "close_reason_pending"]
           ready    == Payload(k.opcode, Unmasked(First(block, whole)))
           decoded  == [more EXCEPT
                          !.writePos = IF k.opcode = "ping" THEN @ ELSE HeaderLen(frames[current]),
                          !.ready = ready]
           rest     == Unread(c + 1)
<1>1. /\ c \in Nat \ {0} /\ c \in Nat /\ c <= Len(frames) /\ c \in 1 .. Len(frames) + 1
      /\ f \in Frame /\ l \in Nat /\ l < Wide
  BY ReceivableFrame
<1>2. rest \in Seq(Bytes) /\ rest \in Seq(Places)
  <2>1. c + 1 \in 1 .. Len(frames) + 1
    BY <1>1, FramesTyped
  <2> QED  BY <2>1, UnreadParts, PlacesAreBytes
<1>3. /\ n \in Nat /\ p \in Nat /\ p + n <= l /\ p <= l /\ q <= p
      /\ k.carry \o buffered = Span(c, q, p) /\ s = Span(c, p, l) \o rest
      /\ out = Delivered(c) \o Span(c, 0, Decoded(k.opcode, f, q))
      /\ k.nReadPayload = p /\ f.len = l
  BY <1>1, ReadWithin
<1> HIDE DEF p, l
<1>4. read \in Nat /\ p <= read /\ read <= l /\ q <= read /\ n \in 0 .. l - p
  <2>1. n \in Nat /\ p \in Nat /\ l \in Nat /\ q \in Nat /\ p + n <= l /\ q <= p
    BY <1>1, <1>3
  <2> HIDE DEF complete, block, whole, carry, end, more, closing, ready, decoded, rest, c, f
  <2>2. read \in Nat
    BY <2>1, SMTT(30)
  <2>3. p <= read /\ read <= l
    BY <2>1
  <2>4. q <= read
    BY <2>1, <2>3, <2>2
  <2>5. n \in 0 .. l - p
    BY <2>1
  <2> QED  BY <2>2, <2>3, <2>4, <2>5
<1>5. complete <=> read = l
  <2>1. read \in 0 .. f.len
    BY <1>1, <1>3, <1>4
  <2>2. Remaining(read) = l - read
    <3> HIDE DEF read
    <3> QED  BY <1>3, <2>1, RemainingExact
  <2> HIDE DEF read
  <2> QED  BY <1>1, <1>4, <2>2
<1> HIDE DEF rest, complete
<1>6. Row(c, q, p, l, n, rest)
  <2>1. q \in Int /\ p \in Int /\ l \in Int
    BY <1>1, <1>3
  <2> HIDE DEF read
  <2> QED  BY <1>1, <1>2, <1>3, <1>4, <2>1, RowRead, Zenon
<1> DEFINE z == q + whole
<1>7. block = Span(c, q, p) \o First(Span(c, p, l) \o rest, n)
  BY <1>3
<1>8. whole = Whole(Len(block), read = l)
  <2> HIDE DEF block, read
  <2> QED  BY <1>5 DEF Whole
<1>9. /\ z \in Nat /\ q <= z /\ z <= read
      /\ z % 4 = 0 \/ z = l
      /\ complete => z = l
      /\ First(block, whole) = Span(c, q, z) /\ carry = Span(c, z, read)
      /\ Rest(s, n) = Span(c, read, l) \o rest
  <2> DEFINE w == Whole(Len(Span(c, q, p) \o First(Span(c, p, l) \o rest, n)), p + n = l)
  <2>1. /\ q + w \in Nat /\ q <= q + w /\ q + w <= p + n
        /\ (q + w) % 4 = 0 \/ q + w = l
        /\ p + n = l => q + w = l
        /\ First(Span(c, q, p) \o First(Span(c, p, l) \o rest, n), w) = Span(c, q, q + w)
        /\ Rest(Span(c, q, p) \o First(Span(c, p, l) \o rest, n), w) = Span(c, q + w, p + n)
        /\ Rest(Span(c, p, l) \o rest, n) = Span(c, p + n, l) \o rest
    BY <1>6, Zenon DEF Row
  <2>2. whole = w
    <3> HIDE DEF block, whole
    <3> QED  BY <1>7, <1>8
  <2> HIDE DEF whole, block, w
  <2> QED  BY <1>3, <1>5, <1>7, <2>1, <2>2
<1> HIDE DEF block, whole, z, read
<1>10. z <= l /\ l \in Nat
  BY <1>1, <1>3, <1>4, <1>9, SMTT(30)
<1>11. Grouped(k.opcode, f)
  BY TextGrouped DEF Begun
<1>12. /\ ready = Span(c, Decoded(k.opcode, f, q), Decoded(k.opcode, f, z))
       /\ Decoded(k.opcode, f, q) \in Nat /\ Decoded(k.opcode, f, z) \in Nat
       /\ Decoded(k.opcode, f, q) <= Decoded(k.opcode, f, z)
  <2>1. z <= frames[current].len /\ (z % 4 = 0 \/ z = frames[current].len)
    BY <1>3, <1>9, <1>10
  <2>2. /\ Payload(k.opcode, Unmasked(Span(c, q, z)))
           = Span(c, Decoded(k.opcode, f, q), Decoded(k.opcode, f, z))
        /\ Decoded(k.opcode, f, q) \in Nat /\ Decoded(k.opcode, f, z) \in Nat
        /\ Decoded(k.opcode, f, q) <= Decoded(k.opcode, f, z)
    BY <1>9, <1>11, <2>1, PayloadOfRow, Zenon
  <2> QED  BY <1>9, <2>2
<1> HIDE DEF carry, end, ready
<1>14. DOMAIN k = Fields
  BY DEF Begun
<1>15. /\ DOMAIN more = Fields /\ more.carry = carry /\ more.nReadPayload = read
       /\ more.ready = <<>> /\ more.opcode = k.opcode /\ more.continuation = k.continuation
       /\ more.nRead = k.nRead
       /\ more.hybiDecodeState = IF complete THEN "frame_complete" ELSE k.hybiDecodeState
  BY <1>14 DEF Fields
<1> HIDE DEF more
<1>16. socket' = Span(c, read, l) \o rest
  BY <1>9 DEF ReadAndDecode
<1>17. cont \in Opened
  BY FragmentTyped DEF Begun, Opened
<1>18. CASE k.opcode = "close"
  <2>1. /\ status' = IF complete THEN "reset" ELSE status
        /\ Settle(closing, <<>>)
    BY <1>18 DEF ReadAndDecode, p, read, complete, block, whole, carry, end, more
  <2>2. /\ DOMAIN closing = Fields /\ closing.carry = carry /\ closing.nReadPayload = read
        /\ closing.ready = <<>> /\ closing.opcode = k.opcode
        /\ closing.continuation = k.continuation /\ closing.nRead = k.nRead
        /\ closing.hybiDecodeState = IF complete THEN "frame_complete" ELSE "close_reason_pending"
    BY <1>15 DEF Fields
  <2>3. \A x : Decoded(k.opcode, f, x) = 0
    BY <1>18 DEF Decoded
  <2>4. Span(c, 0, 0) = <<>> /\ Delivered(c) \in Seq(Places) /\ Delivered(c) \o <<>> = Delivered(c)
    BY <1>1, SpanEmpty, DeliveredParts, ConcatEmptySeq
  <2>5. out = Delivered(c)
    BY <1>3, <2>3, <2>4
  <2> HIDE DEF closing
  <2>6. out' = out
    BY <2>1, <2>4, <2>5 DEF Settle
  <2>7. CASE complete
    <3>1. socket' \in Seq(Places)
      <4>1. Span(c, l, l) = <<>>
        BY <1>1, SpanEmpty
      <4>2. <<>> \o rest = rest
        BY <1>2, ConcatEmptySeq
      <4> QED  BY <1>2, <1>5, <1>16, <2>7, <4>1, <4>2
    <3>2. ctx' = Fresh(closing.continuation) /\ current' = c + 1
      BY <1>18, <2>1, <2>2, <2>7 DEF Settle, CleanupForContinuation, IsControl
    <3>3. closing.continuation = cont
      <4>1. f.op = "close" \/ (f.op = "continuation" /\ cont = "close")
        BY <1>18 DEF Begun, Opcode
      <4>2. f.op = "close"
        BY <1>17, <4>1 DEF Opened, Invalid
      <4> QED  BY <2>2, <4>2 DEF Begun, Continuation, IsControl
    <3>4. current' \in 1 .. Len(frames) + 1
      BY <1>1, <3>2, FramesTyped
    <3> QED  BY <1>17, <2>1, <2>6, <2>7, <3>1, <3>2, <3>3, <3>4 DEF Closed
  <2>8. CASE ~complete
    <3>1. ctx' = closing /\ current' = c /\ status' = "open"
      BY <2>1, <2>2, <2>8 DEF Settle
    <3>2. read < l
      BY <1>1, <1>4, <1>5, <2>8
    <3>3. Within(c, closing, socket', out', z, 0)
      <4>1. z \in 0 .. read /\ z % 4 = 0 /\ read # l /\ read \in 0 .. l /\ 0 \in 0 .. 0
        BY <1>1, <1>3, <1>4, <1>9, <1>10, <2>8, <3>2
      <4>2. closing.carry = Span(c, z, read) /\ closing.ready = Span(c, 0, 0)
            /\ out' = Delivered(c) \o Span(c, 0, 0)
        BY <1>9, <2>2, <2>4, <2>5, <2>6
      <4> HIDE DEF f, c
      <4> QED  BY <1>3, <1>16, <2>2, <2>3, <2>8, <3>2, <4>1, <4>2 DEF Within, rest, f, c
    <3>4. z \in 0 .. closing.nReadPayload /\ 0 \in 0 .. Decoded(closing.opcode, f, z)
      BY <3>3 DEF Within
    <3>5. Begun(c, closing, cont)
      BY <2>2 DEF Begun
    <3> QED  BY <1>1, <1>17, <2>2, <3>1, <3>3, <3>4, <3>5, <2>6 DEF Located, Moved, Given
  <2> QED  BY <2>7, <2>8
<1>19. CASE k.opcode # "close"
  <2>1. status' = "open" /\ ReturnData(decoded, len)
    BY <1>19 DEF ReadAndDecode, p, read, complete, block, whole, carry, end, more, ready
  <2>2. /\ DOMAIN decoded = Fields /\ decoded.carry = carry /\ decoded.nReadPayload = read
        /\ decoded.ready = ready /\ decoded.opcode = k.opcode
        /\ decoded.continuation = k.continuation /\ decoded.nRead = k.nRead
        /\ decoded.hybiDecodeState = IF complete THEN "frame_complete" ELSE k.hybiDecodeState
    BY <1>15 DEF Fields
  <2> HIDE DEF decoded
  <2>3. Begun(c, decoded, cont) /\ decoded.opcode # "close"
    BY <1>19, <2>2 DEF Begun
  <2>4. z \in 0 .. decoded.nReadPayload /\ decoded.nReadPayload \in 0 .. l
    BY <1>1, <1>4, <1>9, <1>10, <2>2
  <2>5. z % 4 = 0 \/ z = l
    BY <1>9
  <2>6. decoded.nReadPayload = l => z = l
    BY <1>5, <1>9, <2>2
  <2>7. \/ decoded.hybiDecodeState = "frame_complete" /\ decoded.nReadPayload = l
        \/ /\ decoded.hybiDecodeState \in {"data_needed", "close_reason_pending"}
           /\ decoded.nReadPayload < l
    BY <1>1, <1>4, <1>5, <2>2
  <2>8. Located(current', ctx', socket', out') /\ Given
    BY <1>3, <1>9, <1>12, <1>16, <2>1, <2>2, <2>3, <2>4, <2>5, <2>6, <2>7, ReturnDataLocated DEF rest
  <2> QED  BY <2>1, <2>8 DEF Moved
<1> QED  BY <1>18, <1>19

-----------------------------------------------------------------------------
(* A call leaves the frames alone, and with them all that is derived from     *)
(* them.                                                                      *)

LEMMA FramesSame ==
  ASSUME frames \in Traffic, frames' = frames
  PROVE  /\ Ends' = Ends /\ Promised' = Promised
         /\ \A i : Unread(i)' = Unread(i) /\ Delivered(i)' = Delivered(i)
         /\ \A i, cont : Fragment(i, cont)' <=> Fragment(i, cont)
         /\ \A i : WellFormed(i)' <=> WellFormed(i)
<1>1. \A i : Starts(i)' <=> Starts(i)
  BY DEF Starts
<1>2. \A i, j : Continues(i, j)' <=> Continues(i, j)
  BY <1>1 DEF Continues
<1>3. \A i : WellFormed(i)' <=> WellFormed(i)
  BY <1>2 DEF WellFormed, BadLength
<1>4. \A i, cont : Fragment(i, cont)' <=> Fragment(i, cont)
  BY <1>2 DEF Fragment
<1>5. Ends' = Ends
  BY <1>3 DEF Ends
<1>6. \A i : IsData(i)' <=> IsData(i)
  BY <1>1 DEF IsData
<1>7. ASSUME NEW i \in 1 .. Len(frames), IsData(i), i \notin Ends
      PROVE  Beginning(i)' = Beginning(i)
  <2>1. i \in Nat /\ WellFormed(i)
    BY <1>7, FramesTyped DEF Ends
  <2>2. CASE Starts(i)
    BY <1>1, <2>2 DEF Beginning
  <2>3. CASE ~Starts(i)
    <3>1. \E j \in 1 .. i : Continues(i, j)
      BY <1>7, <2>1, <2>3 DEF WellFormed, IsData
    <3>2. Beginning(i) \in 1 .. i /\ Continues(i, Beginning(i))
      BY <2>3, <3>1 DEF Beginning
    <3>3. Beginning(i)' = CHOOSE j \in 1 .. i : Continues(i, j)'
      BY <1>1, <2>3 DEF Beginning
    <3>4. \E j \in 1 .. i : Continues(i, j)'
      BY <1>2, <3>1
    <3>5. Beginning(i)' \in 1 .. i /\ Continues(i, Beginning(i)')
      <4> DEFINE b == CHOOSE j \in 1 .. i : Continues(i, j)'
      <4>1. b \in 1 .. i /\ (\E j \in 1 .. i : b = j /\ Continues(i, j)')
        BY <3>4
      <4> HIDE DEF b
      <4>2. b \in 1 .. i /\ Continues(i, b)
        BY <1>2, <4>1
      <4> QED  BY <3>3, <4>2 DEF b
    <3> QED  BY <2>1, <3>2, <3>5, OneBeginning
  <2> QED  BY <2>2, <2>3
<1>8. ASSUME NEW i \in 1 .. Len(frames)
      PROVE  (IF IsData(i)' /\ (\A e \in Ends' : i < e) THEN Content(i)' ELSE <<>>)
             = IF IsData(i) /\ (\A e \in Ends : i < e) THEN Content(i) ELSE <<>>
  <2>1. ASSUME IsData(i), \A e \in Ends : i < e PROVE Content(i)' = Content(i)
    <3>1. i \notin Ends
      BY <2>1, FramesTyped
    <3>2. Beginning(i)' = Beginning(i)
      BY <1>7, <2>1, <3>1
    <3> QED  BY <3>2 DEF Content, Data
  <2> QED  BY <1>5, <1>6, <2>1
<1>9. Parts' = Parts /\ Promised' = Promised
  <2>1. Parts' = Parts
    BY <1>8 DEF Parts
  <2>2. Promised = FlattenSeq(Parts)
    BY DEF Promised, Parts
  <2>3. Promised' = FlattenSeq(Parts')
    BY DEF Promised, Parts
  <2> QED  BY <2>1, <2>2, <2>3
<1>10. \A i : Wire(i)' = Wire(i)
  BY DEF Wire, HeaderLen
<1>11. Wires' = Wires
  BY <1>10 DEF Wires
<1>12. \A i : Unread(i)' = Unread(i) /\ Delivered(i)' = Delivered(i)
  BY <1>9, <1>11 DEF Unread, Delivered
<1> QED  BY <1>3, <1>4, <1>5, <1>9, <1>12

LEMMA PositionKept ==
  ASSUME frames \in Traffic, frames' = frames, Located(current', ctx', socket', out')
  PROVE  Position'
<1>1. /\ Ends' = Ends
      /\ \A i : Unread(i)' = Unread(i) /\ Delivered(i)' = Delivered(i)
      /\ \A i, cont : Fragment(i, cont)' <=> Fragment(i, cont)
      /\ \A i : WellFormed(i)' <=> WellFormed(i)
  BY FramesSame
<1>2. AtHeader(current', ctx', socket', out') => AtHeader(current, ctx, socket, out)'
  BY <1>1 DEF AtHeader
<1>3. \A cont : Begun(current', ctx', cont) => Begun(current, ctx, cont)'
  BY <1>1 DEF Begun
<1>4. \A q, g : Within(current', ctx', socket', out', q, g) => Within(current, ctx, socket, out, q, g)'
  BY <1>1 DEF Within
<1> QED  BY <1>1, <1>2, <1>3, <1>4 DEF Position, Located

-----------------------------------------------------------------------------
(* A read for a header.                                                       *)

\* The bytes after a of a frame, up to its end at l, are still there, and before t;
\* n are read.  Up to 0 they are of the header.
HeaderRow(i, a, l, n, t) ==
  LET s == Span(i, a, l) \o t
  IN  /\ Rest(s, n) = Span(i, a + n, l) \o t
      /\ \A m \in 0 .. n : a + m = 0 => /\ Rest(First(s, n), m) = Span(i, 0, a + n)
                                        /\ Len(Span(i, 0, a + n)) = a + n

LEMMA HeaderRead ==
  ASSUME NEW i \in Nat, NEW a \in Int, NEW l \in Int, a <= l, NEW n \in 0 .. l - a,
         NEW t \in Seq(Bytes)
  PROVE  HeaderRow(i, a, l, n, t)
<1> DEFINE s == Span(i, a, l) \o t
           g == a + n
<1>1. First(s, n) = Span(i, a, g) /\ Rest(s, n) = Span(i, g, l) \o t
  <2>1. Taken(i, a, l, n, t)
    BY SpanTaken
  <2> QED  BY <2>1 DEF Taken
<1>2. g \in Int /\ a <= g /\ n = g - a
  OBVIOUS
<1> HIDE DEF s, g
<1>3. ASSUME NEW m \in 0 .. n, a + m = 0
      PROVE  Rest(First(s, n), m) = Span(i, 0, g) /\ Len(Span(i, 0, g)) = g
  <2>1. m \in 0 .. g - a
    BY <1>2
  <2>2. Rest(Span(i, a, g), m) = Span(i, a + m, g)
    BY <1>2, <2>1, SpanParts
  <2>3. 0 \in Int /\ 0 <= g /\ g - 0 = g
    BY <1>2, <1>3
  <2>4. Len(Span(i, 0, g)) = g - 0
    BY <1>2, <2>3, SpanListed
  <2> QED  BY <1>1, <1>3, <2>2, <2>3, <2>4
<1> QED  BY <1>1, <1>3 DEF HeaderRow, s, g

LEMMA HeaderForms ==
  ASSUME NEW f \in Frame
  PROVE  HeaderLen(f) \in {6, 8, 14}
<1> QED  BY DEF Frame, Forms, HeaderLen

\* The first read may not take more than the frame has.
LEMMA HeaderWithin ==
  ASSUME frames \in Traffic, Receivable(frames), NEW c \in 1 .. Len(frames),
         NEW r \in 0 .. HeaderLen(frames[c]) - 1, NEW s,
         s = Span(c, r - HeaderLen(frames[c]), frames[c].len) \o Unread(c + 1),
         NEW n \in Reads(WSHLENMAX - r, s)
  PROVE  /\ n \in Nat \ {0} /\ r + n <= 14 /\ r + n <= HeaderLen(frames[c]) + frames[c].len
         /\ s \in Seq(Places) /\ n <= Len(s)
<1> DEFINE h == HeaderLen(frames[c])
           l == frames[c].len
           t == Unread(c + 1)
<1>1. h \in 1 .. 14 /\ l \in Nat /\ l < Wide /\ c \in Nat /\ Len(frames) \in Nat
      /\ (c < Len(frames) => h + l >= 14) /\ r \in 0 .. h - 1 /\ r \in Nat /\ n \in Reads(14 - r, s)
  BY ReceivableFrame DEF WSHLENMAX
<1>0. s = Span(c, r - h, l) \o t
  OBVIOUS
<1> HIDE DEF h, l
<1>2. t \in Seq(Places) /\ (c = Len(frames) => t = <<>>)
  <2>1. c + 1 \in 1 .. Len(frames) + 1
    BY <1>1
  <2> QED  BY <2>1, UnreadParts
<1>3. Span(c, r - h, l) \in Seq(Places) /\ Len(Span(c, r - h, l)) = (l + h) - r
  <2> DEFINE a == r - h
  <2>1. a \in Int /\ l \in Int /\ -14 <= a /\ a <= l /\ l - a = (l + h) - r
    BY <1>1
  <2> HIDE DEF a
  <2>2. Len(Span(c, a, l)) = l - a
    BY <1>1, <2>1, SpanListed
  <2>3. Span(c, a, l) \in Seq(Places)
    BY <1>1, <2>1, SpanPlaced
  <2> QED  BY <2>1, <2>2, <2>3 DEF a
<1>4. s \in Seq(Places) /\ Len(s) \in Nat
  <2> DEFINE u == Span(c, r - h, l)
  <2>1. u \in Seq(Places) /\ s = u \o t
    BY <1>0, <1>3
  <2> HIDE DEF u, t
  <2>2. u \o t \in Seq(Places)
    BY <1>2, <2>1
  <2>3. Len(u \o t) \in Nat
    BY <2>2, LenProperties
  <2> QED  BY <2>1, <2>2, <2>3
<1>5. c = Len(frames) => Len(s) = (l + h) - r
  BY <1>0, <1>2, <1>3, ConcatEmptySeq
<1>6. n \in Nat \ {0} /\ n <= 14 - r /\ n <= Len(s)
  <2>1. 14 - r # 0
    BY <1>1
  <2> QED  BY <1>1, <2>1 DEF Reads
<1>7. r + n <= h + l
  <2>2. CASE c = Len(frames)
    BY <1>1, <1>5, <1>6, <2>2
  <2>3. CASE c # Len(frames)
    BY <1>1, <1>6, <2>3
  <2> QED  BY <2>2, <2>3
<1> QED  BY <1>4, <1>6, <1>7 DEF h, l

\* What bytes there are of a header show.
LEMMA HeaderFields ==
  ASSUME NEW got, DOMAIN ctx = Fields
  PROVE  LET f == frames[current]
         IN  /\ DOMAIN Header(got) = Fields /\ Header(got).nRead = got
             /\ Header(got).hybiDecodeState = ctx.hybiDecodeState
             /\ Header(got).carry = ctx.carry /\ Header(got).ready = ctx.ready
             /\ Header(got).nReadPayload = ctx.nReadPayload
             /\ Header(got).writePos = ctx.writePos /\ Header(got).terminator = ctx.terminator
             /\ Header(got).opcode = IF got < 2 THEN ctx.opcode ELSE Opcode(f, ctx.continuation)
             /\ Header(got).continuation
                = IF got < 2 THEN ctx.continuation ELSE Continuation(f, ctx.continuation)
<1> QED  BY DEF Header, Fields

LEMMA HeaderLocated ==
  ASSUME frames \in Traffic, Receivable(frames), Position, Decoder, status = "open",
         NEW len \in Nat \ {0}, ReadHeader(len)
  PROVE  Moved \/ Closed
<1> DEFINE c    == current
           f    == frames[c]
           h    == HeaderLen(f)
           r    == ctx.nRead
           rest == Unread(c + 1)
<1>1. /\ c \in 1 .. Len(frames) + 1 /\ \A e \in Ends : c <= e
      /\ DOMAIN ctx = Fields /\ AtHeader(c, ctx, socket, out)
      /\ ctx.hybiDecodeState = "header_pending" /\ socket # <<>>
  BY DEF Position, Located, Within, ReadHeader
<1>2. c \in 1 .. Len(frames) /\ c \in Nat /\ c <= Len(frames)
  BY <1>1, FramesTyped DEF AtHeader
<1>3. /\ ctx.carry = <<>> /\ ctx.ready = <<>> /\ ctx.nReadPayload = 0
      /\ ctx.opcode \in Opcodes \cup {Invalid} /\ out = Delivered(c)
      /\ r \in 0 .. h - 1 /\ socket = Span(c, r - h, f.len) \o rest
  BY <1>1, <1>2 DEF AtHeader
<1>4. PICK cont \in Opened : /\ Fragment(c, cont)
                             /\ ctx.continuation = cont \/ ctx.continuation = Continuation(f, cont)
  BY <1>1 DEF AtHeader
<1>5. /\ Opcode(f, ctx.continuation) = Opcode(f, cont)
      /\ Continuation(f, ctx.continuation) = Continuation(f, cont)
      /\ BadStart(f, ctx.continuation) <=> BadStart(f, cont)
  BY <1>4, HeaderAgain
<1>6. /\ f \in Frame /\ f.op \in Opcodes /\ f.len \in Nat /\ h \in {6, 8, 14}
      /\ rest \in Seq(Bytes)
  <2>1. c + 1 \in 1 .. Len(frames) + 1
    BY <1>2, FramesTyped
  <2> QED  BY <1>2, <2>1, ReceivableFrame, HeaderForms, UnreadParts, PlacesAreBytes
<1>7. PICK n \in Reads(WSHLENMAX - r, socket) :
        LET got    == r + n
            bad    == got >= 2 /\ BadStart(f, ctx.continuation)
            all    == got >= h
            extra  == Rest(First(socket, n), h - r)
            k      == [Header(got) EXCEPT !.hybiDecodeState = "data_needed", !.writePos = got,
                                          !.nReadPayload = Len(extra)]
        IN  \/ /\ ~bad /\ ~all
               /\ ctx' = Header(got) /\ socket' = Rest(socket, n)
               /\ UNCHANGED <<current, out, status>>
            \/ /\ bad \/ (all /\ BadLength(f))
               /\ Fail("protocol") /\ socket' = Rest(socket, n)
            \/ /\ ~bad /\ all /\ ~BadLength(f)
               /\ \E m \in Reads(NextRead(k), Rest(socket, n)) :
                    ReadAndDecode(k, extra, Rest(socket, n), m, len)
  BY DEF ReadHeader
<1>8. /\ n \in Nat \ {0} /\ r + n <= 14 /\ r + n <= h + f.len
      /\ socket \in Seq(Places) /\ n <= Len(socket)
  BY <1>2, <1>3, HeaderWithin
<1> DEFINE a     == r - h
           got   == r + n
           extra == Rest(First(socket, n), h - r)
           k     == [Header(got) EXCEPT !.hybiDecodeState = "data_needed", !.writePos = got,
                                        !.nReadPayload = Len(extra)]
           l     == f.len
           e     == a + n
<1>9. /\ r \in Nat /\ r < h /\ a \in Int /\ l \in Nat /\ l \in Int /\ a <= l /\ n \in 0 .. l - a
      /\ e = got - h /\ e <= l /\ got \in 0 .. 14 /\ e \in Int
  <2>1. /\ r \in 0 .. h - 1 /\ l \in Nat /\ h \in {6, 8, 14}
        /\ n \in Nat \ {0} /\ r + n <= 14 /\ r + n <= h + l
    BY <1>3, <1>6, <1>8
  <2> HIDE DEF h, r, l
  <2> QED  BY <2>1
<1>10. HeaderRow(c, a, l, n, rest)
  <2> HIDE DEF a, l, rest
  <2> QED  BY <1>2, <1>6, <1>9, HeaderRead
<1>11. socket = Span(c, a, l) \o rest
  BY <1>3
<1>12. CASE /\ got < h
            /\ ctx' = Header(got) /\ socket' = Rest(socket, n)
            /\ UNCHANGED <<current, out, status>>
  <2>1. socket' = Span(c, got - h, l) \o rest
    <3>1. Rest(Span(c, a, l) \o rest, n) = Span(c, a + n, l) \o rest
      BY <1>10 DEF HeaderRow
    <3> QED  BY <1>9, <1>11, <1>12, <3>1
  <2>2. /\ DOMAIN ctx' = Fields /\ ctx'.nRead = got /\ ctx'.hybiDecodeState = "header_pending"
        /\ ctx'.carry = <<>> /\ ctx'.ready = <<>> /\ ctx'.nReadPayload = 0
        /\ ctx'.opcode = IF got < 2 THEN ctx.opcode ELSE Opcode(f, cont)
        /\ ctx'.continuation = IF got < 2 THEN ctx.continuation ELSE Continuation(f, cont)
    BY <1>1, <1>3, <1>5, <1>12, HeaderFields
  <2>3. ctx'.opcode \in Opcodes \cup {Invalid}
    BY <1>3, <1>4, <1>6, <2>2 DEF Opcode, Opened, Opcodes
  <2>4. ctx'.continuation = cont \/ ctx'.continuation = Continuation(f, cont)
    BY <1>4, <2>2
  <2>5. got \in 0 .. h - 1
    <3>1. got \in 0 .. 14 /\ h \in {6, 8, 14} /\ got < h
      BY <1>6, <1>9, <1>12
    <3> HIDE DEF got, h
    <3> QED  BY <3>1
  <2>6. AtHeader(c, ctx', socket', out')
    BY <1>2, <1>3, <1>4, <1>12, <2>1, <2>2, <2>3, <2>4, <2>5 DEF AtHeader
  <2>7. out' = out /\ status' = "open" /\ current' = c
    BY <1>12
  <2> HIDE DEF a, got, extra, k, l, e, f, h, r, rest
  <2>8. Located(c, ctx', socket', out')
    BY <1>1, <2>2, <2>6 DEF Located
  <2> QED  BY <2>7, <2>8 DEF Moved, Given
<1>13. CASE Fail("protocol") /\ socket' = Rest(socket, n)
  <2>1. /\ status' = "protocol" /\ ctx' = Fresh(Invalid) /\ current' = current /\ out' = out
    BY <1>13 DEF Fail, CleanupComplete
  <2>2. socket' \in Seq(Places)
    BY <1>8, <1>13, SubSeqProperties DEF Rest
  <2> QED  BY <1>1, <2>1, <2>2 DEF Closed, Opened
<1>14. CASE /\ ~(got >= 2 /\ BadStart(f, ctx.continuation)) /\ got >= h /\ ~BadLength(f)
            /\ \E m \in Reads(NextRead(k), Rest(socket, n)) :
                 ReadAndDecode(k, extra, Rest(socket, n), m, len)
  <2>1. got >= 2 /\ e \in 0 .. l /\ h - r \in 0 .. n /\ a + (h - r) = 0
    <3>1. got >= h /\ h \in {6, 8, 14} /\ n \in Nat
      BY <1>6, <1>8, <1>14
    <3> HIDE DEF h, r, l
    <3> QED  BY <1>9, <3>1
  <2>2. ~BadStart(f, cont) /\ WellFormed(c)
    BY <1>2, <1>4, <1>5, <1>14, <2>1, RefusedIfBad
  <2>3. extra = Span(c, 0, e) /\ Len(extra) = e /\ Rest(socket, n) = Span(c, e, l) \o rest
    <3> DEFINE m == h - r
    <3>1. m \in 0 .. n /\ a + m = 0
      BY <2>1
    <3> HIDE DEF m, a, l, rest
    <3>2. /\ Rest(Span(c, a, l) \o rest, n) = Span(c, a + n, l) \o rest
          /\ Rest(First(Span(c, a, l) \o rest, n), m) = Span(c, 0, a + n)
          /\ Len(Span(c, 0, a + n)) = a + n
      BY <1>10, <3>1, Zenon DEF HeaderRow
    <3> QED  BY <1>11, <3>2 DEF m
  <2> HIDE DEF extra, got
  <2>4. /\ DOMAIN k = Fields /\ k.nRead = got /\ k.hybiDecodeState = "data_needed"
        /\ k.carry = <<>> /\ k.ready = <<>> /\ k.nReadPayload = Len(extra)
        /\ k.writePos = got /\ k.terminator = ctx.terminator
        /\ k.opcode = Opcode(f, cont) /\ k.continuation = Continuation(f, cont)
    <3>1. ~(got < 2)
      BY <1>9, <2>1
    <3> QED  BY <1>1, <1>3, <1>5, <3>1, HeaderFields DEF Fields
  <2>5. PICK m \in Reads(NextRead(k), Rest(socket, n)) :
          ReadAndDecode(k, extra, Rest(socket, n), m, len)
    BY <1>14
  <2> HIDE DEF k
  <2>6. Begun(c, k, cont)
    BY <1>4, <1>9, <2>2, <2>4 DEF Begun
  <2>7. Buffered(k)
    <3>1. Buffered(ctx)
      BY <1>2 DEF Decoder
    <3>2. Listed(<<>>) /\ Len(<<>>) = 0
      <4>1. << >> \in Seq({})
        OBVIOUS
      <4> QED  BY <4>1 DEF Listed
    <3> QED  BY <1>9, <2>1, <2>3, <2>4, <3>1, <3>2, DecoderAssumption, SMTT(30) DEF Buffered
  <2>8. k.carry \o extra = Span(c, 0, e)
    <3>1. Span(c, 0, e) \in Seq(Bytes)
      <4>1. 0 \in Int /\ e \in Int /\ 0 <= e
        BY <2>1
      <4> HIDE DEF e
      <4> QED  BY <1>2, <4>1, SpanListed
    <3> QED  BY <2>3, <2>4, <3>1, ConcatEmptySeq
  <2>9. out = Delivered(c) \o Span(c, 0, Decoded(k.opcode, f, 0))
    <3>1. Grouped(k.opcode, f)
      BY <1>2, <2>6, TextGrouped DEF Begun
    <3>2. Decoded(k.opcode, f, 0) = 0
      <4>1. 0 \in 0 .. f.len
        BY <1>6
      <4> QED  BY <1>6, <3>1, <4>1, DecodedBounds
    <3>3. Span(c, 0, 0) = <<>> /\ Delivered(c) \in Seq(Places)
      BY <1>1, <1>2, SpanEmpty, DeliveredParts
    <3> QED  BY <1>3, <3>2, <3>3, ConcatEmptySeq
  <2>10. 0 % 4 = 0 /\ 0 \in Nat /\ 0 <= k.nReadPayload /\ k.nReadPayload \in 0 .. f.len /\ k.nReadPayload = e
    BY <2>1, <2>3, <2>4
  <2> DEFINE s == Rest(socket, n)
  <2>11. s = Span(c, k.nReadPayload, f.len) \o rest
    BY <2>3, <2>10
  <2>12. m \in Reads(NextRead(k), s) /\ ReadAndDecode(k, extra, s, m, len)
    BY <2>5
  <2> HIDE DEF s, e
  <2> QED  BY <1>1, <1>2, <2>4, <2>6, <2>7, <2>8, <2>9, <2>10, <2>11, <2>12, ReadAndDecodeLocated
<1>15. got < h \/ got >= h
  BY <1>6, <1>9, SMTT(30)
<1> QED  BY <1>7, <1>12, <1>13, <1>14, <1>15

-----------------------------------------------------------------------------
(* The other calls.                                                           *)

LEMMA MoreLocated ==
  ASSUME frames \in Traffic, Receivable(frames), Position, Decoder, status = "open",
         NEW len \in Nat \ {0}, ReadMore(len)
  PROVE  Moved \/ Closed
<1> DEFINE c == current
           f == frames[c]
           p == ctx.nReadPayload
<1>1. /\ \A e \in Ends : c <= e
      /\ c \in 1 .. Len(frames) + 1 /\ c <= Len(frames)
      /\ ctx.hybiDecodeState \in {"data_needed", "close_reason_pending"}
      /\ \E cont \in Opened : Begun(c, ctx, cont)
      /\ \E q \in 0 .. p : \E g \in 0 .. Decoded(ctx.opcode, f, q) : Within(c, ctx, socket, out, q, g)
  BY DEF Position, Located, ReadMore
<1>2. c \in 1 .. Len(frames) /\ c \in Nat /\ f.len \in Nat /\ f \in Frame
  <2>1. c \in 1 .. Len(frames)
    BY <1>1, FramesTyped DEF Position, Located
  <2> QED  BY <2>1, ReceivableFrame
<1>3. PICK cont \in Opened : Begun(c, ctx, cont)
  BY <1>1
<1>4. PICK q \in 0 .. p : \E g \in 0 .. Decoded(ctx.opcode, f, q) : Within(c, ctx, socket, out, q, g)
  BY <1>1
<1>5. PICK g \in 0 .. Decoded(ctx.opcode, f, q) : Within(c, ctx, socket, out, q, g)
  BY <1>4
<1> DEFINE d == Decoded(ctx.opcode, f, q)
<1>6. /\ p \in 0 .. f.len /\ q \in 0 .. p /\ g = d /\ p < f.len
      /\ q % 4 = 0 \/ q = f.len
      /\ ctx.carry = Span(c, q, p) /\ ctx.ready = Span(c, g, d)
      /\ socket = Span(c, p, f.len) \o Unread(c + 1)
      /\ out = Delivered(c) \o Span(c, 0, g)
  BY <1>1, <1>5 DEF Within
<1>7. q \in Nat /\ p \in Nat /\ q <= p /\ q % 4 = 0
  BY <1>2, <1>6
<1>8. d \in Nat
  <2>1. Grouped(ctx.opcode, f)
    BY <1>2, <1>3, TextGrouped DEF Begun
  <2>2. q \in 0 .. f.len
    BY <1>2, <1>6
  <2> QED  BY <1>2, <2>1, <2>2, DecodedBounds
<1>9. ctx.ready = <<>>
  <2> HIDE DEF d
  <2>1. d \in Int
    BY <1>8
  <2> QED  BY <1>2, <1>6, <2>1, SpanEmpty
<1>10. ctx.carry \o <<>> = Span(c, q, p)
  <2>1. q \in Int /\ p \in Int
    BY <1>7
  <2> HIDE DEF p
  <2>2. Span(c, q, p) \in Seq(Bytes)
    BY <1>2, <1>7, <2>1, SpanListed
  <2> QED  BY <1>6, <2>2, ConcatEmptySeq
<1>11. Buffered(ctx)
  BY <1>1 DEF Decoder
<1>12. PICK n \in Reads(NextRead(ctx), socket) : ReadAndDecode(ctx, <<>>, socket, n, len)
  BY DEF ReadMore
<1> QED  BY <1>1, <1>2, <1>3, <1>6, <1>7, <1>9, <1>10, <1>11, <1>12, ReadAndDecodeLocated

LEMMA ReadyLocated ==
  ASSUME frames \in Traffic, Receivable(frames), Position, status = "open",
         NEW len \in Nat \ {0}, ReturnReady(len)
  PROVE  Moved
<1> DEFINE c == current
           f == frames[c]
           p == ctx.nReadPayload
<1>1. /\ \A e \in Ends : c <= e
      /\ c \in 1 .. Len(frames) + 1 /\ c <= Len(frames)
      /\ ctx.hybiDecodeState = "data_available" /\ ReturnData(ctx, len)
      /\ socket' = socket /\ status' = "open"
      /\ \E cont \in Opened : Begun(c, ctx, cont)
      /\ \E q \in 0 .. p : \E g \in 0 .. Decoded(ctx.opcode, f, q) : Within(c, ctx, socket, out, q, g)
  BY DEF Position, Located, ReturnReady
<1>2. c \in 1 .. Len(frames) /\ c \in Nat /\ f.len \in Nat /\ f \in Frame
  <2>1. c \in 1 .. Len(frames)
    BY <1>1, FramesTyped DEF Position, Located
  <2> QED  BY <2>1, ReceivableFrame
<1>3. PICK cont \in Opened : Begun(c, ctx, cont)
  BY <1>1
<1>4. PICK q \in 0 .. p : \E g \in 0 .. Decoded(ctx.opcode, f, q) : Within(c, ctx, socket, out, q, g)
  BY <1>1
<1>5. PICK g \in 0 .. Decoded(ctx.opcode, f, q) : Within(c, ctx, socket, out, q, g)
  BY <1>4
<1>6. /\ p \in 0 .. f.len /\ q \in 0 .. p /\ g < Decoded(ctx.opcode, f, q)
      /\ q % 4 = 0 \/ q = f.len
      /\ p = f.len => q = f.len
      /\ ctx.carry = Span(c, q, p) /\ ctx.ready = Span(c, g, Decoded(ctx.opcode, f, q))
      /\ socket = Span(c, p, f.len) \o Unread(c + 1)
      /\ out = Delivered(c) \o Span(c, 0, g)
  BY <1>1, <1>5 DEF Within
<1>7. Decoded(ctx.opcode, f, q) \in Nat
  <2>1. Grouped(ctx.opcode, f)
    BY <1>2, <1>3, TextGrouped DEF Begun
  <2>2. q \in 0 .. f.len
    BY <1>2, <1>6
  <2> QED  BY <1>2, <2>1, <2>2, DecodedBounds
<1>8. g \in Nat /\ g <= Decoded(ctx.opcode, f, q)
  BY <1>6, <1>7
<1>9. ctx.opcode # "close"
  <2>1. ctx.opcode = "close" => Decoded(ctx.opcode, f, q) = 0
    BY DEF Decoded
  <2> QED  BY <1>6, <1>8, <2>1
<1>10. Located(current', ctx', socket, out') /\ Given
  BY <1>1, <1>2, <1>3, <1>6, <1>8, <1>9, ReturnDataLocated
<1> QED  BY <1>1, <1>10 DEF Moved

-----------------------------------------------------------------------------
(* What the position means for the caller: the types, and that what was       *)
(* returned is a beginning of what was promised.                              *)

LEMMA PrefixOfConcat ==
  ASSUME NEW S, NEW s \in Seq(S), NEW t \in Seq(S)
  PROVE  IsPrefix(s, s \o t) /\ IsPrefix(s, s)
<1>1. /\ s \o t \in Seq(S) /\ Len(s \o t) = Len(s) + Len(t)
      /\ Len(s) \in Nat /\ Len(t) \in Nat
  BY ConcatProperties
<1>2. SubSeq(s \o t, 1, Len(s)) = SubSeq(s, 1, Len(s))
  <2>1. CASE Len(s) = 0
    BY <2>1, SubSeqEmpty
  <2>2. CASE Len(s) # 0
    <3>1. 1 \in 1 .. Len(s) /\ Len(s) \in 1 .. Len(s)
      BY <1>1, <2>2
    <3> QED  BY <3>1, SubSeqOfConcat1
  <2> QED  BY <2>1, <2>2
<1> QED  BY <1>1, <1>2 DEF IsPrefix

\* A row of the bytes of a frame from a on, and the frames after it.
LEMMA SocketPlaced ==
  ASSUME frames \in Traffic, Receivable(frames), NEW c \in 1 .. Len(frames),
         NEW a \in Int, -14 <= a, a <= frames[c].len
  PROVE  Span(c, a, frames[c].len) \o Unread(c + 1) \in Seq(Places)
<1> DEFINE l == frames[c].len
           u == Span(c, a, l)
           t == Unread(c + 1)
<1>1. l \in Nat /\ l < Wide /\ c + 1 \in 1 .. Len(frames) + 1
  BY ReceivableFrame
<1>2. t \in Seq(Places)
  BY <1>1, UnreadParts
<1>3. u \in Seq(Places)
  <2>1. l \in Int /\ a <= l
    BY <1>1
  <2> HIDE DEF l
  <2> QED  BY <1>1, <2>1, SpanPlaced
<1> HIDE DEF u, t
<1>4. u \o t \in Seq(Places)
  BY <1>2, <1>3
<1> QED  BY <1>4 DEF u, t

LEMMA ContinuationTyped ==
  ASSUME NEW f, f.op \in Opcodes, NEW cont \in Opened
  PROVE  /\ Continuation(f, cont) \in {"text", "binary", Invalid}
         /\ Opcode(f, cont) \in Opcodes \cup {Invalid}
<1> QED  BY DEF Continuation, Opcode, Opened, Opcodes, IsControl

\* Of what a frame stands for g bytes were returned.
LEMMA FramePrefix ==
  ASSUME frames \in Traffic, Receivable(frames), NEW c \in 1 .. Len(frames),
         NEW cont, Fragment(c, cont), WellFormed(c), \A e \in Ends : c <= e,
         NEW g \in Nat, g <= Decoded(Opcode(frames[c], cont), frames[c], frames[c].len)
  PROVE  /\ Delivered(c) \o Span(c, 0, g) \in Seq(Places)
         /\ IsPrefix(Delivered(c) \o Span(c, 0, g), Promised)
<1> DEFINE f     == frames[c]
           op    == Opcode(f, cont)
           total == Decoded(op, f, f.len)
           a     == Delivered(c)
           u     == Span(c, 0, g)
           v     == Span(c, g, total)
<1>1. /\ f \in Frame /\ f.len \in Nat /\ f.len < Wide /\ c \in Nat /\ Wide \in Nat
      /\ c \in 1 .. Len(frames) + 1 /\ c + 1 \in 1 .. Len(frames) + 1
  BY ReceivableFrame, DecoderAssumption
<1>2. total \in Nat /\ total <= f.len
  <2>1. Grouped(op, f) /\ f.len \in 0 .. f.len
    BY <1>1, TextGrouped
  <2> HIDE DEF op
  <2> QED  BY <1>1, <2>1, DecodedBounds
<1>3. Parts[c] = Span(c, 0, total)
  BY PartOfFrame
<1>4. Delivered(c + 1) = a \o Parts[c] /\ a \in Seq(Places)
  BY <1>1, DeliveredParts
<1>5. PICK t \in Seq(Places) : Promised = Delivered(c + 1) \o t
  BY <1>1, DeliveredParts
<1> HIDE DEF total
<1>6. g <= total /\ 0 \in Int /\ g \in Int /\ total \in Int /\ -14 <= 0 /\ 0 <= g /\ -14 <= g
      /\ g < Wide /\ total < Wide
  BY <1>1, <1>2 DEF total
<1>7. Span(c, 0, total) = u \o v
  BY <1>1, <1>6, SpanConcat, Zenon
<1>8. u \in Seq(Places)
  BY <1>6, SpanPlaced
<1>9. v \in Seq(Places)
  BY <1>6, SpanPlaced
<1> HIDE DEF a, u, v
<1>10. a \o u \in Seq(Places) /\ v \o t \in Seq(Places) /\ u \o v \in Seq(Places)
  BY <1>4, <1>8, <1>9
<1>11. Promised = (a \o u) \o (v \o t)
  <2>1. Promised = (a \o (u \o v)) \o t
    BY <1>3, <1>4, <1>5, <1>7
  <2>2. a \o (u \o v) = (a \o u) \o v
    <3>1. a \in Seq(Places)
      BY <1>4
    <3>2. (a \o u) \o v = a \o (u \o v)
      BY <1>8, <1>9, <3>1, ConcatAssociative, SMTT(60)
    <3> QED  BY <3>2
  <2> DEFINE b == a \o u
  <2>3. b \in Seq(Places)
    BY <1>10
  <2> HIDE DEF b
  <2>4. (b \o v) \o t = b \o (v \o t)
    BY <1>9, <2>3, ConcatAssociative, SMTT(60)
  <2> QED  BY <2>1, <2>2, <2>4 DEF b
<1>12. IsPrefix(a \o u, Promised)
  BY <1>10, <1>11, PrefixOfConcat
<1> QED  BY <1>10, <1>12 DEF a, u

LEMMA PositionTyped ==
  ASSUME frames \in Traffic, Receivable(frames), Position, Decoder, status = "open"
  PROVE  TypeOK /\ IsPrefix(out, Promised)
<1> DEFINE c == current
           f == frames[c]
           p == ctx.nReadPayload
<1>1. /\ c \in 1 .. Len(frames) + 1
      /\ \A e \in Ends : c <= e
      /\ Wide \in Nat /\ Wide > 0 /\ BufSize \in Nat /\ BufSize > 17 /\ Len(frames) \in Nat
  BY FramesTyped, DecoderAssumption DEF Position, Located
<1>2. c <= Len(frames) => /\ {ctx.writePos, ctx.terminator} \subseteq 0 .. BufSize - 1
                          /\ Len(ctx.carry) <= 3
  <2>1. SUFFICES ASSUME c <= Len(frames)
                 PROVE  /\ ctx.writePos \in 0 .. BufSize - 1 /\ ctx.terminator \in 0 .. BufSize - 1
                        /\ Len(ctx.carry) <= 3
    OBVIOUS
  <2>2. Buffered(ctx)
    BY <2>1 DEF Decoder
  <2> DEFINE w == ctx.writePos
             n == Len(ctx.carry)
  <2>3. /\ w \in Nat /\ n \in 0 .. 3 /\ w + n < BufSize
        /\ ctx.terminator \in 0 .. BufSize - 1
    BY <2>2 DEF Buffered
  <2>4. w \in 0 .. BufSize - 1 /\ n <= 3
    <3> HIDE DEF w, n
    <3> QED  BY <1>1, <2>3
  <2> QED  BY <2>3, <2>4
<1>3. /\ Delivered(c) \in Seq(Places) /\ IsPrefix(Delivered(c), Promised)
  BY <1>1, DeliveredParts, PrefixOfConcat
<1>4. CASE ctx.hybiDecodeState = "header_pending" /\ AtHeader(c, ctx, socket, out)
  <2>1. /\ ctx.carry = <<>> /\ ctx.ready = <<>> /\ p = 0
        /\ ctx.opcode \in Opcodes \cup {Invalid} /\ out = Delivered(c)
    BY <1>4 DEF AtHeader
  <2>2. PICK cont \in Opened : \/ ctx.continuation = cont
                               \/ c <= Len(frames) /\ ctx.continuation = Continuation(f, cont)
    BY <1>4 DEF AtHeader
  <2>3. <<>> \in Seq(Places) /\ Len(<<>>) = 0
    OBVIOUS
  <2>4. CASE c <= Len(frames)
    <3>1. c \in 1 .. Len(frames)
      BY <1>1, <2>4
    <3>2. f.op \in Opcodes /\ f.len \in Nat /\ HeaderLen(f) \in 1 .. 14
      BY <3>1, ReceivableFrame
    <3>3. /\ ctx.nRead \in 0 .. HeaderLen(f) - 1
          /\ socket = Span(c, ctx.nRead - HeaderLen(f), f.len) \o Unread(c + 1)
      BY <1>4, <2>4 DEF AtHeader
    <3>4. socket \in Seq(Places) /\ ctx.nRead \in 0 .. 14
      <4> DEFINE h == HeaderLen(f)
                 r == ctx.nRead
                 l == f.len
                 a == r - h
      <4>0. l \in Nat /\ h \in 1 .. 14 /\ r \in 0 .. h - 1
        BY <3>2, <3>3
      <4>1. a \in Int /\ -14 <= a /\ a <= l /\ r \in 0 .. 14
        <5> HIDE DEF h, r, l
        <5> QED  BY <4>0
      <4>2. socket = Span(c, a, l) \o Unread(c + 1)
        BY <3>3
      <4> HIDE DEF a
      <4> QED  BY <3>1, <4>1, <4>2, SocketPlaced
    <3>5. ctx.continuation \in {"text", "binary", Invalid}
      BY <2>2, <3>2, ContinuationTyped DEF Opened
    <3> QED  BY <1>1, <1>2, <1>3, <1>4, <2>1, <2>3, <2>4, <3>4, <3>5 DEF TypeOK, States, WSHLENMAX
  <2>5. CASE ~(c <= Len(frames))
    <3>1. ctx.nRead = 0 /\ socket = <<>> /\ ctx.writePos = 0 /\ ctx.terminator = 0
      BY <1>4, <2>5 DEF AtHeader
    <3>2. ctx.continuation \in {"text", "binary", Invalid}
      BY <2>2, <2>5 DEF Opened
    <3> QED  BY <1>1, <1>3, <1>4, <2>1, <2>3, <3>1, <3>2 DEF TypeOK, States, WSHLENMAX
  <2> QED  BY <2>4, <2>5
<1>5. CASE /\ c <= Len(frames)
           /\ \E cont \in Opened : Begun(c, ctx, cont)
           /\ \E q \in 0 .. p : \E g \in 0 .. Decoded(ctx.opcode, f, q) :
                Within(c, ctx, socket, out, q, g)
  <2>1. c \in 1 .. Len(frames)
    BY <1>1, <1>5
  <2>2. f.op \in Opcodes /\ f \in Frame /\ f.len \in Nat /\ f.len < Wide
    BY <2>1, ReceivableFrame
  <2>3. PICK cont \in Opened : Begun(c, ctx, cont)
    BY <1>5
  <2>4. PICK q \in 0 .. p : \E g \in 0 .. Decoded(ctx.opcode, f, q) : Within(c, ctx, socket, out, q, g)
    BY <1>5
  <2>5. PICK g \in 0 .. Decoded(ctx.opcode, f, q) : Within(c, ctx, socket, out, q, g)
    BY <2>4
  <2> DEFINE d     == Decoded(ctx.opcode, f, q)
             total == Decoded(ctx.opcode, f, f.len)
  <2>6. /\ p \in 0 .. f.len /\ q \in 0 .. p /\ g \in 0 .. d
        /\ ctx.carry = Span(c, q, p) /\ ctx.ready = Span(c, g, d)
        /\ socket = Span(c, p, f.len) \o Unread(c + 1)
        /\ out = Delivered(c) \o Span(c, 0, g)
        /\ ctx.hybiDecodeState \in States
    BY <2>5 DEF Within, States
  <2>7. /\ ctx.opcode = Opcode(f, cont) /\ ctx.continuation = Continuation(f, cont)
        /\ ctx.nRead \in 0 .. 14 /\ Fragment(c, cont) /\ WellFormed(c)
    BY <2>3 DEF Begun
  <2>8. d \in Nat /\ total \in Nat /\ d <= total /\ total <= f.len
    <3>1. Grouped(ctx.opcode, f)
      BY <2>1, <2>7, TextGrouped
    <3>2. q \in 0 .. f.len
      BY <2>2, <2>6
    <3> QED  BY <2>2, <3>1, <3>2, DecodedBounds
  <2>9. out \in Seq(Places) /\ IsPrefix(out, Promised)
    <3>1. g \in Nat /\ g <= Decoded(Opcode(f, cont), f, f.len)
      BY <2>6, <2>7, <2>8
    <3> QED  BY <1>1, <2>1, <2>6, <2>7, <3>1, FramePrefix
  <2> HIDE DEF d
  <2>10. /\ p \in Int /\ q \in Int /\ g \in Int /\ d \in Int
         /\ -14 <= p /\ -14 <= q /\ -14 <= g /\ q <= p /\ g <= d /\ p <= f.len
         /\ p < Wide /\ d < Wide /\ p \in 0 .. Wide - 1
    <3> DEFINE l == f.len
    <3>1. /\ l \in Nat /\ l < Wide /\ Wide \in Nat /\ p \in 0 .. l /\ q \in 0 .. p /\ g \in 0 .. d
          /\ d \in Nat /\ d <= l
      <4>1. d \in Nat /\ d <= total /\ total <= f.len /\ total \in Nat
        BY <2>8
      <4> HIDE DEF total
      <4> QED  BY <1>1, <2>2, <2>6, <4>1
    <3> HIDE DEF l, p
    <3>2. /\ p \in Int /\ q \in Int /\ g \in Int /\ d \in Int
          /\ -14 <= p /\ -14 <= q /\ -14 <= g /\ q <= p /\ g <= d /\ p <= l
          /\ p < Wide /\ d < Wide /\ p \in 0 .. Wide - 1
      BY <3>1
    <3> QED  BY <3>2 DEF l
  <2>11. ctx.carry \in Seq(Places)
    BY <2>1, <2>6, <2>10, SpanPlaced
  <2>12. ctx.ready \in Seq(Places)
    BY <2>1, <2>6, <2>10, SpanPlaced
  <2>13. socket \in Seq(Places)
    BY <2>1, <2>6, <2>10, SocketPlaced
  <2>14. ctx.continuation \in {"text", "binary", Invalid} /\ ctx.opcode \in Opcodes \cup {Invalid}
    BY <2>2, <2>7, ContinuationTyped
  <2> QED  BY <1>1, <1>2, <1>5, <2>6, <2>7, <2>9, <2>10, <2>11, <2>12, <2>13, <2>14
           DEF TypeOK, WSHLENMAX
<1> QED  BY <1>4, <1>5 DEF Position, Located

LEMMA PositionTypedNext ==
  (frames \in Traffic /\ Receivable(frames) /\ Position /\ Decoder /\ status = "open")'
    => (TypeOK /\ IsPrefix(out, Promised))'
<1>1. frames \in Traffic /\ Receivable(frames) /\ Position /\ Decoder /\ status = "open"
        => TypeOK /\ IsPrefix(out, Promised)
  BY PositionTyped
<1> QED  BY <1>1, PTL

-----------------------------------------------------------------------------
(* The theorems.                                                              *)

\* A connection that is not open any more stays as it is.
Streaming ==
  /\ Receivable(frames) /\ Decoder /\ TypeOK
  /\ IsPrefix(out, Promised)
  /\ status = "open" => Position

LEMMA StreamingInit ==
  ASSUME \A fs \in Traffic : Receivable(fs)
  PROVE  Init => Streaming
<1> SUFFICES ASSUME Init PROVE Streaming
  OBVIOUS
<1>1. /\ frames \in Traffic /\ Receivable(frames) /\ current = 1 /\ out = <<>>
      /\ ctx = Fresh(Invalid) /\ socket = Stream /\ status = "open"
  BY DEF Init, CleanupComplete
<1>2. 1 \in 1 .. Len(frames) + 1
  BY <1>1, FramesTyped
<1>3. Fragment(1, Invalid)
  <2>1. 1 .. 1 - 1 = {}
    OBVIOUS
  <2> QED  BY <2>1 DEF Fragment
<1>4. \A e \in Ends : 1 <= e
  BY DEF Ends
<1>5. Located(1, Fresh(Invalid), Unread(1), Delivered(1))
  BY <1>1, <1>2, <1>3, <1>4, FreshLocated
<1>6. Position
  BY <1>1, <1>5, UnreadParts, DeliveredParts DEF Position
<1> QED  BY <1>1, <1>6, DecoderInit, PositionTyped DEF Streaming

\* A call that closes the connection.
LEMMA ClosedTyped ==
  ASSUME frames \in Traffic, frames' = frames, Closed, TypeOK
  PROVE  TypeOK' /\ status' # "open" /\ out' = out
<1>1. PICK cont \in Opened : ctx' = Fresh(cont)
  BY DEF Closed
<1>2. /\ ctx'.hybiDecodeState = "header_pending" /\ ctx'.nRead = 0 /\ ctx'.nReadPayload = 0
      /\ ctx'.opcode = Invalid /\ ctx'.continuation = cont
      /\ ctx'.carry = <<>> /\ ctx'.ready = <<>> /\ ctx'.writePos = 0 /\ ctx'.terminator = 0
  BY <1>1 DEF Fresh
<1>3. Wide \in Nat /\ Wide > 0 /\ BufSize \in Nat /\ BufSize > 17
  BY DecoderAssumption
<1>4. <<>> \in Seq(Places') /\ Len(<<>>) = 0 /\ Places' = Places
  BY DEF Places
<1>5. /\ status' \in {"reset", "protocol", "failed"} /\ out' = out /\ out \in Seq(Places)
      /\ current' \in 1 .. Len(frames) + 1 /\ socket' \in Seq(Places)
  BY DEF Closed, TypeOK
<1> QED  BY <1>1, <1>2, <1>3, <1>4, <1>5 DEF TypeOK, States, WSHLENMAX, Opened

LEMMA StreamingNext ==
  ASSUME Streaming, [Next]_vars, \A len \in Lengths : len \in Nat \ {0}
  PROVE  Streaming' /\ frames' = frames /\ (out' = out \/ IsPrefix(out, out'))
<1>1. frames \in Traffic /\ out \in Seq(Places) /\ Receivable(frames)
  BY DEF Streaming, TypeOK
<1>2. CASE UNCHANGED vars
  <2>1. frames' = frames /\ out' = out
    BY <1>2 DEF vars
  <2>2. Promised' = Promised
    BY <1>1, <2>1, FramesSame
  <2>3. Decoder'
    BY <1>2, DecoderStep DEF Streaming
  <2>4. TypeOK'
    BY <1>2 DEF Streaming, TypeOK, Places, vars
  <2>5. status = "open" => Position'
    <3>1. ASSUME Position PROVE Located(current', ctx', socket', out')
      BY <1>2, <3>1 DEF Position, vars
    <3> QED  BY <1>1, <2>1, <3>1, PositionKept DEF Streaming
  <2> QED  BY <1>1, <1>2, <2>1, <2>2, <2>3, <2>4, <2>5 DEF Streaming, vars
<1>3. ASSUME Moved \/ Closed, frames' = frames, Next
      PROVE  Streaming' /\ frames' = frames /\ (out' = out \/ IsPrefix(out, out'))
  <2>1. Promised' = Promised /\ Receivable(frames')
    BY <1>1, <1>3, FramesSame
  <2>2. Decoder'
    BY <1>3, DecoderStep DEF Streaming
  <2>3. CASE Moved
    <3>1. Position' /\ status' = "open"
      BY <1>1, <1>3, <2>3, PositionKept DEF Moved
    <3>2. (TypeOK /\ IsPrefix(out, Promised))'
      <4>1. frames' \in Traffic
        BY <1>1, <1>3
      <4> QED  BY <2>1, <2>2, <3>1, <4>1, PositionTypedNext
    <3>3. out' = out \/ IsPrefix(out, out')
      <4>1. out \in Seq(Bytes)
        BY <1>1, PlacesAreBytes
      <4> QED  BY <2>3, <4>1, PrefixOfConcat DEF Moved, Given
    <3> QED  BY <1>3, <2>1, <2>2, <3>1, <3>2, <3>3 DEF Streaming
  <2>4. CASE Closed
    <3>1. TypeOK' /\ status' # "open" /\ out' = out
      BY <1>1, <1>3, <2>4, ClosedTyped DEF Streaming
    <3> QED  BY <1>3, <2>1, <2>2, <3>1 DEF Streaming
  <2> QED  BY <1>3, <2>3, <2>4
<1>4. CASE SocketFails
  <2>1. /\ status' = "failed" /\ ctx' = Fresh(Invalid) /\ current' = current /\ out' = out
        /\ frames' = frames /\ socket' = socket
    BY <1>4 DEF SocketFails, Fail, CleanupComplete
  <2>2. Closed
    BY <2>1 DEF Closed, Streaming, TypeOK, Opened
  <2> QED  BY <1>3, <1>4, <2>1, <2>2 DEF Next
<1>5. ASSUME NEW len \in Lengths, webSocketsDecodeHybi(len)
      PROVE  Streaming' /\ frames' = frames /\ (out' = out \/ IsPrefix(out, out'))
  <2>1. /\ len \in Nat \ {0} /\ status = "open" /\ frames' = frames /\ Next
        /\ ReadHeader(len) \/ ReadMore(len) \/ ReturnReady(len)
    BY <1>5 DEF webSocketsDecodeHybi, Next
  <2>2. Position /\ Decoder
    BY <2>1 DEF Streaming
  <2>3. Moved \/ Closed
    BY <1>1, <2>1, <2>2, HeaderLocated, MoreLocated, ReadyLocated
  <2> QED  BY <1>3, <2>1, <2>3
<1> QED  BY <1>2, <1>4, <1>5 DEF Next

\* For every frame a client may send, however long, in whatever pieces it arrives
\* and however little the caller takes: the decoder is where the frames and the
\* bytes it has read say (ws_ctx_t, ws_decode.h).
THEOREM DecoderTypeCorrect ==
  ASSUME \A fs \in Traffic : Receivable(fs)
  PROVE  Spec => []TypeOK
<1>1. \A len \in Lengths : len \in Nat \ {0}
  BY DecoderAssumption
<1>2. Init => Streaming
  BY StreamingInit
<1>3. Streaming /\ [Next]_vars => Streaming'
  BY <1>1, StreamingNext
<1>4. Streaming => TypeOK
  BY DEF Streaming
<1> QED  BY <1>2, <1>3, <1>4, PTL DEF Spec

\* webSocketsDecodeHybi emulates a read on a byte stream: whatever frames the client
\* sends, in whatever pieces they arrive, whatever is carried over between calls,
\* with control frames between the fragments of a message, the caller is given
\* the client's data in order, nothing missing, repeated or garbled
\* (ws_decode.c 468-497).
THEOREM StreamEmulated ==
  ASSUME \A fs \in Traffic : Receivable(fs)
  PROVE  Spec => StreamSpec
<1>1. \A len \in Lengths : len \in Nat \ {0}
  BY DecoderAssumption
<1>2. Init => Streaming /\ Emulated!Init
  BY StreamingInit DEF Init, Emulated!Init
<1>3. Streaming /\ [Next]_vars => Streaming' /\ [Emulated!Deliver]_<<Promised, out>>
  <2> SUFFICES ASSUME Streaming, [Next]_vars
               PROVE  Streaming' /\ [Emulated!Deliver]_<<Promised, out>>
    OBVIOUS
  <2>1. Streaming' /\ frames' = frames /\ (out' = out \/ IsPrefix(out, out'))
    BY <1>1, StreamingNext
  <2>2. Promised' = Promised
    BY <2>1, FramesSame DEF Streaming, TypeOK
  <2>3. IsPrefix(out', Promised)
    BY <2>1, <2>2 DEF Streaming
  <2> QED  BY <2>1, <2>2, <2>3 DEF Emulated!Deliver, Emulated!IsPrefix, IsPrefix
<1> QED  BY <1>2, <1>3, PTL DEF Spec, StreamSpec, Emulated!Spec
=============================================================================
