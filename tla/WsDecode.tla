------------------------------ MODULE WsDecode ------------------------------
(* The WebSocket decoder of ws_decode.c: webSocketsDecodeHybi emulates a    *)
(* read on a socket whose bytes are RFC 6455 frames.  The payload of a      *)
(* frame arrives in pieces of any size, partly together with the header; it *)
(* is unmasked in multiples of four bytes, what is left over is carried to  *)
(* the next call.                                                           *)
EXTENDS Integers, Sequences, SequencesExt, FiniteSets

CONSTANTS
  Traffic,     \* the sequences of frames a client may send
  Lengths,     \* how many bytes the caller asks for
  BufSize,     \* size of codeBufDecode (2048 + 14 in the code)
  Extended,    \* payload lengths from here on take the extended header (126)
  Long,        \* ... and from here on the long one (65536)
  Wide         \* bound of the unsigned 64-bit counters

Invalid == "invalid"                       \* WS_OPCODE_INVALID
Opcodes == {"continuation", "text", "binary", "close", "ping"}
Forms == {"short", "extended", "long"}
\* A frame as it is sent: `form' is that of its length field, `len' the bytes of
\* payload, `pad' the padding at the end of a payload in Base64.
Frame == [op : Opcodes, fin : BOOLEAN, masked : BOOLEAN, form : Forms,
          len : Nat, pad : 0 .. 2]

ASSUME DecoderAssumption ==
  /\ Traffic \subseteq Seq(Frame)
  /\ Lengths \subseteq Nat \ {0}
  /\ {BufSize, Extended, Long, Wide} \subseteq Nat
  /\ BufSize > 14 + 3 /\ Extended <= Long /\ Wide > 0

VARIABLES
  frames,      \* what this client sends
  socket,      \* the bytes that are still to be read
  current,     \* the frame the decoder is in
  ctx,         \* ws_ctx_t
  out,         \* what the caller was given so far
  status       \* how the connection stands

vars == <<frames, socket, current, ctx, out, status>>

IsControl(op) == op \in {"close", "ping"}
WSHLENMAX == 14
HeaderLen(f) == CASE f.form = "short" -> 6 [] f.form = "extended" -> 8 [] f.form = "long" -> 14

\* The bytes on the wire: <<i, o>> is byte o of the payload of frame i, or a
\* byte of its header if o is not positive.
Wire(i) == [o \in 1 .. HeaderLen(frames[i]) + frames[i].len |-> <<i, o - HeaderLen(frames[i])>>]
Stream == FlattenSeq([i \in 1 .. Len(frames) |-> Wire(i)])

-----------------------------------------------------------------------------
(* The decoder's state; `terminator' is where the last string ended.         *)

Fresh(cont) ==
  [ hybiDecodeState |-> "header_pending", nRead |-> 0, opcode |-> Invalid,
    continuation |-> cont, nReadPayload |-> 0, carry |-> <<>>, ready |-> <<>>,
    writePos |-> 0, terminator |-> 0 ]

\* hybiDecodeCleanupForContinuation and hybiDecodeCleanupComplete.
CleanupForContinuation(k) == Fresh(k.continuation)
CleanupComplete == Fresh(Invalid)

\* hybiRemaining, in unsigned 64-bit arithmetic.
Remaining(read) == ((Wide + frames[current].len) - read) % Wide

\* How much a read of at most n of the bytes s may return, and what it leaves.
Reads(n, s) == IF n = 0 THEN {0} ELSE {m \in 1 .. n : m <= Len(s)}
First(s, n) == [j \in 1 .. n |-> s[j]]
Rest(s, n) == SubSeq(s, n + 1, Len(s))

\* Unmasking takes byte j of a block for byte j of the mask; what is not
\* meant to be there, or not at this place, comes out as garbage.
Garbage == <<0, 0>>
Unmasked(block) ==
  [j \in 1 .. Len(block) |->
     IF block[j][1] = current /\ block[j][2] >= 1 /\ ((block[j][2] - j) % 4) = 0
       THEN block[j] ELSE Garbage]

Data(f) == IF f.op = "text" THEN 3 * (f.len \div 4) - f.pad ELSE f.len
\* rfbBase64PtoN: four characters make three bytes; anything else is an error.
Base64(chars) ==
  IF chars = <<>> \/ Garbage \in Range(chars) \/ Len(chars) % 4 # 0
    THEN <<>>
    ELSE LET first == 3 * (chars[1][2] \div 4)
             whole == 3 * (frames[current].len \div 4) - frames[current].pad
             last  == first + 3 * (Len(chars) \div 4)
         IN  [j \in 1 .. (IF last < whole THEN last ELSE whole) - first |-> <<current, first + j>>]

\* What of a block of unmasked payload is returned to the caller.
Payload(op, block) ==
  CASE op = "text" -> Base64(block)
    [] op = "binary" -> block
    [] OTHER -> <<>>

-----------------------------------------------------------------------------
(* The end of webSocketsDecodeHybi: a frame that is complete is left behind. *)

Settle(k, given) ==
  LET done == k.hybiDecodeState = "frame_complete"
  IN  /\ ctx' = IF ~done THEN k
                ELSE IF frames[current].fin /\ ~IsControl(k.opcode) THEN CleanupComplete
                ELSE CleanupForContinuation(k)
      /\ current' = IF done THEN current + 1 ELSE current
      /\ out' = out \o given

\* hybiReturnData: up to len of the bytes that are ready.
ReturnData(k, len) ==
  LET n == IF Len(k.ready) > len THEN len ELSE Len(k.ready)
      rest == Rest(k.ready, n)
      next == IF rest # <<>> THEN "data_available"
              ELSE IF n = 0 THEN k.hybiDecodeState
              ELSE IF Remaining(k.nReadPayload) = 0 THEN "frame_complete"
              ELSE "data_needed"
  IN  Settle([k EXCEPT !.ready = rest, !.hybiDecodeState = next], First(k.ready, n))

\* Faulty NextRead: no byte is kept free.
NextReadFull(k) ==
  LET bufsize == BufSize - (k.writePos + Len(k.carry))
  IN  IF Remaining(k.nReadPayload) > bufsize THEN bufsize ELSE Remaining(k.nReadPayload)

\* Faulty NextRead: what is carried over is forgotten.
NextReadNoCarry(k) ==
  LET bufsize == BufSize - k.writePos - 1
  IN  IF Remaining(k.nReadPayload) > bufsize THEN bufsize ELSE Remaining(k.nReadPayload)

\* How much hybiReadAndDecode asks the socket for; the byte it keeps free is for
\* the end of a string.
NextRead(k) ==
  LET bufsize == BufSize - (k.writePos + Len(k.carry)) - 1
  IN  IF Remaining(k.nReadPayload) > bufsize THEN bufsize ELSE Remaining(k.nReadPayload)

\* Faulty Whole: everything is unmasked at once.
WholeAtOnce(m, complete) == m

\* How much of a block of m bytes is unmasked now.
Whole(m, complete) == IF complete THEN m ELSE m - (m % 4)

\* hybiReadAndDecode: `buffered' came with the header, n more bytes are read
\* from the bytes s.
ReadAndDecode(k, buffered, s, n, len) ==
  LET read     == k.nReadPayload + n
      complete == Remaining(read) = 0
      block    == k.carry \o buffered \o First(s, n)
      whole    == Whole(Len(block), complete)
      carry    == Rest(block, whole)
      end      == k.writePos + Len(k.carry) + n - Len(carry)
      more     == [k EXCEPT !.nReadPayload = read, !.carry = carry, !.writePos = end,
                            !.terminator = end,
                            !.hybiDecodeState = IF complete THEN "frame_complete" ELSE @]
  IN  /\ socket' = Rest(s, n)
      /\ IF k.opcode = "close"
           THEN /\ status' = IF complete THEN "reset" ELSE status
                /\ Settle([more EXCEPT !.hybiDecodeState =
                             IF complete THEN @ ELSE "close_reason_pending"], <<>>)
           ELSE /\ status' = status
                /\ ReturnData([more EXCEPT
                     !.writePos = IF k.opcode = "ping" THEN @ ELSE HeaderLen(frames[current]),
                     !.ready = Payload(k.opcode, Unmasked(First(block, whole)))], len)

Fail(why) ==
  /\ status' = why /\ ctx' = CleanupComplete
  /\ UNCHANGED <<current, out>>

-----------------------------------------------------------------------------
(* hybiReadHeader.                                                           *)

\* Faulty Continuation: control frames are not told apart.
ContinuationOfAny(f, cont) ==
  IF f.op = "continuation" THEN cont ELSE IF f.fin THEN Invalid ELSE f.op

\* The opcode a header stands for, and the one continuations of it have.
Opcode(f, cont) == IF f.op = "continuation" THEN cont ELSE f.op
Continuation(f, cont) ==
  IF IsControl(f.op) \/ f.op = "continuation" THEN cont
  ELSE IF f.fin THEN Invalid ELSE f.op

\* What two bytes of a header show to be wrong, and what the length shows.
BadStart(f, cont) ==
  \/ IsControl(f.op) /\ ~f.fin
  \/ f.op = "continuation" /\ cont = Invalid
  \/ ~f.masked
BadLength(f) ==
  \/ f.form # "short" /\ f.len < Extended
  \/ f.form = "long" /\ f.len < Long

Header(got) ==
  LET f == frames[current]
  IN  [ctx EXCEPT !.nRead = got,
         !.opcode = IF got < 2 THEN @ ELSE Opcode(f, ctx.continuation),
         !.continuation = IF got < 2 THEN @ ELSE Continuation(f, ctx.continuation)]

\* The three outcomes of reading n more bytes of a header: not all of it is
\* there, it is refused, or payload follows, of which some may be there
\* already.
ReadHeader(len) ==
  /\ ctx.hybiDecodeState = "header_pending" /\ socket # <<>>
  /\ \E n \in Reads(WSHLENMAX - ctx.nRead, socket) :
       LET f      == frames[current]
           got    == ctx.nRead + n
           bad    == got >= 2 /\ BadStart(f, ctx.continuation)
           all    == got >= HeaderLen(f)
           extra  == Rest(First(socket, n), HeaderLen(f) - ctx.nRead)
           k      == [Header(got) EXCEPT !.hybiDecodeState = "data_needed", !.writePos = got,
                                         !.nReadPayload = Len(extra)]
       IN  \/ /\ ~bad /\ ~all
              /\ ctx' = Header(got) /\ socket' = Rest(socket, n)
              /\ UNCHANGED <<current, out, status>>
           \/ /\ bad \/ (all /\ BadLength(f))
              /\ Fail("protocol") /\ socket' = Rest(socket, n)
           \/ /\ ~bad /\ all /\ ~BadLength(f)
              /\ \E m \in Reads(NextRead(k), Rest(socket, n)) :
                   ReadAndDecode(k, extra, Rest(socket, n), m, len)

ReadMore(len) ==
  /\ ctx.hybiDecodeState \in {"data_needed", "close_reason_pending"}
  /\ \E n \in Reads(NextRead(ctx), socket) : ReadAndDecode(ctx, <<>>, socket, n, len)

ReturnReady(len) ==
  /\ ctx.hybiDecodeState = "data_available"
  /\ ReturnData(ctx, len)
  /\ UNCHANGED <<socket, status>>

\* The socket is closed or fails where the decoder reads; the caller gives up.
SocketFails ==
  /\ status = "open" /\ ctx.hybiDecodeState # "data_available"
  /\ Fail("failed")
  /\ UNCHANGED <<frames, socket>>

webSocketsDecodeHybi(len) ==
  /\ status = "open"
  /\ ReadHeader(len) \/ ReadMore(len) \/ ReturnReady(len)
  /\ UNCHANGED frames

Init ==
  /\ frames \in Traffic /\ socket = Stream /\ current = 1
  /\ ctx = CleanupComplete /\ out = <<>> /\ status = "open"

Next == (\E len \in Lengths : webSocketsDecodeHybi(len)) \/ SocketFails

Spec == Init /\ [][Next]_vars
\* The caller reads again and again as long as there is something to read.
FairSpec == Spec /\ WF_vars(\E len \in Lengths : webSocketsDecodeHybi(len))

-----------------------------------------------------------------------------
States == {"header_pending", "data_available", "data_needed", "close_reason_pending"}
Places == (0 .. Len(frames)) \X (1 - WSHLENMAX .. Wide - 1)

\* The decode buffer is never overrun: what is decoded, what is carried over
\* and the end of a string have their place in it, whatever the length of
\* the frames and of the pieces they arrive in, and also after hybiRemaining
\* has wrapped around (ws_decode.c 346-370, 395-438).
BufferBounded ==
  current <= Len(frames) =>
    /\ Len(ctx.carry) \in 0 .. 3
    /\ ctx.writePos \in Nat /\ ctx.writePos + Len(ctx.carry) < BufSize
    /\ ctx.terminator \in 0 .. BufSize - 1

TypeOK ==
  /\ frames \in Traffic /\ socket \in Seq(Places)
  /\ current \in 1 .. Len(frames) + 1
  /\ status \in {"open", "reset", "protocol", "failed"}
  /\ out \in Seq(Places)
  /\ ctx.hybiDecodeState \in States
  /\ ctx.nRead \in 0 .. WSHLENMAX /\ ctx.nReadPayload \in 0 .. Wide - 1
  /\ ctx.opcode \in Opcodes \cup {Invalid} /\ ctx.continuation \in {"text", "binary", Invalid}
  /\ ctx.carry \in Seq(Places) /\ Len(ctx.carry) <= 3
  /\ ctx.ready \in Seq(Places)
  /\ {ctx.writePos, ctx.terminator} \subseteq 0 .. BufSize - 1

(* What the client meant, told from the frames alone.                       *)

Starts(i) == frames[i].op \in {"text", "binary"}
\* The message a continuation belongs to was begun by frame j.
Continues(i, j) ==
  /\ j < i /\ Starts(j) /\ ~frames[j].fin
  /\ \A n \in j + 1 .. i - 1 : IsControl(frames[n].op) \/ (frames[n].op = "continuation" /\ ~frames[n].fin)
\* The frame whose opcode says how the data of frame i is sent.
Beginning(i) == IF Starts(i) THEN i ELSE CHOOSE j \in 1 .. i : Continues(i, j)
WellFormed(i) ==
  LET f == frames[i]
  IN  /\ f.masked /\ ~BadLength(f)
      /\ IsControl(f.op) => f.fin
      /\ f.op = "continuation" => \E j \in 1 .. i : Continues(i, j)
IsData(i) == Starts(i) \/ frames[i].op = "continuation"

\* The data in frame i.
Content(i) ==
  [j \in 1 .. Data([frames[i] EXCEPT !.op = frames[Beginning(i)].op]) |-> <<i, j>>]
\* The connection ends with the first frame that is not well-formed or closes it.
Ends == {i \in 1 .. Len(frames) : ~WellFormed(i) \/ frames[i].op = "close"}
Promised ==
  FlattenSeq([i \in 1 .. Len(frames) |->
    IF IsData(i) /\ (\A e \in Ends : i < e) THEN Content(i) ELSE <<>>])

\* Frame i of fs carries Base64: it is text, or goes on with text.
InBase64(fs, i) ==
  \/ fs[i].op = "text"
  \/ /\ fs[i].op = "continuation"
     /\ \E j \in 1 .. i - 1 : /\ fs[j].op = "text"
                              /\ \A n \in j + 1 .. i - 1 : fs[n].op \notin {"text", "binary"}

\* What the decoder needs of the frames it is sent.  The first read for a header
\* asks for WSHLENMAX bytes, whatever the frame's length: only the last frame may
\* be shorter than that.  Base64 is decoded frame by frame, in groups of four.
Receivable(fs) ==
  \A i \in 1 .. Len(fs) :
    /\ fs[i].len < Wide
    /\ i < Len(fs) => HeaderLen(fs[i]) + fs[i].len >= WSHLENMAX
    /\ InBase64(fs, i) => fs[i].len % 4 = 0 /\ (fs[i].pad = 0 \/ fs[i].len > 0)

Emulated == INSTANCE ByteStream WITH source <- Promised, sink <- out

\* In whatever pieces the bytes arrive and however few the caller takes, with
\* control frames between fragments, what webSocketsDecodeHybi returns is the
\* data the client sent (ws_decode.c 468-497, "emulates a read call").
StreamSpec == Emulated!Spec

\* All of it arrives, unless the socket fails: no piece is forgotten in the carry or
\* decode buffer, no call waits for bytes that were read already, and no
\* frame is refused that should not be (ws_decode.c 275-285, 395-413).
AllDelivered == <>(out = Promised \/ status = "failed")
=============================================================================
